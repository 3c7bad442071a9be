-------------------------- MODULE FirstStartProofs --------------------------
(***************************************************************************)
(* Proofs about FirstStart, for any cache size, any start heights and any   *)
(* growth of the chain: when no reorganisation is deeper than the           *)
(* confirmations waited for, the state the pipeline starts from and the     *)
(* first block it proves are those of the chain Electrs still shows.        *)
(***************************************************************************)
EXTENDS FirstStart, FiniteSetTheorems, SequenceTheorems, TLAPS

-----------------------------------------------------------------------------
(* The chain *)

\* What a step of Dogecoin leaves of the chain: its first blocks, and at least
\* as many blocks as before.
LEMMA ExtendChain ==
    ASSUME LinkInv, NEW kept \in 1..Len(chain), NEW n \in Nat,
           n > 0, kept + n >= Len(chain), kept >= BridgeHeight + 1, Extend(kept, n)
    PROVE  LinkInv' /\ Tip' >= Tip /\ \A i \in 1..kept : chain'[i] = chain[i]
<1> DEFINE old == SubSeq(chain, 1, kept)
           N == NewHash
           new == [i \in 1..n |-> N + i - 1]
<1>1. chain \in Seq(Nat) /\ N \in Nat /\ Len(chain) \in Nat /\ kept \in Nat
      /\ DOMAIN parent = 0..(N - 1)
  BY DEF LinkInv
<1>2. /\ old \in Seq(Nat) /\ Len(old) = kept
      /\ \A i \in 1..kept : old[i] = chain[i]
  BY <1>1
<1>3. new \in Seq(Nat) /\ Len(new) = n /\ \A i \in 1..n : new[i] = N + i - 1
  BY <1>1
<1>4. chain' = old \o new
  BY DEF Extend
<1> HIDE DEF old, new
<1>5. /\ chain' \in Seq(Nat) /\ Len(chain') = kept + n
      /\ \A i \in 1..kept : chain'[i] = old[i]
      /\ \A i \in (kept + 1)..(kept + n) : chain'[i] = new[i - kept]
  <2>1. /\ old \o new \in Seq(Nat) /\ Len(old \o new) = kept + n
        /\ \A i \in 1..(kept + n) :
             (old \o new)[i] = IF i <= kept THEN old[i] ELSE new[i - kept]
    BY <1>2, <1>3, ConcatProperties
  <2>2. \A i \in 1..kept : i \in 1..(kept + n) /\ i <= kept
    BY <1>1
  <2>3. \A i \in (kept + 1)..(kept + n) : i \in 1..(kept + n) /\ ~(i <= kept)
    BY <1>1
  <2> QED
    BY <1>4, <2>1, <2>2, <2>3
<1>6. \A i \in 1..kept : chain'[i] = chain[i]
  BY <1>2, <1>5
<1>7. \A i \in (kept + 1)..(kept + n) : chain'[i] = N + (i - kept) - 1
  <2> SUFFICES ASSUME NEW i \in (kept + 1)..(kept + n)
               PROVE  chain'[i] = N + (i - kept) - 1
    OBVIOUS
  <2>1. i - kept \in 1..n
    BY <1>1
  <2> QED
    BY <1>3, <1>5, <2>1
<1>8. parent' = [b \in 0..(N + n - 1) |->
              IF b < N THEN parent[b]
              ELSE IF b = N THEN (IF kept = 0 THEN None ELSE chain[kept])
              ELSE b - 1]
  BY DEF Extend
<1>9. DOMAIN parent' = 0..(N + n - 1) /\ NewHash' = N + n
  <2>1. DOMAIN parent' = 0..(N + n - 1)
    BY <1>8
  <2>2. Cardinality(0..(N + n - 1)) = N + n
    BY <1>1, FS_Interval
  <2> QED
    BY <2>1, <2>2 DEF NewHash
<1>10. \A i \in 1..(kept + n) :
         /\ chain'[i] \in 0..(N + n - 1)
         /\ parent'[chain'[i]] = IF i = 1 THEN None ELSE chain'[i - 1]
  <2> SUFFICES ASSUME NEW i \in 1..(kept + n)
               PROVE  /\ chain'[i] \in 0..(N + n - 1)
                      /\ parent'[chain'[i]] = IF i = 1 THEN None ELSE chain'[i - 1]
    OBVIOUS
  <2>1. CASE i <= kept
    <3>1. i \in 1..kept /\ i \in 1..Len(chain) /\ chain'[i] = chain[i]
      BY <1>1, <1>6, <2>1
    <3>2. chain[i] \in 0..(N - 1) /\ parent[chain[i]] = IF i = 1 THEN None ELSE chain[i - 1]
      BY <3>1 DEF LinkInv
    <3>3. chain[i] \in 0..(N + n - 1) /\ chain[i] < N
      BY <1>1, <3>2
    <3>4. parent'[chain[i]] = parent[chain[i]]
      BY <1>8, <3>3
    <3>5. i # 1 => chain'[i - 1] = chain[i - 1]
      BY <1>1, <1>6, <3>1
    <3> QED
      BY <3>1, <3>2, <3>3, <3>4, <3>5
  <2>2. CASE i = kept + 1
    <3>1. chain'[i] = N /\ N \in 0..(N + n - 1)
      BY <1>1, <1>7, <2>2
    <3>2. parent'[N] = chain[kept]
      BY <1>1, <1>8, <3>1
    <3>3. chain'[i - 1] = chain[kept] /\ i # 1
      BY <1>1, <1>6, <2>2
    <3> QED
      BY <3>1, <3>2, <3>3
  <2>3. CASE i > kept + 1
    <3>1. i \in (kept + 1)..(kept + n) /\ i - 1 \in (kept + 1)..(kept + n) /\ i # 1
      BY <1>1, <2>3
    <3>2. chain'[i] = N + (i - kept) - 1 /\ chain'[i - 1] = N + ((i - 1) - kept) - 1
      BY <1>7, <3>1
    <3>3. /\ chain'[i] \in 0..(N + n - 1) /\ ~(chain'[i] < N) /\ chain'[i] # N
          /\ chain'[i] - 1 = chain'[i - 1]
      BY <1>1, <2>3, <3>1, <3>2
    <3>4. parent'[chain'[i]] = chain'[i] - 1
      BY <1>8, <3>3
    <3> QED
      BY <3>1, <3>3, <3>4
  <2> QED
    BY <1>1, <2>1, <2>2, <2>3
<1>11. Tip' >= BridgeHeight /\ Tip' >= Tip
  BY <1>1, <1>5, FirstStartAssumption DEF Tip
<1>12. LinkInv'
  BY <1>1, <1>5, <1>9, <1>10, <1>11 DEF LinkInv
<1> QED
  BY <1>6, <1>11, <1>12

\* Dogecoin's steps keep every settled block: new blocks come on top, and a
\* reorganisation of at most MaxDepth blocks spares the bridge's block.
LEMMA ChainStep ==
    ASSUME LinkInv, Mine \/ \E d \in 1..MaxDepth : Reorg(d)
    PROVE  /\ LinkInv' /\ Tip' >= Tip /\ UNCHANGED <<fixed, process>>
           /\ \A h \in Nat : h <= Tip /\ Settled(h) => HashAt(h)' = HashAt(h)
<1>1. Tip \in Nat /\ Len(chain) = Tip + 1 /\ Tip >= BridgeHeight /\ Len(chain) \in Nat
      /\ BridgeHeight \in Nat /\ MaxDepth \in Nat
  BY FirstStartAssumption DEF LinkInv, Tip
<1>2. CASE Mine
  <2>1. Extend(Len(chain), 1) /\ UNCHANGED <<fixed, process>>
    BY <1>2 DEF Mine
  <2>2. LinkInv' /\ Tip' >= Tip /\ \A i \in 1..Len(chain) : chain'[i] = chain[i]
    BY <1>1, <2>1, ExtendChain
  <2> QED
    BY <1>1, <2>1, <2>2 DEF HashAt
<1>3. CASE \E d \in 1..MaxDepth : Reorg(d)
  <2>1. PICK d \in 1..MaxDepth : Reorg(d)
    BY <1>3
  <2>2. Extend(Len(chain) - d, d + 1) /\ UNCHANGED <<fixed, process>>
        /\ d <= Tip - BridgeHeight
    BY <2>1 DEF Reorg
  <2>3. /\ Len(chain) - d \in 1..Len(chain) /\ d + 1 \in Nat /\ d + 1 > 0
        /\ (Len(chain) - d) + (d + 1) >= Len(chain)
        /\ Len(chain) - d >= BridgeHeight + 1
    BY <1>1, <2>2
  <2>4. LinkInv' /\ Tip' >= Tip /\ \A i \in 1..(Len(chain) - d) : chain'[i] = chain[i]
    BY <2>2, <2>3, ExtendChain
  <2>5. ASSUME NEW h \in Nat, h <= Tip, Settled(h)
        PROVE  h + 1 \in 1..(Len(chain) - d)
    BY <1>1, <2>2, <2>5 DEF Settled
  <2> QED
    BY <2>2, <2>4, <2>5 DEF HashAt
<1> QED
  BY <1>2, <1>3

\* What is settled stays settled: the tip only rises.
LEMMA SettledStays ==
    ASSUME LinkInv, LinkInv', Tip' >= Tip, NEW h \in Nat, h <= Tip, Settled(h)
    PROVE  h <= Tip' /\ Settled(h)'
<1>1. Tip \in Int /\ Tip' \in Int /\ MaxDepth \in Nat
  BY FirstStartAssumption DEF LinkInv, Tip
<1>2. h <= Tip'
  BY <1>1
<1>3. h + MaxDepth <= Tip => h + MaxDepth <= Tip'
  BY <1>1
<1> QED
  BY <1>2, <1>3 DEF Settled

\* So are the headers up to a settled height.
LEMMA HeadersStay ==
    ASSUME LinkInv, Tip \in Nat, NEW h \in Nat, h + 1 >= CacheSize, h <= Tip, Settled(h),
           \A k \in Nat : k <= Tip /\ Settled(k) => HashAt(k)' = HashAt(k)
    PROVE  HeadersUpTo(h)' = HeadersUpTo(h)
<1>1. \A k \in (h + 1 - CacheSize)..h :
        k \in Nat /\ HashAt(k)' = HashAt(k) /\ (k # 0 => HashAt(k - 1)' = HashAt(k - 1))
  <2> SUFFICES ASSUME NEW k \in (h + 1 - CacheSize)..h
               PROVE  k \in Nat /\ HashAt(k)' = HashAt(k)
                      /\ (k # 0 => HashAt(k - 1)' = HashAt(k - 1))
    OBVIOUS
  <2>1. CacheSize \in Nat /\ MaxDepth \in Nat /\ BridgeHeight \in Nat
    BY FirstStartAssumption
  <2>2. k \in Nat /\ k <= Tip /\ Settled(k)
    BY <2>1 DEF Settled
  <2>3. k # 0 => k - 1 \in Nat /\ k - 1 <= Tip /\ Settled(k - 1)
    BY <2>1, <2>2 DEF Settled
  <2> QED
    BY <2>2, <2>3
<1> QED
  BY <1>1 DEF HeadersUpTo

-----------------------------------------------------------------------------
(* Steps *)

\* What was read before the chain moved is what would be read now.
LEMMA ChainKeepsInv ==
    ASSUME FirstInv, Mine \/ \E d \in 1..MaxDepth : Reorg(d)
    PROVE  FirstInv'
<1>1. /\ LinkInv /\ LinkInv' /\ Tip' >= Tip /\ UNCHANGED <<fixed, process>>
      /\ \A h \in Nat : h <= Tip /\ Settled(h) => HashAt(h)' = HashAt(h)
  BY ChainStep DEF FirstInv
<1>2. Tip \in Nat /\ BridgeHeight \in Nat /\ CacheSize \in Nat /\ Tip >= BridgeHeight
      /\ BridgeHeight + 1 >= CacheSize
  BY <1>1, FirstStartAssumption DEF LinkInv, Tip
<1>3. UNCHANGED <<bridge, start_height, pc, start, replies, state, target, prepared>>
  BY <1>1 DEF fixed, process
<1>4. BridgeInv'
  <2>1. HeadersUpTo(BridgeHeight)' = HeadersUpTo(BridgeHeight)
    BY <1>1, <1>2, HeadersStay DEF Settled
  <2> QED
    BY <1>3, <2>1 DEF FirstInv, BridgeInv
<1>5. ASSUME pc \in Running
      PROVE  /\ start \in Nat /\ start + 1 >= CacheSize
             /\ start <= Tip /\ Settled(start) /\ start <= Tip' /\ Settled(start)'
             /\ HeadersUpTo(start)' = HeadersUpTo(start)
  <2>1. start \in Nat /\ start + 1 >= CacheSize /\ start <= Tip /\ Settled(start)
    BY <1>5 DEF FirstInv, StartInv
  <2>2. start <= Tip' /\ Settled(start)'
    <3>1. \A h \in Nat : h <= Tip /\ Settled(h) => h <= Tip' /\ Settled(h)'
      BY <1>1, SettledStays
    <3> QED
      BY <1>3, <2>1, <3>1 DEF Settled
  <2>3. HeadersUpTo(start)' = HeadersUpTo(start)
    <3>1. \A h \in Nat : h + 1 >= CacheSize /\ h <= Tip /\ Settled(h) =>
                           HeadersUpTo(h)' = HeadersUpTo(h)
      BY <1>1, <1>2, HeadersStay
    <3> QED
      BY <1>3, <2>1, <3>1 DEF HeadersUpTo
  <2> QED
    BY <2>1, <2>2, <2>3
<1>6. StartInv'
  BY <1>3, <1>5 DEF FirstInv, StartInv
<1>7. ReplyInv'
  <2> SUFFICES ASSUME pc = "headers"
               PROVE  ReplyInv'
    BY <1>3 DEF ReplyInv
  <2>1. pc \in Running
    BY DEF Running
  <2>2. /\ replies = [h \in (start + 1 - CacheSize)..start |-> replies[h]]
        /\ \A h \in DOMAIN replies :
             replies[h] \in {None, [asked |-> HashAt(h)], HeadersUpTo(start)[h]}
    BY DEF FirstInv, ReplyInv
  <2>3. \A h \in DOMAIN replies : h \in Nat /\ HashAt(h)' = HashAt(h)
    <3>1. \A h \in (start + 1 - CacheSize)..start : h \in Nat /\ h <= Tip /\ Settled(h)
      BY <1>2, <1>5, <2>1, FirstStartAssumption DEF Settled
    <3>2. DOMAIN replies = (start + 1 - CacheSize)..start
      BY <2>2
    <3> QED
      BY <1>1, <3>1, <3>2
  <2> QED
    BY <1>3, <1>5, <2>1, <2>2, <2>3 DEF ReplyInv
<1>8. StateInv'
  BY <1>3, <1>5 DEF FirstInv, StateInv, Running
<1>9. BlockInv'
  <2> SUFFICES ASSUME pc \in {"block", "prepared"}
               PROVE  /\ start + 1 <= Tip' /\ Settled(start + 1)'
                      /\ HashAt(start + 1)' = HashAt(start + 1)
    BY <1>3 DEF FirstInv, BlockInv
  <2>1. start + 1 \in Nat /\ start + 1 <= Tip /\ Settled(start + 1)
    BY <1>5 DEF FirstInv, BlockInv, Running
  <2>2. \A h \in Nat : h <= Tip /\ Settled(h) =>
                         h <= Tip' /\ Settled(h)' /\ HashAt(h)' = HashAt(h)
    BY <1>1, SettledStays
  <2> QED
    BY <1>3, <2>1, <2>2 DEF Settled, HashAt
<1> QED
  BY <1>1, <1>4, <1>6, <1>7, <1>8, <1>9 DEF FirstInv

\* The process moves and the chain stays: only what it keeps has to be shown.
LEMMA ProcessFrame ==
    ASSUME FirstInv, UNCHANGED <<electrs, fixed>>
    PROVE  /\ LinkInv' /\ BridgeInv' /\ UNCHANGED <<chain, parent, bridge, start_height>>
           /\ Tip' = Tip /\ Tip \in Nat
           /\ \A h : HashAt(h)' = HashAt(h) /\ Settled(h)' = Settled(h)
                     /\ HeadersUpTo(h)' = HeadersUpTo(h)
<1>1. UNCHANGED <<chain, parent, bridge, start_height>>
  BY DEF electrs, fixed
<1>2. LinkInv' /\ Tip' = Tip /\ Tip \in Nat
  BY <1>1, FirstStartAssumption DEF FirstInv, LinkInv, Tip, NewHash
<1>3. BridgeInv'
  BY <1>1 DEF FirstInv, BridgeInv, HeadersUpTo, HashAt
<1> QED
  BY <1>1, <1>2, <1>3 DEF HashAt, Settled, HeadersUpTo, Tip

\* A process that has stopped has read nothing.
LEMMA StopInv ==
    ASSUME FirstInv, UNCHANGED <<electrs, fixed>>, Stop
    PROVE  FirstInv'
<1>1. LinkInv' /\ BridgeInv' /\ UNCHANGED start_height
  BY ProcessFrame
<1>2. StartInv' /\ ReplyInv' /\ StateInv' /\ BlockInv'
  BY <1>1 DEF Stop, FirstInv, StartInv, ReplyInv, StateInv, BlockInv, Running
<1> QED
  BY <1>1, <1>2 DEF FirstInv

\* A height that has its confirmations is settled.
LEMMA ConfirmedIsSettled ==
    ASSUME LinkInv, MaxDepth <= Confirmations, NEW h \in Nat, h <= FinalizedTip
    PROVE  h <= Tip /\ Settled(h)
<1>1. Tip \in Nat /\ {BridgeHeight, MaxDepth, Confirmations} \subseteq Nat
  BY FirstStartAssumption DEF LinkInv, Tip
<1> QED
  BY <1>1 DEF FinalizedTip, Monus, Settled

\* The tip is read, and the height to start from chosen.
LEMMA ReadTipInv ==
    ASSUME FirstInv, MaxDepth <= Confirmations, ReadTip
    PROVE  FirstInv'
<1>1. /\ UNCHANGED <<electrs, fixed>> /\ UNCHANGED <<state, target, prepared>>
      /\ pc = "tip" /\ pc' = "headers" /\ start' = ChosenStart
      /\ replies' = [h \in (ChosenStart + 1 - CacheSize)..ChosenStart |-> None]
      /\ ChosenStart <= FinalizedTip /\ ChosenStart + 1 >= CacheSize
  BY DEF ReadTip, StartAllowed
<1>2. /\ LinkInv' /\ BridgeInv' /\ UNCHANGED start_height /\ Tip' = Tip /\ Tip \in Nat
      /\ \A h : Settled(h)' = Settled(h)
  BY <1>1, ProcessFrame
<1>3. ChosenStart \in Nat /\ (start_height # None => ChosenStart = start_height)
  BY <1>2, FirstStartAssumption
  DEF ChosenStart, FinalizedTip, Monus, FirstInv, StartInv
<1>4. ChosenStart <= Tip /\ Settled(ChosenStart)
  BY <1>1, <1>3, ConfirmedIsSettled DEF FirstInv
<1>5. StartInv'
  BY <1>1, <1>2, <1>3, <1>4 DEF FirstInv, StartInv, Settled
<1>6. ReplyInv'
  BY <1>1 DEF ReplyInv
<1>7. StateInv' /\ BlockInv'
  BY <1>1 DEF FirstInv, StateInv, BlockInv, Running
<1> QED
  BY <1>2, <1>5, <1>6, <1>7 DEF FirstInv

\* A reply arrives: the hash at a settled height, or the header of that hash.
LEMMA ReplyStep ==
    ASSUME FirstInv, NEW h \in DOMAIN replies, ReadHash(h) \/ ReadHeader(h)
    PROVE  FirstInv'
<1>1. /\ UNCHANGED <<electrs, fixed>> /\ UNCHANGED <<pc, start, state, target, prepared>>
      /\ pc = "headers"
  BY DEF ReadHash, ReadHeader
<1>2. /\ LinkInv' /\ BridgeInv' /\ UNCHANGED start_height /\ Tip' = Tip /\ Tip \in Nat
      /\ \A k : /\ HashAt(k)' = HashAt(k) /\ Settled(k)' = Settled(k)
                /\ HeadersUpTo(k)' = HeadersUpTo(k)
  BY <1>1, ProcessFrame
<1> DEFINE D == (start + 1 - CacheSize)..start
<1>3. /\ replies = [k \in D |-> replies[k]]
      /\ \A k \in DOMAIN replies :
           replies[k] \in {None, [asked |-> HashAt(k)], HeadersUpTo(start)[k]}
  BY <1>1 DEF FirstInv, ReplyInv
<1>4. start \in Nat /\ start + 1 >= CacheSize /\ start <= Tip
  BY <1>1 DEF FirstInv, StartInv, Running
<1>5. h \in D /\ h \in Nat /\ h <= Tip
  BY <1>2, <1>3, <1>4, FirstStartAssumption
<1>6. HeadersUpTo(start)[h] =
        [hash |-> HashAt(h), previous |-> IF h = 0 THEN None ELSE HashAt(h - 1)]
  BY <1>5 DEF HeadersUpTo
<1>7. \E r \in {[asked |-> HashAt(h)], HeadersUpTo(start)[h]} :
        replies' = [replies EXCEPT ![h] = r]
  <2>1. CASE ReadHash(h)
    BY <2>1 DEF ReadHash
  <2>2. CASE ReadHeader(h)
    <3>1. replies[h] = [asked |-> HashAt(h)]
      <4>1. replies[h] # None /\ "asked" \in DOMAIN replies[h]
        BY <2>2 DEF ReadHeader
      <4>2. DOMAIN HeadersUpTo(start)[h] = {"hash", "previous"}
        BY <1>6
      <4>3. "asked" \notin {"hash", "previous"}
        OBVIOUS
      <4> QED
        BY <1>3, <4>1, <4>2, <4>3
    <3>2. replies' = [replies EXCEPT ![h] = btc_block_header_to_qdoge(replies[h].asked)]
          /\ replies[h].asked = HashAt(h)
      BY <2>2, <3>1 DEF ReadHeader
    <3>3. parent[HashAt(h)] = IF h = 0 THEN None ELSE HashAt(h - 1)
      <4>1. h + 1 \in 1..Len(chain) /\ (h + 1 = 1 <=> h = 0) /\ (h + 1) - 1 = h
            /\ (h - 1) + 1 = h
        <5>1. Len(chain) \in Nat /\ h <= Len(chain) - 1
          BY <1>5 DEF Tip, FirstInv, LinkInv
        <5> QED
          BY <1>5, <5>1
      <4>2. parent[chain[h + 1]] = IF h + 1 = 1 THEN None ELSE chain[(h + 1) - 1]
        BY <4>1 DEF FirstInv, LinkInv
      <4> QED
        BY <4>1, <4>2 DEF HashAt
    <3>4. btc_block_header_to_qdoge(HashAt(h)) = HeadersUpTo(start)[h]
      BY <1>6, <3>3 DEF btc_block_header_to_qdoge
    <3> QED
      BY <3>2, <3>4
  <2> QED
    BY <2>1, <2>2
<1>8. ReplyInv'
  <2>1. PICK r \in {[asked |-> HashAt(h)], HeadersUpTo(start)[h]} :
          replies' = [replies EXCEPT ![h] = r]
    BY <1>7
  <2>2. DOMAIN replies = D
    BY <1>3
  <2>3. replies' = [k \in D |-> IF k = h THEN r ELSE replies[k]]
    BY <1>3, <2>1, <2>2
  <2>4. \A k \in D : replies'[k] \in {None, [asked |-> HashAt(k)], HeadersUpTo(start)[k]}
    BY <1>3, <2>1, <2>2, <2>3
  <2>5. DOMAIN replies' = D /\ replies' = [k \in D |-> replies'[k]]
    BY <2>3
  <2> QED
    BY <1>1, <1>2, <2>4, <2>5 DEF ReplyInv
<1>9. StartInv'
  BY <1>1, <1>2 DEF FirstInv, StartInv
<1>10. StateInv' /\ BlockInv'
  BY <1>1 DEF FirstInv, StateInv, BlockInv, Running
<1> QED
  BY <1>2, <1>8, <1>9, <1>10 DEF FirstInv

\* Every reply is in: they are the headers the chain still has.
LEMMA BuildCheckpointInv ==
    ASSUME FirstInv, BuildCheckpoint
    PROVE  FirstInv'
<1>1. /\ UNCHANGED <<electrs, fixed>> /\ UNCHANGED <<start, target, prepared>>
      /\ pc = "headers" /\ pc' = "poll" /\ Arrived
      /\ state' = [height |-> start, headers |-> replies]
  BY DEF BuildCheckpoint
<1>2. /\ LinkInv' /\ BridgeInv' /\ UNCHANGED start_height /\ Tip' = Tip
      /\ \A h : Settled(h)' = Settled(h) /\ HeadersUpTo(h)' = HeadersUpTo(h)
  BY <1>1, ProcessFrame
<1>3. replies = HeadersUpTo(start)
  <2> DEFINE D == (start + 1 - CacheSize)..start
  <2>1. /\ replies = [h \in D |-> replies[h]]
        /\ \A h \in DOMAIN replies :
             replies[h] \in {None, [asked |-> HashAt(h)], HeadersUpTo(start)[h]}
    BY <1>1 DEF FirstInv, ReplyInv
  <2>2. DOMAIN replies = D
    BY <2>1
  <2>3. \A h \in D : replies[h] = HeadersUpTo(start)[h]
    <3> SUFFICES ASSUME NEW h \in D PROVE replies[h] # [asked |-> HashAt(h)]
      BY <1>1, <2>1, <2>2 DEF Arrived
    <3>1. "hash" \in DOMAIN replies[h]
      BY <1>1, <2>2 DEF Arrived
    <3>2. DOMAIN [asked |-> HashAt(h)] = {"asked"}
      OBVIOUS
    <3>3. "hash" # "asked"
      OBVIOUS
    <3> QED
      BY <3>1, <3>2, <3>3
  <2>4. HeadersUpTo(start) = [h \in D |-> HeadersUpTo(start)[h]]
    BY DEF HeadersUpTo
  <2> QED
    BY <2>1, <2>3, <2>4
<1>4. StartInv'
  BY <1>1, <1>2 DEF FirstInv, StartInv, Running
<1>5. ReplyInv' /\ StateInv'
  BY <1>1, <1>2, <1>3 DEF ReplyInv, StateInv, Running
<1>6. BlockInv'
  BY <1>1 DEF FirstInv, BlockInv
<1> QED
  BY <1>2, <1>4, <1>5, <1>6 DEF FirstInv

\* The first block is asked for when its height is settled, by hash and then in
\* full.
LEMMA PollInv ==
    ASSUME FirstInv, MaxDepth <= Confirmations, PollTip \/ ReadBlockHash \/ ReadBlock
    PROVE  FirstInv'
<1>1. UNCHANGED <<electrs, fixed>>
  BY DEF PollTip, ReadBlockHash, ReadBlock
<1>2. CASE Stop
  BY <1>1, <1>2, StopInv
<1>3. CASE ~Stop
  <2>1. /\ LinkInv' /\ BridgeInv' /\ UNCHANGED start_height /\ Tip' = Tip /\ Tip \in Nat
        /\ \A h : /\ HashAt(h)' = HashAt(h) /\ Settled(h)' = Settled(h)
                  /\ HeadersUpTo(h)' = HeadersUpTo(h)
    BY <1>1, ProcessFrame
  <2>2. /\ pc \in {"poll", "block"} /\ pc' \in {"block", "prepared"}
        /\ UNCHANGED <<start, replies, state>>
    BY <1>3 DEF PollTip, ReadBlockHash, ReadBlock
  <2>3. /\ start \in Nat /\ state = [height |-> start, headers |-> HeadersUpTo(start)]
        /\ state.height = start
    BY <2>2 DEF FirstInv, StartInv, StateInv, Running
  <2>4. StartInv' /\ ReplyInv' /\ StateInv'
    BY <2>1, <2>2 DEF FirstInv, StartInv, ReplyInv, StateInv, Running
  <2>5. start + 1 <= Tip /\ Settled(start + 1)
    <3>1. CASE PollTip
      <4>1. FinalizedTip \in Nat /\ start < FinalizedTip
        BY <2>1, <2>3, <3>1, FirstStartAssumption DEF PollTip, FinalizedTip, Monus
      <4>2. start + 1 \in Nat /\ start + 1 <= FinalizedTip
        BY <2>3, <4>1
      <4> QED
        BY <4>2, ConfirmedIsSettled DEF FirstInv
    <3>2. CASE pc = "block"
      BY <3>2 DEF FirstInv, BlockInv
    <3> QED
      BY <3>1, <3>2 DEF ReadBlockHash, ReadBlock
  <2>6. BlockInv'
    <3>1. CASE PollTip
      BY <2>1, <2>2, <2>5, <3>1 DEF PollTip, FirstInv, BlockInv
    <3>2. CASE ReadBlockHash
      BY <2>1, <2>2, <2>3, <2>5, <3>2 DEF ReadBlockHash, BlockInv
    <3>3. CASE ReadBlock
      <4>1. /\ pc = "block" /\ pc' = "prepared" /\ target # None
            /\ prepared' = btc_block_to_qdoge(target)
        BY <1>3, <3>3 DEF ReadBlock
      <4>2. target = HashAt(start + 1)
        BY <4>1 DEF FirstInv, BlockInv
      <4>3. prepared'.hash = target
        BY <4>1 DEF btc_block_to_qdoge
      <4> QED
        BY <2>1, <2>2, <2>5, <4>1, <4>2, <4>3 DEF BlockInv
    <3> QED
      BY <3>1, <3>2, <3>3
  <2> QED
    BY <2>1, <2>4, <2>6 DEF FirstInv
<1> QED
  BY <1>2, <1>3

\* Every step keeps the invariant.
LEMMA NextInv ==
    ASSUME MaxDepth <= Confirmations, FirstInv, [Next]_vars
    PROVE  FirstInv'
<1>1. CASE RequestFails \/ StartRefused
  BY <1>1, StopInv DEF RequestFails, StartRefused
<1>2. CASE Start \/ UNCHANGED vars
  <2>1. /\ UNCHANGED <<electrs, fixed>>
        /\ UNCHANGED <<start, replies, state, target, prepared>>
        /\ UNCHANGED pc \/ (pc = "down" /\ pc' = "tip")
    BY <1>2 DEF Start, vars, process
  <2>2. /\ LinkInv' /\ BridgeInv' /\ UNCHANGED start_height /\ Tip' = Tip
        /\ \A h : /\ HashAt(h)' = HashAt(h) /\ Settled(h)' = Settled(h)
                  /\ HeadersUpTo(h)' = HeadersUpTo(h)
    BY <2>1, ProcessFrame
  <2>3. StartInv' /\ ReplyInv' /\ StateInv' /\ BlockInv'
    BY <2>1, <2>2 DEF FirstInv, StartInv, ReplyInv, StateInv, BlockInv, Running
  <2> QED
    BY <2>2, <2>3 DEF FirstInv
<1>3. CASE Mine \/ \E d \in 1..MaxDepth : Reorg(d)
  BY <1>3, ChainKeepsInv
<1> QED
  BY <1>1, <1>2, <1>3, ReadTipInv, ReplyStep, BuildCheckpointInv, PollInv DEF Next

\* Before the first start the chain is linked, the bridge was initialised from
\* it, and nothing has been read.
LEMMA InitInv == Init => FirstInv
<1> SUFFICES ASSUME Init PROVE FirstInv
  OBVIOUS
<1>1. PICK tip \in BridgeHeight..(BridgeHeight + Confirmations) :
        /\ chain = [i \in 1..(tip + 1) |-> i - 1]
        /\ parent = [b \in 0..tip |-> IF b = 0 THEN None ELSE b - 1]
  BY DEF Init
<1>2. tip \in Nat /\ tip >= BridgeHeight
  BY FirstStartAssumption
<1>3. chain \in Seq(Nat) /\ Len(chain) = tip + 1 /\ Tip = tip
  BY <1>1, <1>2 DEF Tip
<1>4. DOMAIN parent = 0..tip /\ NewHash = tip + 1
  <2>1. Cardinality(0..tip) = tip + 1
    BY <1>2, FS_Interval
  <2>2. DOMAIN parent = 0..tip
    BY <1>1
  <2> QED
    BY <2>1, <2>2 DEF NewHash
<1>5. \A i \in 1..(tip + 1) : /\ chain[i] \in 0..tip
                               /\ parent[chain[i]] = IF i = 1 THEN None ELSE chain[i - 1]
  BY <1>1, <1>2
<1>6. LinkInv
  BY <1>2, <1>3, <1>4, <1>5 DEF LinkInv
<1>7. BridgeInv
  BY DEF Init, BridgeInv
<1>8. StartInv /\ ReplyInv /\ StateInv /\ BlockInv
  BY FirstStartAssumption DEF Init, StartInv, ReplyInv, StateInv, BlockInv, Running
<1> QED
  BY <1>6, <1>7, <1>8 DEF FirstInv

-----------------------------------------------------------------------------
(* Theorems *)

\* The inductive invariant of the first start, for chains whose reorganisations
\* are not deeper than required_confirmations: whatever has been read is still
\* what Electrs would answer.
THEOREM FirstInvariant ==
    ASSUME MaxDepth <= Confirmations
    PROVE  Spec => []FirstInv
<1>1. FirstInv /\ [Next]_vars => FirstInv'
  BY NextInv
<1> QED
  BY <1>1, InitInv, PTL DEF Spec

\* The headers fetched one by one, in parallel and across reorganisations, are
\* one chain, and the one Electrs still shows.
THEOREM FetchedHeadersAreOneChain ==
    ASSUME MaxDepth <= Confirmations
    PROVE  Spec => []CacheIsOneChain
<1>1. FirstInv => CacheIsOneChain
  BY DEF FirstInv, StateInv, CacheIsOneChain
<1> QED
  BY <1>1, FirstInvariant, PTL

\* The first block given to the prover is the one that follows the start height
\* on the chain.
THEOREM FirstBlockFollows ==
    ASSUME MaxDepth <= Confirmations
    PROVE  Spec => []FirstBlockIsNext
<1>1. FirstInv => FirstBlockIsNext
  BY DEF FirstInv, StateInv, BlockInv, FirstBlockIsNext, Running
<1> QED
  BY <1>1, FirstInvariant, PTL

\* A pipeline configured with the bridge's own height proves from the very state
\* the bridge was initialised with.
THEOREM StartsFromBridgeState ==
    ASSUME MaxDepth <= Confirmations
    PROVE  Spec => []ProvesFromBridgeState
<1>1. FirstInv => ProvesFromBridgeState
  <2> SUFFICES ASSUME FirstInv, pc = "prepared", start_height = BridgeHeight
               PROVE  state.height = bridge.height /\ state.headers = bridge.headers
    BY DEF ProvesFromBridgeState
  <2>1. start = BridgeHeight
    BY FirstStartAssumption DEF FirstInv, StartInv, Running
  <2> QED
    BY <2>1 DEF FirstInv, StateInv, BridgeInv, Running
<1> QED
  BY <1>1, FirstInvariant, PTL

=============================================================================
