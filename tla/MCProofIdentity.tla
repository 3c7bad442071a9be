-------------------------- MODULE MCProofIdentity --------------------------
EXTENDS ProofIdentity, TLC

AllFacts == {"gen_proof_file", "gen_proof_release", "release_build", "elf_file",
    "elf_release", "bearer_token", "fee_denominator", "prepare_window",
    "queue_prefix", "wait_interval", "recipients", "recipients_distinct",
    "rpc_url", "keypairs"}

Good ==
    [backend |-> "redis", network |-> "regtest", expected_vk_hash |-> "v1",
     custody |-> "pda", bridge_program |-> "pda", params |-> "fees",
     operator |-> "op", mint |-> "doge", facts |-> AllFacts]

MCVkOf == [e1 |-> "v1", e2 |-> "v2", e3 |-> "v3"]
MCPinned == [regtest |-> "v1", testnet |-> "v3"]
MCChain == [custodian |-> <<"regtest", "pda">>, operator |-> "op", mint |-> "doge"]

\* The two backends, changed fees, and configurations start-up must refuse:
\* another network, another program's custody, no gen-proof for the local
\* backend, a zero fee denominator.
MCConfigs == {
    Good, [Good EXCEPT !.backend = "local"], [Good EXCEPT !.params = "fees2"],
    [Good EXCEPT !.network = "testnet", !.expected_vk_hash = "v3"],
    [Good EXCEPT !.expected_vk_hash = "v2"],
    [Good EXCEPT !.custody = "pda2", !.bridge_program = "pda2"],
    [Good EXCEPT !.custody = "pda2"], [Good EXCEPT !.operator = "other"],
    [Good EXCEPT !.backend = "local", !.facts = AllFacts \ {"gen_proof_file"}],
    [Good EXCEPT !.facts = AllFacts \ {"fee_denominator"}]}

Build(network, e, prefixed) == [network |-> network, elf |-> e, prefixed |-> prefixed]
MCBuilds == {Build("regtest", "e1", FALSE), Build("regtest", "e2", FALSE),
             Build("testnet", "e3", FALSE), Build("regtest", "e1", TRUE)}

TipSymmetry == Permutations(Tips)

=============================================================================
