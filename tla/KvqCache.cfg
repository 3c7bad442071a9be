CONSTANTS
    KeyLen = 2
    Radix = 2
    Values = {v, w}
    None = None
    Err = Err
    Removed = Removed
    Readers = {r}
SPECIFICATION Spec
INVARIANTS TypeOK ReadsYourWrites RangeIsExact LeqErrsOnlyByCache
PROPERTY StoreMovesForward
