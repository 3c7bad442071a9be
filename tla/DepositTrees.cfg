SPECIFICATION Spec
CONSTANTS
    None = None
    recipient_atas <- MCAtas
    StartHeights = {0, 5, 9}
    HistoryLimit = 8
    ClaimHeight = 3
    TxoHeight = 4
    LeafHeight = 1
    required_confirmations = 2
    Fee = 1
    MaxTransactions = 4
    MaxOutputs = 2
    Shapes <- MCShapes
    MaxBlocks = 4
INVARIANTS
    HonestBlockAccepted
    ClaimsAreTheDeposits
    AcceptedAsMined
    EvidenceIsClaimed
