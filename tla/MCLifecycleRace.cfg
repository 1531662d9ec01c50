CONSTANTS
    NumRxUrbs = 1
    TxCallers = {a}
    MaxTxUrbs = 1
SPECIFICATION Spec
INVARIANTS
    NoUseOfFreedUrb
