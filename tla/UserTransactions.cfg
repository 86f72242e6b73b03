SPECIFICATION Spec
CONSTANTS
    Wallets = {w1, w2}
    PoolKinds = {TRUE, FALSE}
    StartWrapped = {0, 1}
    Calls <- MCCalls
    MaxCalls = 3
    MaxInFlight = 2
    MaxConfigs = 1
SYMMETRY WalletSymmetry
INVARIANTS TypeOK UndisturbedTxLands OnlyPayerSigns NoResidue
PROPERTIES DoesWhatWasAsked
\* The calls of a behaviour are bounded: it may end.
CHECK_DEADLOCK FALSE
