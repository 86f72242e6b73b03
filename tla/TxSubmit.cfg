SPECIFICATION Spec
CONSTANTS
    Runs = {r1, r2}
    MaxRetries = 2
    Kinds = {"create_pool", "swap"}
    Touched = {"destination", "vaultB"}
INVARIANTS TypeOK FailureIsFinalUnlessLost UndisturbedRunSucceeds
PROPERTIES KeepsPromise EveryRunSettles
\* Every run may have settled, with its blockhash expired.
CHECK_DEADLOCK FALSE
