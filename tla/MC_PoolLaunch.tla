--------------------------- MODULE MC_PoolLaunch ---------------------------
(* PoolLaunch for TLC: two interchangeable payers, each with one of five ways *)
(* to launch, who may stop and start again.                                  *)
EXTENDS PoolLaunch, TLC

Way(version, lock, swap) == [version |-> version, lock |-> lock, swap |-> swap]
MCOptions ==
    {Way("config", TRUE, TRUE), Way("config", FALSE, FALSE),
     Way("config2", TRUE, FALSE), Way("config2", FALSE, TRUE), Way("single", FALSE, FALSE)}
MCBalances == {0, 1}

ClientSymmetry == Permutations(Clients)
=============================================================================
