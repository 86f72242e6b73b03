---------------------------- MODULE MC_PoolSwap ----------------------------
(* PoolSwap for TLC: small pools whose vaults start at share prices at,      *)
(* above and well above one, with fees coarse enough to round both ways.     *)
EXTENDS PoolSwap

MCAmounts == {1, 3, 4, 8, 13}
MCLaunchDeposits == {5, 13}
MCProfits == {3}
MCTotals == {20, 27}
=============================================================================
