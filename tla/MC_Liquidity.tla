---------------------------- MODULE MC_Liquidity ----------------------------
(* Liquidity for TLC: the pools of MC_PoolSwap with few swaps and profits, an LP *)
(* supply as at creation or from before the pool earned, and deposits and       *)
(* withdrawals below, at and above one LP token's worth.                        *)
EXTENDS Liquidity

MCAmounts == {4}
MCLaunchDeposits == {5}
MCProfits == {3}
MCTotals == {20, 27}
MCDepositAmounts == {1, 4, 9}
MCLpAmounts == {1, 3, 4}
MCInitLpSupplies == {7, 13}
=============================================================================
