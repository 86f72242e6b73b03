---------------------------- MODULE MC_StableSwap ----------------------------
(* StableSwap for TLC: a pool of two tokens of equal decimals, one where A    *)
(* has fewer decimals, and a depeg pool; amounts small enough for the 32-bit  *)
(* integers of TLC.                                                          *)
EXTENDS StableSwap

Pool(a, b, d) == [multiplier |-> [t \in Tokens |-> IF t = "A" THEN a ELSE b], depegged |-> d]
Amounts(a, b) == [t \in Tokens |-> IF t = "A" THEN a ELSE b]

MCKinds == {Pool(1, 1, FALSE), Pool(3, 1, FALSE), Pool(1, 1, TRUE)}
MCStart == {Amounts(20, 20), Amounts(16, 22)}
MCDeposits == {Amounts(5, 0), Amounts(0, 7), Amounts(4, 2)}

EqualKinds == {Pool(1, 1, FALSE)}
EqualStart == {Amounts(30, 36)}
NoDeposits == {}
=============================================================================
