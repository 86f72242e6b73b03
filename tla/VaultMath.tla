----------------------------- MODULE VaultMath -----------------------------
(***************************************************************************)
(* Share arithmetic of a dynamic vault (programs/dynamic-vault/src/state.rs *)
(* and the same functions of the vault SDK the TypeScript client imports).  *)
(*                                                                         *)
(* A vault is [total, supply, locked, report]: the tokens it accounts for, *)
(* its LP supply, and the profit locked at its last report, which unlocks  *)
(* linearly.  Amounts are small, so the u64/u128 bounds of the code are    *)
(* never reached here; the divisions are the code's floor divisions.       *)
(***************************************************************************)
EXTENDS Integers

CONSTANTS
    Degradation,    \* locked_profit_degradation: the part unlocked per time unit ...
    DegDenominator  \* ... in units of 1 / LOCKED_PROFIT_DEGRADATION_DENOMINATOR

ASSUME DegradationAssumption == Degradation \in Nat /\ DegDenominator \in Nat \ {0}

\* calculate_locked_profit is None when the clock is behind the vault's last report.
ReportedBefore(v, t) == v.report <= t

LockedProfit(v, t) ==
    LET ratio == (t - v.report) * Degradation
    IN  IF ratio > DegDenominator THEN 0
        ELSE (v.locked * (DegDenominator - ratio)) \div DegDenominator

UnlockedAmount(v, t) == v.total - LockedProfit(v, t)

\* What share LP tokens are worth, and the LP tokens that amount tokens are worth.
AmountByShare(share, unlocked, supply) == (share * unlocked) \div supply

\* Mutant: the LP tokens are rounded up.
UnmintAmountRoundedUp(amount, unlocked, supply) ==
    (amount * supply + unlocked - 1) \div unlocked
UnmintAmount(amount, unlocked, supply) == (amount * supply) \div unlocked
=============================================================================
