----------------------------- MODULE SwapQuote -----------------------------
(***************************************************************************)
(* The two implementations of a constant-product swap quote:               *)
(* calculateSwapQuote of ts-client/src/amm/utils.ts and compute_quote of   *)
(* dynamic-amm-quote/src/lib.rs.  Both are pure functions of a snapshot    *)
(*   [time, enabled, vault, poolLp, reserve]                               *)
(* where vault, the pool's vault LP balance poolLp and the vault's token   *)
(* account reserve are functions on the two sides "A" and "B".             *)
(*                                                                         *)
(* A quote is [ok, out, fee, protocol, lpIn, lpOut, curveIn, unchecked]:   *)
(* whether it is returned or an error is, the amount out, the fee reported,*)
(* and the intermediate amounts a swap would move.  unchecked is the       *)
(* amount out before the last check, against the vault's reserve.          *)
(***************************************************************************)
EXTENDS VaultMath

CONSTANTS
    TradeNum, TradeDen,         \* fees.tradeFeeNumerator / Denominator
    ProtocolNum, ProtocolDen,   \* fees.protocolTradeFeeNumerator / Denominator
    ActivationPoint             \* bootstrapping.activationPoint, a timestamp

ASSUME FeeAssumption ==
    /\ TradeNum \in Nat /\ TradeDen \in Nat \ {0} /\ TradeNum <= TradeDen
    /\ ProtocolNum \in Nat /\ ProtocolDen \in Nat \ {0} /\ ProtocolNum <= ProtocolDen
    /\ ActivationPoint \in Nat

Sides == {"A", "B"}
Other(x) == IF x = "A" THEN "B" ELSE "A"

\* The tokens of one side that belong to the pool.
TokenAmount(st, x) ==
    AmountByShare(st.poolLp[x], UnlockedAmount(st.vault[x], st.time), st.vault[x].supply)

-----------------------------------------------------------------------------
(* The constant-product curve *)

\* Mutant: the new destination balance is rounded down.
FloorQuotient(l, r) == l \div r
\* ceilDiv throws when the quotient is zero; callers test that first.
CeilQuotient(l, r) == IF l % r > 0 THEN (l \div r) + 1 ELSE l \div r

\* computeOutAmount: what leaves a pool of S and D for x; 0 is an error.
CurveOut(x, S, D) ==
    IF S + x <= 0 \/ (S * D) \div (S + x) = 0 THEN 0
    ELSE D - CeilQuotient(S * D, S + x)

-----------------------------------------------------------------------------
(* TypeScript: calculateSwapQuote *)

\* BN division truncates towards zero.
BNDiv(a, b) == IF a >= 0 THEN a \div b ELSE -((-a) \div b)

\* Mutant: the trade fee is divided by the protocol fee's denominator.
TsTradingFeeOverProtocolDen(amount) == (amount * TradeNum) \div ProtocolDen
TsTradingFee(amount) == (amount * TradeNum) \div TradeDen

\* Protocol fee is a cut of trade fee.
TsProtocolFee(tradeFee) == (tradeFee * ProtocolNum) \div ProtocolDen

\* calculateMaxSwapOutAmount
MaxSwapOut(st, x) ==
    LET amount == TokenAmount(st, x)
    IN  IF amount > st.reserve[x] THEN st.reserve[x] ELSE amount

\* Mutant: the amount out is not compared with what can leave the vault.
BelowAnything(out, max) == TRUE
BelowMaxSwapOut(out, max) == out < max

\* A pool is quoted before its activation point to the whitelisted vault only.
TsSwapAllowed(st, whitelisted) ==
    /\ st.enabled
    /\ whitelisted \/ st.time >= ActivationPoint

TsQuote(st, src, amount, whitelisted) ==
    LET dst == Other(src)
        srcUnlocked == UnlockedAmount(st.vault[src], st.time)
        dstUnlocked == UnlockedAmount(st.vault[dst], st.time)
        S == TokenAmount(st, src)
        D == TokenAmount(st, dst)
        tradeFee == TsTradingFee(amount)
        protocol == TsProtocolFee(tradeFee)
        fee == tradeFee - protocol
        net == amount - protocol
        lpIn == UnmintAmount(net, srcUnlocked, st.vault[src].supply)
        after == AmountByShare(lpIn + st.poolLp[src], srcUnlocked + net,
                               st.vault[src].supply + lpIn)
        curveIn == (after - S) - fee
        curveOut == CurveOut(curveIn, S, D)
        lpOut == BNDiv(curveOut * st.vault[dst].supply, dstUnlocked)
        out == BNDiv(lpOut * dstUnlocked, st.vault[dst].supply)
    IN  [ok |-> /\ TsSwapAllowed(st, whitelisted)
                /\ curveOut # 0
                /\ BelowMaxSwapOut(out, MaxSwapOut(st, dst)),
         out |-> out, fee |-> fee, protocol |-> protocol,
         lpIn |-> lpIn, lpOut |-> lpOut, curveIn |-> curveIn, unchecked |-> out]

-----------------------------------------------------------------------------
(* Rust: compute_quote *)

\* calculate_fee: a fee that rounds to zero is one token.
RustFee(amount, num, den) ==
    IF num = 0 \/ amount = 0 THEN 0
    ELSE LET fee == (amount * num) \div den IN IF fee = 0 THEN 1 ELSE fee

RustQuote(st, src, amount) ==
    LET dst == Other(src)
        srcUnlocked == UnlockedAmount(st.vault[src], st.time)
        dstUnlocked == UnlockedAmount(st.vault[dst], st.time)
        S == TokenAmount(st, src)
        D == TokenAmount(st, dst)
        tradeFee == RustFee(amount, TradeNum, TradeDen)
        protocol == RustFee(tradeFee, ProtocolNum, ProtocolDen)
        net == amount - protocol
        lpIn == UnmintAmount(net, srcUnlocked, st.vault[src].supply)
        after == AmountByShare(lpIn + st.poolLp[src], srcUnlocked + net,
                               st.vault[src].supply + lpIn)
        curveIn == (after - S) - tradeFee
        curveOut == CurveOut(curveIn, S, D)
        lpOut == UnmintAmount(curveOut, dstUnlocked, st.vault[dst].supply)
        out == AmountByShare(lpOut, dstUnlocked, st.vault[dst].supply)
    IN  [ok |-> /\ st.enabled /\ st.time >= ActivationPoint
                /\ \A x \in Sides : ReportedBefore(st.vault[x], st.time)
                \* the checked subtractions
                /\ net >= 0 /\ after >= S /\ curveIn >= 0
                /\ curveOut # 0
                /\ out < st.reserve[dst],
         out |-> out, fee |-> tradeFee, protocol |-> protocol,
         lpIn |-> lpIn, lpOut |-> lpOut, curveIn |-> curveIn, unchecked |-> out]
=============================================================================
