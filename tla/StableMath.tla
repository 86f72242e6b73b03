----------------------------- MODULE StableMath -----------------------------
(***************************************************************************)
(* The arithmetic of the stable curve: the Newton iterations of             *)
(* ts-client/src/amm/curve/stable-swap-math/calculator.ts and what          *)
(* StableSwap (curve/stable-swap.ts) computes with them.  Divisions round   *)
(* down, as BN and bigint do on the naturals, except where a Fraction is    *)
(* turned into a whole number, which rounds to the nearest.                 *)
(*                                                                         *)
(* Amounts are tokens; the iterations work on amounts scaled to one unit    *)
(* for both tokens.  scale[token] is the product of the token's multiplier  *)
(* and, in a depeg pool, of PRECISION (A) or the base virtual price (B).    *)
(***************************************************************************)
EXTENDS Integers

CONSTANTS
    Amp,            \* amp of the pool
    MaxIters,       \* MAX_ITERS
    FeeNumerator,   \* trade fee
    FeeDenominator

ASSUME StableAssumption ==
    /\ Amp \in Nat \ {0} /\ MaxIters \in Nat \ {0}
    /\ FeeDenominator \in Nat \ {0} /\ FeeNumerator \in 0..FeeDenominator

NCoins == 2
Ann == Amp * NCoins

AbsDiff(a, b) == IF a > b THEN a - b ELSE b - a

\* Fraction.toFixed(0) of a fraction of naturals
RoundHalfUp(n, d) == (2 * n + d) \div (2 * d)

\* BN.div and the division of bigint: towards zero
Quotient(n, d) ==
    LET q == (IF n < 0 THEN -n ELSE n) \div (IF d < 0 THEN -d ELSE d)
    IN  IF (n < 0) = (d < 0) THEN q ELSE -q

-----------------------------------------------------------------------------
(* calculator.ts *)

\* Mutant: D is counted once too little in the denominator.
NextDOffByOne(d, amountA, amountB) ==
    LET dP == (((d * d) \div (amountA * NCoins)) * d) \div (amountB * NCoins)
    IN  (d * (Ann * (amountA + amountB) + dP * NCoins)) \div (d * (Ann - 1) + dP * NCoins)

\* One step of the iteration for D.
NextD(d, amountA, amountB) ==
    LET dP == (((d * d) \div (amountA * NCoins)) * d) \div (amountB * NCoins)
    IN  (d * (Ann * (amountA + amountB) + dP * NCoins))
            \div (d * (Ann - 1) + dP * (NCoins + 1))

\* One step of the iteration for the amount that solves y * (y + b) = c.
NextY(y, b, c) == (y * y + c) \div (NCoins * y + b)

\* An iteration from first by step until two values are at most one apart, or the limit.
Newton(first, step(_)) ==
    LET run[i \in 0..MaxIters] ==
          IF i = 0 THEN [prev |-> 0, value |-> first]
          ELSE LET before == run[i - 1]
               IN  IF AbsDiff(before.value, before.prev) > 1
                   THEN [prev |-> before.value, value |-> step(before.value)]
                   ELSE before
    IN  run[MaxIters]

NewtonD(amountA, amountB) ==
    Newton(amountA + amountB, LAMBDA d : NextD(d, amountA, amountB))

ComputeD(amountA, amountB) ==
    IF amountA + amountB = 0 THEN 0 ELSE NewtonD(amountA, amountB).value

LinearTerm(x, d) == x + d \div Ann - d
ConstantTerm(x, d) == (d * d * d) \div (NCoins * (NCoins * (x * Ann)))

NewtonY(x, d) == Newton(d, LAMBDA y : NextY(y, LinearTerm(x, d), ConstantTerm(x, d)))

ComputeY(x, d) == NewtonY(x, d).value

-----------------------------------------------------------------------------
(* StableSwap: scaling and swaps *)

Tokens == {"A", "B"}
OtherToken(token) == IF token = "A" THEN "B" ELSE "A"

Upscale(n, token, scale) == n * scale[token]
Downscale(n, token, scale) == Quotient(n, scale[token])

UpscaledReserves(reserves, scale) == [t \in Tokens |-> Upscale(reserves[t], t, scale)]

D(balances) == ComputeD(balances["A"], balances["B"])

\* Mutant: nothing is held back for the iterations that round down.
UpscaledOutInFull(token, source, balances) ==
    balances[OtherToken(token)] - ComputeY(balances[token] + source, D(balances))

\* What comes out, scaled: one less than the curve gives.
UpscaledOut(token, source, balances) ==
    balances[OtherToken(token)] - ComputeY(balances[token] + source, D(balances)) - 1

\* StableSwap.computeOutAmount, the amount, for n of token
OutAmount(token, n, reserves, scale) ==
    Downscale(UpscaledOut(token, Upscale(n, token, scale), UpscaledReserves(reserves, scale)),
              OtherToken(token), scale)

\* StableSwap.computeOutAmountWithoutSlippage: n at the price before the swap
OutAmountWithoutSlippage(token, n, reserves, scale) ==
    LET balances == UpscaledReserves(reserves, scale)
        x == balances[token]
        y == balances[OtherToken(token)]
        a == 16 * Amp
        c == 4 * D(balances) - 16 * Amp * D(balances)
        numerator == (2 * a * x + a * y + c) * y
        denominator == (a * x + 2 * a * y + c) * x
    IN  Downscale(Quotient(Upscale(n, token, scale) * numerator, denominator),
                  OtherToken(token), scale)

\* Mutant: the reserves of the two tokens are swapped.
InAmountOtherSide(token, dest, reserves, scale) ==
    LET other == OtherToken(token)
        balances == UpscaledReserves(reserves, scale)
        newSource == ComputeY(balances[token] - Upscale(dest, other, scale), D(balances))
    IN  Downscale(newSource - reserves[other], token, scale)

\* StableSwap.computeInAmount: what has to be paid in token for dest of the other one.  The
\* balance that is taken off the new one is not scaled.
InAmount(token, dest, reserves, scale) ==
    LET other == OtherToken(token)
        balances == UpscaledReserves(reserves, scale)
        newSource == ComputeY(balances[other] - Upscale(dest, other, scale), D(balances))
    IN  Downscale(newSource - reserves[token], token, scale)

-----------------------------------------------------------------------------
(* StableSwap: liquidity *)

\* normalizedTradeFee: half of the trade fee, as a fraction over TradeFeeDenominator.
TradeFeeNumerator(n) == n * FeeNumerator
TradeFeeDenominator == 2 * FeeDenominator

\* A deposit is charged on what moves the pool away from its proportions.
AdjustedBalances(balances, deposit, d0, d1) ==
    [t \in Tokens |->
        LET newBalance == balances[t] + deposit[t]
            difference == RoundHalfUp(AbsDiff(balances[t] * d1, newBalance * d0), d0)
        IN  newBalance - RoundHalfUp(TradeFeeNumerator(difference), TradeFeeDenominator)]

\* Mutant: the LP tokens before fees are given.
MintAmountBeforeFees(balances, deposit, supply) ==
    LET d0 == D(balances)
        d1 == D([t \in Tokens |-> balances[t] + deposit[t]])
    IN  (supply * (d1 - d0)) \div d0

\* calculateEstimatedMintAmount, on scaled amounts
MintAmount(balances, deposit, supply) ==
    LET d0 == D(balances)
        d1 == D([t \in Tokens |-> balances[t] + deposit[t]])
        d2 == D(AdjustedBalances(balances, deposit, d0, d1))
    IN  Quotient(supply * (d2 - d0), d0)

\* StableSwap.computeImbalanceDeposit; no LP tokens for no deposit, and it throws (a mint of
\* zero here) if D would fall.
ImbalanceDeposit(deposit, reserves, supply, scale) ==
    LET balances == UpscaledReserves(reserves, scale)
        added == UpscaledReserves(deposit, scale)
    IN  IF deposit["A"] + deposit["B"] = 0
           \/ D([t \in Tokens |-> balances[t] + added[t]]) < D(balances)
        THEN 0
        ELSE MintAmount(balances, added, supply)

\* Mutant: base and quote are taken the other way round.
WithdrawOtherSide(base, lp, balances, supply) ==
    LET d0 == D(balances)
        d1 == d0 - (lp * d0) \div supply
    IN  balances[OtherToken(base)] - ComputeY(balances[base], d1)

\* calculateEstimatedWithdrawOneAmount, withdrawAmountBeforeFees: lp is paid in base, and
\* the part of it that stands for the other token is charged.
WithdrawBeforeFees(base, lp, balances, supply) ==
    LET quote == balances[OtherToken(base)]
        d0 == D(balances)
        d1 == d0 - (lp * d0) \div supply
        expectedBase == (balances[base] * d1) \div d0 - ComputeY(quote, d1)
        expectedQuote == quote - (quote * d1) \div d0
        newQuote == RoundHalfUp(quote * TradeFeeDenominator - TradeFeeNumerator(expectedQuote),
                                TradeFeeDenominator)
        dy == balances[base] - ComputeY(newQuote, d1)
    IN  RoundHalfUp(dy * TradeFeeDenominator - TradeFeeNumerator(expectedBase),
                    TradeFeeDenominator)

\* StableSwap.computeWithdrawOne
WithdrawOne(base, lp, reserves, supply, scale) ==
    IF lp = 0 THEN 0
    ELSE Downscale(WithdrawBeforeFees(base, lp, UpscaledReserves(reserves, scale), supply),
                   base, scale)
=============================================================================
