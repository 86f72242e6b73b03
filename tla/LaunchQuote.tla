----------------------------- MODULE LaunchQuote -----------------------------
(***************************************************************************)
(* The quote of a swap in a constant-product pool that does not exist yet:  *)
(* calculateSwapQuoteForGoingToCreateMemecoinPool of                       *)
(* ts-client/src/amm/utils.ts, which launches the pool in thought and       *)
(* swaps in it.  Exactly one of the two tokens already has a vault.         *)
(*                                                                         *)
(* Local states are [vault, lp], the vault of that token with its LP supply *)
(* and the LP tokens the pool would hold of it.                             *)
(***************************************************************************)
EXTENDS SwapQuote

\* Mutant: the deposited tokens are not added to the vault's total.
DepositedLpOnly(s, amount, t) ==
    LET minted == UnmintAmount(amount, UnlockedAmount(s.vault, t), s.vault.supply)
    IN  [vault |-> [s.vault EXCEPT !.supply = @ + minted], lp |-> s.lp + minted]

\* getTokenAmountAfterDepositVault, which changes the vault state its caller passed in.
Deposited(s, amount, t) ==
    LET minted == UnmintAmount(amount, UnlockedAmount(s.vault, t), s.vault.supply)
    IN  [vault |-> [s.vault EXCEPT !.total = @ + amount, !.supply = @ + minted],
         lp |-> s.lp + minted]

\* getTokenAmountAfterWithdrawVault, up to its result.
Withdrawn(s, amount, t) ==
    LET burned == BNDiv(amount * s.vault.supply, UnlockedAmount(s.vault, t))
    IN  [vault |-> [s.vault EXCEPT !.total = @ - amount, !.supply = @ - burned],
         lp |-> s.lp - burned]

\* What both helpers return: the pool's tokens in the vault.
PoolTokens(s, t) == AmountByShare(s.lp, UnlockedAmount(s.vault, t), s.vault.supply)

\* The quote for amount tokens of side src, in a pool launched with the given deposits,
\* where vault is the vault of side vaulted.  Without a vault on the source side, all that
\* is swapped in counts as what the pool holds of it afterwards; with one on the other
\* side, the amount out is what the pool keeps there.
QuoteBeforeLaunch(vault, vaulted, src, deposits, amount, t) ==
    LET dst == Other(src)
        launched == Deposited([vault |-> vault, lp |-> 0], deposits[vaulted], t)
        held == [x \in Sides |-> IF x = vaulted THEN PoolTokens(launched, t) ELSE deposits[x]]
        tradeFee == TsTradingFee(amount)
        protocol == TsProtocolFee(tradeFee)
        net == amount - protocol
        after == IF src = vaulted THEN PoolTokens(Deposited(launched, net, t), t) ELSE net
        curveOut == CurveOut((after - held[src]) - (tradeFee - protocol), held[src], held[dst])
    IN  [ok |-> curveOut # 0,
         out |-> IF dst = vaulted THEN PoolTokens(Withdrawn(launched, curveOut, t), t)
                 ELSE curveOut,
         fee |-> net]
=============================================================================
