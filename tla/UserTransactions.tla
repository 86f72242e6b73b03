-------------------------- MODULE UserTransactions --------------------------
(***************************************************************************)
(* The transactions AmmImpl builds for the users of a pool: swap, deposit,  *)
(* withdraw, lockLiquidity, claimLockFee and createConfig                  *)
(* (ts-client/src/amm/index.ts).  A builder reads which accounts exist,     *)
(* some in a first and some in a second round of requests, and puts an      *)
(* instruction that creates each missing one before the program's own, and  *)
(* one that closes the wrapped SOL account after it.  The transaction lands *)
(* later, whole or not at all, among those of other users and those the     *)
(* same user built in the meantime.                                        *)
(*                                                                         *)
(* Token B of the pool is native SOL.  An account is a tuple: <<"ata", o,   *)
(* m>> is the associated token account of o for m, where o is a wallet or   *)
(* an escrow <<"escrow", w>>; <<"config", i>> is the config of index i; an  *)
(* account of the pool goes by the name of the role it plays, <<role>>.     *)
(* What a program does to token accounts is external (its handlers are      *)
(* stubs), the accounts it may touch come from the IDL.                     *)
(***************************************************************************)
EXTENDS Integers, Sequences, FiniteSets, Functions

Idl == INSTANCE AmmIdl

CONSTANTS
    Wallets,
    PoolKinds,      \* the values of isStablePool: a subset of BOOLEAN
    StartWrapped,   \* wrapped SOL a wallet with a token account for it may start with
    Calls,          \* the calls a caller may make, see Call
    MaxCalls,       \* bound on the calls made in a behaviour
    MaxInFlight,    \* bound on the calls and transactions under way at a time
    MaxConfigs      \* bound on the index of a config

\* A call: lockLiquidity names the escrow's owner, swap its referrer and whether SOL goes in,
\* withdraw the sides it asks for; the fields that do not apply are "none".
Call(op, sides, who) == [op |-> op, sides |-> sides, who |-> who]

Ops == {"swap", "deposit", "withdraw", "lockLiquidity", "claimLockFee", "createConfig"}
NoCall == "none"
EscrowOf(w) == <<"escrow", w>>
SidesOf(op) ==
    CASE op = "swap" -> {"A", "SOL"}
      [] op \in {"deposit", "withdraw"} -> {"both", "A", "SOL"}
      [] OTHER -> {"none"}
PartnersOf(op) ==
    CASE op = "swap" -> Wallets \cup {NoCall}
      [] op = "lockLiquidity" -> Wallets
      [] OTHER -> {NoCall}

\* There are finitely many wallets; an escrow is an address without a key, so it is no wallet.
ASSUME UserAssumption ==
    /\ IsFiniteSet(Wallets)
    /\ NoCall \notin Wallets
    /\ \A w \in Wallets : EscrowOf(w) \notin Wallets
    /\ PoolKinds \subseteq BOOLEAN
    /\ StartWrapped \subseteq Nat
    /\ \A c \in Calls : c.op \in Ops /\ c.sides \in SidesOf(c.op) /\ c.who \in PartnersOf(c.op)
    /\ MaxCalls \in Nat /\ MaxInFlight \in Nat /\ MaxConfigs \in Nat

VARIABLES
    stable,     \* isStablePool of the pool
    ledger,     \* the accounts: which are open, what they hold, what escrows record
    emptySeen,  \* emptySeen[w]: w's AmmImpl object holds a poolState whose lpSupply is zero
    pending,    \* the calls whose builders have not returned, and what they have read
    net,        \* transactions sent that have neither landed nor expired
    calls,      \* how many calls have been made
    wrapped0,   \* history: wrapped SOL of each wallet at first
    hostFees    \* history: the wrapped SOL each wallet has received as a referrer

vars == <<stable, ledger, emptySeen, pending, net, calls, wrapped0, hostFees>>

Ata(o, m) == <<"ata", o, m>>
ConfigAt(i) == <<"config", i>>
Configs == {ConfigAt(i) : i \in 0..MaxConfigs}

TokenAccounts ==
    {Ata(w, m) : w \in Wallets, m \in {"A", "SOL", "LP"}} \cup
    {Ata(EscrowOf(w), "LP") : w \in Wallets}

\* Amounts, in units small enough that a user can run out of them.
AmountIn == 2       \* swapped in, and the most of either token a deposit takes
HostFee == 1        \* what a referrer gets of it
LpAmount == 1       \* minted by a deposit, burned by a withdrawal, locked by a lock

-----------------------------------------------------------------------------
(* Instructions and the transactions the builders make of them *)

\* An instruction of the program: the roles the IDL asks for, bound to the caller's own
\* accounts where the builder names them and to the pool's otherwise.
Bind(op, own, n, remaining) ==
    LET ix == Idl!Bound(op, own)
    IN  [op |-> op, acc |-> ix.acc, n |-> n, remaining |-> remaining,
         writable |-> ix.writable \cup remaining, signers |-> ix.signers]

Native(op, acc, n, signer) ==
    [op |-> op, acc |-> acc, n |-> n, remaining |-> {},
     writable |-> {acc.payer, acc.ata}, signers |-> {signer}]

\* getOrCreateATAInstruction: a create that fails if the account exists by then.
CreateAta(payer, a) == Native("createAta", [payer |-> payer, ata |-> a], 0, payer)
IfMissing(seen, payer, a) == IF a \in seen THEN <<>> ELSE <<CreateAta(payer, a)>>

WrapSol(w, n) == <<Native("wrap", [payer |-> w, ata |-> Ata(w, "SOL")], n, w)>>

\* unwrapSOLInstruction closes the whole account, whatever was in it before.
UnwrapSol(w) == <<Native("closeAta", [payer |-> w, ata |-> Ata(w, "SOL")], 0, w)>>

Other(m) == IF m = "A" THEN "SOL" ELSE "A"

\* AmmImpl.swap; c.sides is the token that goes in.
SwapTx(w, c, seen) ==
    IfMissing(seen, w, Ata(w, c.sides)) \o IfMissing(seen, w, Ata(w, Other(c.sides)))
    \o (IF c.sides = "SOL" THEN WrapSol(w, AmountIn) ELSE <<>>)
    \o (IF c.who = NoCall THEN <<>> ELSE IfMissing(seen, w, Ata(c.who, c.sides)))
    \o <<Bind("swap",
              [userSourceToken |-> Ata(w, c.sides), userDestinationToken |-> Ata(w, Other(c.sides)),
               protocolTokenFee |-> <<"protocolTokenFee", c.sides>>, user |-> w],
              AmountIn, IF c.who = NoCall THEN {} ELSE {Ata(c.who, c.sides)})>>
    \o (IF c.sides = "A" THEN UnwrapSol(w) ELSE <<>>)

UserRoles(w) == [userAToken |-> Ata(w, "A"), userBToken |-> Ata(w, "SOL"),
                 userPoolLp |-> Ata(w, "LP"), user |-> w]
CreateMissing(seen, w) ==
    IfMissing(seen, w, Ata(w, "A")) \o IfMissing(seen, w, Ata(w, "SOL"))
    \o IfMissing(seen, w, Ata(w, "LP"))

AskedIn(c, m) == IF c.sides \in {"both", m} THEN AmountIn ELSE 0

\* Mutant: the method is chosen by the kind of the pool alone.
DepositMethodByKind(empty) ==
    IF stable THEN "addImbalanceLiquidity" ELSE "addBalanceLiquidity"

\* Which program method deposit calls depends on the poolState the object holds.
DepositMethod(empty) ==
    CASE empty -> "bootstrapLiquidity"
      [] ~empty /\ stable -> "addImbalanceLiquidity"
      [] ~empty /\ ~stable -> "addBalanceLiquidity"

\* Mutant: the wrapped SOL that the deposit did not take is left wrapped.
DepositPostNone(w) == <<>>

\* The postInstructions of deposit.
DepositPost(w) == UnwrapSol(w)

\* AmmImpl.deposit
DepositTx(w, c, seen, empty) ==
    CreateMissing(seen, w) \o WrapSol(w, AskedIn(c, "SOL"))
    \o <<Bind(DepositMethod(empty), UserRoles(w),
              [A |-> AskedIn(c, "A"), SOL |-> AskedIn(c, "SOL")], {})>>
    \o DepositPost(w)

\* Mutant: the account of the side that was not asked for.
OtherDestination(w, c) == Ata(w, Other(c.sides))

\* userDestinationToken of a withdrawal of one side.
SingleSideDestination(w, c) == Ata(w, c.sides)

\* AmmImpl.withdraw
WithdrawTx(w, c, seen) ==
    CreateMissing(seen, w)
    \o (IF stable /\ c.sides # "both"
        THEN <<Bind("removeLiquiditySingleSide",
                    [userDestinationToken |-> SingleSideDestination(w, c),
                     userPoolLp |-> Ata(w, "LP"), user |-> w], LpAmount, {})>>
        ELSE <<Bind("removeBalanceLiquidity", UserRoles(w), LpAmount, {})>>)
    \o UnwrapSol(w)

\* Mutant: the owner of the escrow.
EscrowOwner(w, c) == c.who

\* Whose tokens lock takes, and who signs for them: the payer.
TokensOwner(w, c) == w

\* AmmImpl.lockLiquidity; w is feePayer || owner, c.who the owner of the escrow.
LockLiquidityTx(w, c, seen) ==
    LET escrow == EscrowOf(c.who)
        vault == Ata(escrow, "LP")
    IN  (IF escrow \in seen THEN <<>>
         ELSE <<Bind("createLockEscrow", [lockEscrow |-> escrow, owner |-> c.who, payer |-> w],
                     0, {})>>)
        \o IfMissing(seen, w, Ata(w, "LP")) \o IfMissing(seen, w, vault)
        \o <<Bind("lock", [lockEscrow |-> escrow, owner |-> TokensOwner(w, c),
                           sourceTokens |-> Ata(w, "LP"), escrowVault |-> vault], LpAmount, {})>>

\* AmmImpl.claimLockFee: the escrow itself would pay for its token account.
ClaimLockFeeTx(w, seen) ==
    LET escrow == EscrowOf(w)
        vault == Ata(escrow, "LP")
    IN  IfMissing(seen, w, Ata(w, "LP")) \o IfMissing(seen, escrow, vault)
        \o IfMissing(seen, w, Ata(w, "A")) \o IfMissing(seen, w, Ata(w, "SOL"))
        \o <<Bind("claimFee", [lockEscrow |-> escrow, owner |-> w, sourceTokens |-> Ata(w, "LP"),
                               escrowVault |-> vault, userAToken |-> Ata(w, "A"),
                               userBToken |-> Ata(w, "SOL")], LpAmount, {})>>
        \o UnwrapSol(w)

\* AmmImpl.createConfig: the first index that no config has.
FirstFree(seen) ==
    CHOOSE i \in 0..MaxConfigs :
        ConfigAt(i) \notin seen /\ \A j \in 0..(i - 1) : ConfigAt(j) \in seen
CreateConfigTx(w, seen) ==
    <<Bind("createConfig", [config |-> ConfigAt(FirstFree(seen)), admin |-> w], 0, {})>>

-----------------------------------------------------------------------------
(* The chain: one instruction after the other on a ledger, all or nothing *)

LpAccounts == {a \in TokenAccounts : a[3] = "LP"}
Supply(L) == FoldFunctionOnSet(+, 0, L.holds, LpAccounts)

\* Amounts of one account, and of two.
Of(a, n) == [x \in {a} |-> n]
OfBoth(a, n, b, m) == [x \in {a, b} |-> IF x = a THEN n ELSE m]

\* What an instruction takes from token accounts and gives to them (external, except that
\* the roles say which account is which).
Takes(ix, fee) ==
    CASE ix.op = "swap" -> Of(ix.acc.userSourceToken, ix.n)
      [] ix.op \in {"bootstrapLiquidity", "addImbalanceLiquidity"} ->
            OfBoth(ix.acc.userAToken, ix.n.A, ix.acc.userBToken, ix.n.SOL)
      [] ix.op = "addBalanceLiquidity" -> OfBoth(ix.acc.userAToken, 1, ix.acc.userBToken, 1)
      [] ix.op \in {"removeBalanceLiquidity", "removeLiquiditySingleSide"} ->
            Of(ix.acc.userPoolLp, ix.n)
      [] ix.op = "lock" -> Of(ix.acc.sourceTokens, ix.n)
      [] ix.op = "claimFee" -> Of(ix.acc.escrowVault, fee)
      [] OTHER -> <<>>

Gives(ix, fee) ==
    CASE ix.op = "swap" ->
            [a \in {ix.acc.userDestinationToken} \cup ix.remaining |->
                IF a = ix.acc.userDestinationToken THEN AmountIn - HostFee ELSE HostFee]
      [] ix.op \in {"bootstrapLiquidity", "addImbalanceLiquidity", "addBalanceLiquidity"} ->
            Of(ix.acc.userPoolLp, LpAmount)
      [] ix.op = "removeBalanceLiquidity" -> OfBoth(ix.acc.userAToken, 1, ix.acc.userBToken, 1)
      [] ix.op = "removeLiquiditySingleSide" -> Of(ix.acc.userDestinationToken, 2)
      [] ix.op = "lock" -> Of(ix.acc.escrowVault, ix.n)
      [] ix.op = "claimFee" -> OfBoth(ix.acc.userAToken, fee, ix.acc.userBToken, fee)
      [] OTHER -> <<>>

Opens(ix) ==
    CASE ix.op = "createAta" -> {ix.acc.ata}
      [] ix.op = "createLockEscrow" -> {ix.acc.lockEscrow}
      [] ix.op = "createConfig" -> {ix.acc.config}
      [] OTHER -> {}
Closes(ix) == IF ix.op = "closeAta" THEN {ix.acc.ata} ELSE {}

MovesLiquidity(ix) == "aVaultLp" \in DOMAIN ix.acc /\ ix.op # "lock"

\* The accounts an instruction changes, those of the pool included.
Changed(ix, fee) ==
    Opens(ix) \cup Closes(ix) \cup DOMAIN Takes(ix, fee) \cup DOMAIN Gives(ix, fee)
    \cup (IF ix.op = "wrap" THEN {ix.acc.ata, ix.acc.payer} ELSE {})
    \cup (IF ix.op \in {"lock", "claimFee"} THEN {ix.acc.lockEscrow} ELSE {})
    \cup (IF MovesLiquidity(ix)
          THEN {<<r>> : r \in (Idl!VaultRoles \cup {"lpMint"}) \cap DOMAIN ix.acc} ELSE {})

\* The checks of the program on its accounts: the mints, and the escrow they belong to.
RightAccounts(ix) ==
    /\ "userAToken" \in DOMAIN ix.acc => ix.acc.userAToken[3] = "A"
    /\ "userBToken" \in DOMAIN ix.acc => ix.acc.userBToken[3] = "SOL"
    /\ "userPoolLp" \in DOMAIN ix.acc => ix.acc.userPoolLp[3] = "LP"
    /\ ix.op = "swap" =>
          /\ ix.acc.userDestinationToken[3] = Other(ix.acc.userSourceToken[3])
          /\ ix.acc.protocolTokenFee[2] = ix.acc.userSourceToken[3]
    /\ ix.op \in {"lock", "claimFee"} => ix.acc.escrowVault = Ata(ix.acc.lockEscrow, "LP")
    /\ ix.op = "claimFee" => ix.acc.lockEscrow = EscrowOf(ix.acc.owner)
    /\ ix.op = "createLockEscrow" => ix.acc.lockEscrow = EscrowOf(ix.acc.owner)

\* Who may take tokens from an account: its owner, by signing; the program signs for an escrow.
MayTake(ix, a) == a[2] \in ix.signers \/ ix.op = "claimFee"

\* Mutant: an account may be overdrawn.
CoversAnything(L, ix, fee) == TRUE

Covers(L, ix, fee) == \A a \in DOMAIN Takes(ix, fee) : L.holds[a] >= Takes(ix, fee)[a]

Allowed(L, ix, fee) ==
    /\ Opens(ix) \cap L.open = {}
    /\ Closes(ix) \subseteq L.open
    /\ DOMAIN Takes(ix, fee) \cup DOMAIN Gives(ix, fee) \subseteq L.open
    /\ Covers(L, ix, fee)
    /\ \A a \in DOMAIN Takes(ix, fee) : MayTake(ix, a)
    /\ ix.op = "wrap" => ix.acc.ata \in L.open /\ L.lamports[ix.acc.payer] >= ix.n
    /\ ix.op \in {"lock", "claimFee"} => {ix.acc.lockEscrow, ix.acc.sourceTokens} \subseteq L.open
    /\ ix.op = "bootstrapLiquidity" => Supply(L) = 0
    /\ ix.op \in {"addBalanceLiquidity", "addImbalanceLiquidity"} => Supply(L) > 0
    /\ RightAccounts(ix)

Delta(f, a) == IF a \in DOMAIN f THEN f[a] ELSE 0

After(L, ix, fee) ==
    LET wraps == [w \in Wallets |-> IF ix.op = "wrap" /\ ix.acc.payer = w THEN ix.n ELSE 0]
        unwraps == [w \in Wallets |->
                      IF ix.op = "closeAta" /\ ix.acc.payer = w THEN L.holds[ix.acc.ata] ELSE 0]
    IN  [open |-> (L.open \cup Opens(ix)) \ Closes(ix),
         holds |-> [a \in TokenAccounts |->
                      IF a \in Closes(ix) THEN 0
                      ELSE L.holds[a] - Delta(Takes(ix, fee), a) + Delta(Gives(ix, fee), a)
                           + (IF ix.op = "wrap" /\ a = ix.acc.ata THEN ix.n ELSE 0)],
         lamports |-> [w \in Wallets |-> L.lamports[w] - wraps[w] + unwraps[w]],
         locked |-> [w \in Wallets |->
                       L.locked[w] + (IF ix.op = "lock" /\ ix.acc.lockEscrow = EscrowOf(w)
                                      THEN ix.n ELSE 0)]]

\* The runtime's checks before anything is executed: one wallet signs, and an account that
\* no instruction declares writable is not written.
Accepted(t, fee) ==
    /\ UNION {ix.signers : ix \in Range(t.ixs)} \subseteq {t.payer}
    /\ UNION {Changed(ix, fee) : ix \in Range(t.ixs)}
          \subseteq (UNION {ix.writable : ix \in Range(t.ixs)}) \cup {t.payer}

\* Executed(L, t, fee)[k]: the ledger after the first k instructions, and whether they ran.
Executed(L, t, fee) ==
    LET run[k \in 0..Len(t.ixs)] ==
          IF k = 0 THEN [ok |-> Accepted(t, fee), ledger |-> L]
          ELSE LET before == run[k - 1]
               IN  IF before.ok /\ Allowed(before.ledger, t.ixs[k], fee)
                   THEN [ok |-> TRUE, ledger |-> After(before.ledger, t.ixs[k], fee)]
                   ELSE [ok |-> FALSE, ledger |-> L]
    IN  run[Len(t.ixs)]

Lands(t, fee) == Executed(ledger, t, fee).ok

\* The fee a claim finds: at most what is in the escrow's vault.
Fees(t) == IF t.call.op = "claimLockFee"
           THEN 0..(IF ledger.holds[Ata(EscrowOf(t.payer), "LP")] > 0 THEN LpAmount ELSE 0)
           ELSE {0}

-----------------------------------------------------------------------------
(* The callers *)

Init ==
    /\ stable \in PoolKinds
    /\ wrapped0 \in [Wallets -> StartWrapped]
    /\ \E lp \in {0, LpAmount} :
          ledger = [open |-> {Ata(w, "A") : w \in Wallets}
                             \cup {Ata(w, "SOL") : w \in {v \in Wallets : wrapped0[v] > 0}}
                             \cup {Ata(w, "LP") : w \in {v \in Wallets : lp > 0}},
                    holds |-> [a \in TokenAccounts |->
                                 IF a[2] \notin Wallets THEN 0
                                 ELSE CASE a[3] = "A" -> AmountIn
                                        [] a[3] = "SOL" -> wrapped0[a[2]]
                                        [] a[3] = "LP" -> lp],
                    lamports |-> [w \in Wallets |-> AmountIn],
                    locked |-> [w \in Wallets |-> 0]]
    /\ emptySeen = [w \in Wallets |-> Supply(ledger) = 0]
    /\ pending = {}
    /\ net = {}
    /\ calls = 0
    /\ hostFees = [w \in Wallets |-> 0]

\* The caller owns what the call spends, at the time of the call.
Affords(w, c) ==
    CASE c.op = "swap" -> IF c.sides = "SOL" THEN ledger.lamports[w] >= AmountIn
                          ELSE ledger.holds[Ata(w, "A")] >= AmountIn
      [] c.op = "deposit" -> /\ ledger.holds[Ata(w, "A")] >= AskedIn(c, "A")
                             /\ ledger.lamports[w] >= AskedIn(c, "SOL")
      [] c.op \in {"withdraw", "lockLiquidity"} -> ledger.holds[Ata(w, "LP")] >= LpAmount
      [] c.op = "claimLockFee" -> EscrowOf(w) \in ledger.open
      [] c.op = "createConfig" -> ~ Configs \subseteq ledger.open

\* What the quotes demand of the arguments: only a stable pool takes or gives one side,
\* and a pool without LP tokens takes both.
Sensible(w, c) ==
    /\ c.op \in {"deposit", "withdraw"} /\ c.sides # "both" => stable
    /\ c.op = "deposit" /\ emptySeen[w] => c.sides = "both"
    /\ c.op = "swap" => c.who # w

FirstReads(w, c) ==
    CASE c.op = "swap" -> {Ata(w, "A"), Ata(w, "SOL")}
      [] c.op \in {"deposit", "withdraw"} -> {Ata(w, "A"), Ata(w, "SOL"), Ata(w, "LP")}
      [] c.op = "lockLiquidity" -> {EscrowOf(c.who)}
      [] c.op = "claimLockFee" -> {Ata(w, "A"), Ata(w, "SOL"), Ata(w, "LP"),
                                   Ata(EscrowOf(w), "LP")}
      [] c.op = "createConfig" -> Configs

SecondReads(w, c) ==
    CASE c.op = "swap" /\ c.who # NoCall -> {Ata(c.who, c.sides)}
      [] c.op = "lockLiquidity" -> {Ata(w, "LP"), Ata(EscrowOf(c.who), "LP")}
      [] OTHER -> {}

Reads(w, c) == FirstReads(w, c) \cup SecondReads(w, c)

\* A caller calls a builder, which reads the accounts of its first round.
Begin(w, c) ==
    /\ \A p \in pending : p.payer # w
    /\ calls < MaxCalls
    /\ Cardinality(pending) + Cardinality(net) < MaxInFlight
    /\ Affords(w, c) /\ Sensible(w, c)
    /\ pending' = pending \cup {[payer |-> w, call |-> c, empty |-> emptySeen[w],
                                 seen |-> FirstReads(w, c) \cap ledger.open]}
    /\ calls' = calls + 1
    /\ UNCHANGED <<stable, ledger, emptySeen, net, wrapped0, hostFees>>

Built(w, c, seen, empty) ==
    CASE c.op = "swap" -> SwapTx(w, c, seen)
      [] c.op = "deposit" -> DepositTx(w, c, seen, empty)
      [] c.op = "withdraw" -> WithdrawTx(w, c, seen)
      [] c.op = "lockLiquidity" -> LockLiquidityTx(w, c, seen)
      [] c.op = "claimLockFee" -> ClaimLockFeeTx(w, seen)
      [] c.op = "createConfig" -> CreateConfigTx(w, seen)

\* The builder reads the accounts of its second round and returns the transaction, which
\* its caller signs and sends; net tells equal transactions apart by their blockhash.
Send(p) ==
    LET seen == p.seen \cup (SecondReads(p.payer, p.call) \cap ledger.open)
    IN  /\ net' = net \cup {[call |-> p.call, payer |-> p.payer, seen |-> seen,
                             empty |-> p.empty, blockhash |-> calls,
                             ixs |-> Built(p.payer, p.call, seen, p.empty)]}
        /\ pending' = pending \ {p}
        /\ UNCHANGED <<stable, ledger, emptySeen, calls, wrapped0, hostFees>>

\* AmmImpl.updateState, as far as the builders look at what it refreshes.
UpdateState(w) ==
    /\ emptySeen' = [emptySeen EXCEPT ![w] = (Supply(ledger) = 0)]
    /\ UNCHANGED <<stable, ledger, pending, net, calls, wrapped0, hostFees>>

Land(t, fee) ==
    /\ LET run == Executed(ledger, t, fee) IN run.ok /\ ledger' = run.ledger
    /\ net' = net \ {t}
    /\ hostFees' = [w \in Wallets |->
                      hostFees[w] + (IF t.call.op = "swap" /\ t.call.who = w
                                        /\ t.call.sides = "SOL" THEN HostFee ELSE 0)]
    /\ UNCHANGED <<stable, emptySeen, pending, calls, wrapped0>>

\* A transaction that would fail is refused or lands without effect; any may expire.
Drop(t) ==
    /\ net' = net \ {t}
    /\ UNCHANGED <<stable, ledger, emptySeen, pending, calls, wrapped0, hostFees>>

\* closeConfig is an instruction of the program that no function of the client builds.
CloseConfigs(i) ==
    /\ ConfigAt(i) \in ledger.open
    /\ ledger' = [ledger EXCEPT !.open = @ \ {ConfigAt(i)}]
    /\ UNCHANGED <<stable, emptySeen, pending, net, calls, wrapped0, hostFees>>

Next ==
    \/ \E w \in Wallets, c \in Calls : Begin(w, c)
    \/ \E p \in pending : Send(p)
    \/ \E w \in Wallets : UpdateState(w)
    \/ \E t \in net : \E fee \in Fees(t) : Land(t, fee)
    \/ \E t \in net : Drop(t)
    \/ \E i \in 0..MaxConfigs : CloseConfigs(i)

Spec == Init /\ [][Next]_vars

-----------------------------------------------------------------------------
(* Properties *)

\* Balances stay natural and are only held by accounts that are open.
TypeOK ==
    /\ \A a \in TokenAccounts : ledger.holds[a] \in Nat /\ (ledger.holds[a] > 0 => a \in ledger.open)
    /\ \A w \in Wallets : ledger.lamports[w] \in Nat /\ ledger.locked[w] \in Nat

\* Nothing the transaction was built from has changed: the accounts the builder read, the
\* emptiness of the pool its object last saw, and what the payer has to spend.
Undisturbed(t) ==
    /\ \A a \in Reads(t.payer, t.call) : a \in t.seen <=> a \in ledger.open
    /\ t.call.op = "deposit" => (t.empty <=> Supply(ledger) = 0)
    /\ Affords(t.payer, t.call)

\* A transaction that a builder of AmmImpl returned runs as long as nothing that it was
\* built from has changed: each builder reads every account its instructions rely on,
\* creates those that are missing in an order that works, and asks for the right roles.
UndisturbedTxLands ==
    \A t \in net : Undisturbed(t) => \A fee \in Fees(t) : Lands(t, fee)

\* No builder asks for a signature the caller cannot give: the fee payer's is the only one
\* (claimLockFee would have the escrow pay for its own token account, if that were missing).
OnlyPayerSigns ==
    \A t \in net : UNION {ix.signers : ix \in Range(t.ixs)} = {t.payer}

\* Wrapping leaves no residue: the wrapped SOL of a user never exceeds what there was at
\* first and what referrals brought, whatever transactions fail or overlap.
NoResidue ==
    \A w \in Wallets : ledger.holds[Ata(w, "SOL")] <= wrapped0[w] + hostFees[w]

\* The holdings of a wallet, SOL in both its forms, and what its escrow records.
Holdings(L, w) ==
    [A |-> L.holds[Ata(w, "A")], SOL |-> L.holds[Ata(w, "SOL")] + L.lamports[w],
     LP |-> L.holds[Ata(w, "LP")], locked |-> L.locked[w]]

\* What a call may change in them: bounds <<least, most>> per kind of holding.
Asked(t, w) ==
    LET c == t.call
        mine == w = t.payer
        same == [k \in {"A", "SOL", "LP", "locked"} |-> <<0, 0>>]
        gained(m) == IF c.sides \in {"both", m} THEN <<1, 2>> ELSE <<0, 0>>
    IN  CASE c.op = "swap" /\ mine ->
               [same EXCEPT ![c.sides] = <<-AmountIn, -AmountIn>>,
                            ![Other(c.sides)] = <<AmountIn - HostFee, AmountIn - HostFee>>]
          [] c.op = "swap" /\ ~mine /\ c.who = w -> [same EXCEPT ![c.sides] = <<HostFee, HostFee>>]
          [] c.op = "deposit" /\ mine ->
               [same EXCEPT !["A"] = <<-AskedIn(c, "A"), 0>>, !["SOL"] = <<-AskedIn(c, "SOL"), 0>>,
                            !["LP"] = <<LpAmount, LpAmount>>]
          [] c.op = "withdraw" /\ mine ->
               [same EXCEPT !["A"] = gained("A"), !["SOL"] = gained("SOL"),
                            !["LP"] = <<-LpAmount, -LpAmount>>]
          [] c.op = "lockLiquidity" ->
               [same EXCEPT !["LP"] = IF mine THEN <<-LpAmount, -LpAmount>> ELSE <<0, 0>>,
                            !["locked"] = IF c.who = w THEN <<LpAmount, LpAmount>> ELSE <<0, 0>>]
          [] c.op = "claimLockFee" /\ mine ->
               [same EXCEPT !["A"] = <<0, LpAmount>>, !["SOL"] = <<0, LpAmount>>]
          [] OTHER -> same

\* A transaction that lands does what was asked of its builder, to the one who asked and to
\* nobody else: a lock takes the payer's tokens and credits the owner's escrow, a withdrawal
\* pays the side asked for, no deposit takes more than its maxima.
DoesWhatWasAsked ==
    [][\A t \in net \ net', w \in Wallets :
          ledger' # ledger =>
            LET was == Holdings(ledger, w)
                is == Holdings(ledger', w)
            IN  \A k \in DOMAIN was :
                   is[k] - was[k] \in Asked(t, w)[k][1]..Asked(t, w)[k][2]]_vars
=============================================================================
