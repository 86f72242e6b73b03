----------------------------- MODULE PoolLaunch -----------------------------
(***************************************************************************)
(* Launching a pool from the TypeScript client: one of the three pool       *)
(* creation functions of AmmImpl (ts-client/src/amm/index.ts) reads which   *)
(* accounts exist, builds one to three transactions from what it read, and  *)
(* the caller signs, sends and confirms them one by one, as the scripts of  *)
(* ts-client/src/examples do.                                              *)
(*                                                                         *)
(* The chain runs a transaction whole or not at all, at any time after it   *)
(* was sent; a caller may stop between two steps and start again, with a    *)
(* transaction of its earlier attempt still on its way; several callers may *)
(* launch the same pool: its address depends on the mints and the config,   *)
(* or on the mints and the fee tier for createPermissionlessPool.           *)
(*                                                                         *)
(* Token B of the pool is native SOL, which has to be wrapped before it is  *)
(* deposited; the payers hold enough of token A.  Amounts are small units.  *)
(***************************************************************************)
EXTENDS Integers, Sequences, Functions

CONSTANTS
    Clients,        \* the payers
    Options,        \* the ways of launching a payer may choose
    Deposit,        \* tokenBAmount
    SwapIn,         \* opt.swapLiquidity.inAmount
    Balances,       \* wrapped SOL a payer with a token account may hold at first
    MaxAttempts     \* bound on the attempts of all payers together

Ix == INSTANCE LaunchInstructions WITH Payers <- Clients

Versions == {"config", "config2", "single"}
None == "none"

\* A payer is a wallet: neither the lack of one, nor an account of a pool or of a payer.
ASSUME LaunchAssumption ==
    /\ None \notin Clients /\ \A c, d \in Clients : c \notin Ix!NoWallets(d)
    /\ \A o \in Options :
          /\ o.version \in Versions /\ o.lock \in BOOLEAN /\ o.swap \in BOOLEAN
          /\ o.version = "single" => ~o.lock /\ ~o.swap
    /\ Deposit \in Nat \ {0} /\ SwapIn \in Nat \ {0}
    /\ Balances \subseteq Nat /\ MaxAttempts \in Nat

VARIABLES
    vaults,     \* the tokens that have a vault
    ata,        \* the payers that have a token account for token B
    wsol,       \* wsol[c]: the wrapped SOL in it
    pool,       \* pool[a]: the payer that created the pool at address a, None before
    lp,         \* where the creator's LP tokens of it are: "none", "held" or "locked"
    net,        \* transactions sent that have neither landed nor expired
    option,     \* option[c]: how c launches
    pc,         \* where the attempt of a payer stands
    attempts,   \* attempts[c]: how many attempts c has begun
    seen,       \* seen[c]: the vaults that existed when the attempt read them
    plan,       \* plan[c]: the transactions that are still to be sent
    before,     \* history: wsol[c] when the attempt began
    raced       \* history: another attempt's transaction has landed since

chainVars == <<vaults, ata, wsol, pool, lp>>
vars == <<chainVars, net, option, pc, attempts, seen, plan, before, raced>>

Sides == {"A", "B"}

\* The address of the pool that a payer launches.
Addresses == {"withConfig", "withFeeTier"}
PoolAddress(c) == IF option[c].version = "single" THEN "withFeeTier" ELSE "withConfig"
PoolCreator(c) == pool[PoolAddress(c)]

\* A transaction: what it creates, how much it wraps, and what it does with the pool.
Transaction(create, needsAta, wrap, creates, lock, swap) ==
    [vaults |-> create, ata |-> needsAta, wrap |-> wrap,
     pool |-> creates, lock |-> lock, swap |-> swap]

Missing(c) == Sides \ seen[c]
LacksAta(c) == c \notin ata

\* The main transaction: initialize the pool and, in the same transaction, create the
\* lock escrow and its token account and lock all the LP tokens.
CreatePool(lock) == Transaction({}, FALSE, 0, TRUE, lock, FALSE)

\* The swap of opt.swapLiquidity, B to A, a transaction of its own after the others.
SwapLeg(o) == IF o.swap THEN <<Transaction({}, FALSE, 0, FALSE, FALSE, TRUE)>> ELSE <<>>

\* Mutant: the lock goes with the swap transaction.
PlanConfigLockingLater(c) ==
    <<Transaction(Missing(c), LacksAta(c), Deposit + (IF option[c].swap THEN SwapIn ELSE 0),
                  FALSE, FALSE, FALSE),
      CreatePool(FALSE)>>
    \o <<Transaction({}, FALSE, 0, FALSE, option[c].lock, option[c].swap)>>

\* Mutant: the amount of a swap that was not asked for is wrapped too.
PlanConfigWrappingBoth(c) ==
    <<Transaction(Missing(c), LacksAta(c), Deposit + SwapIn, FALSE, FALSE, FALSE),
      CreatePool(option[c].lock)>>
    \o SwapLeg(option[c])

\* Mutant: the amount of the swap is not wrapped.
PlanConfigSwapUnwrapped(c) ==
    <<Transaction(Missing(c), LacksAta(c), Deposit, FALSE, FALSE, FALSE),
      CreatePool(option[c].lock)>>
    \o SwapLeg(option[c])

\* createPermissionlessConstantProductPoolWithConfig: the vaults, the token account and
\* the wrapping of both amounts come first, in a transaction of their own.
PlanConfig(c) ==
    <<Transaction(Missing(c), LacksAta(c), Deposit + (IF option[c].swap THEN SwapIn ELSE 0),
                  FALSE, FALSE, FALSE),
      CreatePool(option[c].lock)>>
    \o SwapLeg(option[c])

\* createPermissionlessConstantProductPoolWithConfig2: the swap's amount is not wrapped.
PlanConfig2(c) ==
    <<Transaction(Missing(c), LacksAta(c), Deposit, FALSE, FALSE, FALSE),
      CreatePool(option[c].lock)>>
    \o SwapLeg(option[c])

\* Mutant: what comes before the pool is sent in a transaction of its own.
PlanSingleInTwo(c) ==
    <<Transaction(Missing(c), LacksAta(c), Deposit, FALSE, FALSE, FALSE), CreatePool(FALSE)>>

\* createPermissionlessPool: everything in one transaction.
PlanSingle(c) == <<Transaction(Missing(c), LacksAta(c), Deposit, TRUE, FALSE, FALSE)>>

Plan(c) ==
    CASE option[c].version = "config" -> PlanConfig(c)
      [] option[c].version = "config2" -> PlanConfig2(c)
      [] option[c].version = "single" -> PlanSingle(c)

\* The instructions of a transaction, in the order in which they are added to it.
Initialize(c) ==
    CASE option[c].version = "config" -> Ix!InitializeConfig[c]
      [] option[c].version = "config2" -> Ix!InitializeConfig2[c]
      [] option[c].version = "single" -> Ix!InitializeFeeTier[c]
Instructions(c, t) ==
    (IF "A" \in t.vaults THEN <<Ix!CreateVault[c]["A"]>> ELSE <<>>)
    \o (IF "B" \in t.vaults THEN <<Ix!CreateVault[c]["B"]>> ELSE <<>>)
    \o (IF t.ata THEN <<Ix!CreatePayerAta[c]>> ELSE <<>>)
    \o (IF t.wrap > 0 THEN <<Ix!WrapSol[c]>> ELSE <<>>)
    \o (IF t.pool THEN <<Initialize(c)>> ELSE <<>>)
    \o (IF t.lock THEN Ix!LockInstructions[c] ELSE <<>>)
    \o (IF t.swap THEN <<Ix!SwapInstruction[c]>> ELSE <<>>)

-----------------------------------------------------------------------------
(* The chain *)

\* The accounts that a transaction of c can find.
Open(c) ==
    LET creator == PoolCreator(c) IN
    Ix!AlwaysOpen[c]
    \cup (UNION {Ix!VaultAccounts[x] : x \in vaults})
    \cup (IF c \in ata THEN {Ix!Ata(c, "B")} ELSE {})
    \cup (IF creator = None THEN {} ELSE Ix!PoolAccounts[creator])
    \cup (IF lp[PoolAddress(c)] = "locked" THEN Ix!EscrowAccounts[creator] ELSE {})

\* A transaction fails if its accounts are not as its instructions need them, or if the
\* payer's token account for B holds less than they take; the LP tokens are locked once.
CanRun(c, t) ==
    /\ Ix!Accepted(c, Open(c), Instructions(c, t))
    /\ t.pool => wsol[c] + t.wrap >= Deposit
    /\ t.swap => wsol[c] >= SwapIn

\* All the effects of a transaction that can run.
Run(c, t) ==
    /\ vaults' = vaults \cup t.vaults
    /\ ata' = IF t.ata THEN ata \cup {c} ELSE ata
    /\ wsol' = [wsol EXCEPT ![c] = @ + t.wrap - (IF t.pool THEN Deposit ELSE 0)
                                     - (IF t.swap THEN SwapIn ELSE 0)]
    /\ pool' = [pool EXCEPT ![PoolAddress(c)] = IF t.pool THEN c ELSE @]
    /\ lp' = [lp EXCEPT ![PoolAddress(c)] =
                 IF t.lock THEN "locked" ELSE IF t.pool THEN "held" ELSE @]

-----------------------------------------------------------------------------

Init ==
    /\ vaults \in SUBSET Sides
    /\ ata \in SUBSET Clients
    /\ wsol \in [Clients -> Balances \cup {0}]
    /\ \A c \in Clients : IF c \in ata THEN wsol[c] \in Balances ELSE wsol[c] = 0
    /\ pool = [a \in Addresses |-> None] /\ lp = [a \in Addresses |-> "none"]
    /\ net = {}
    /\ option \in [Clients -> Options]
    /\ pc = [c \in Clients |-> "idle"]
    /\ attempts = [c \in Clients |-> 0]
    /\ seen = [c \in Clients |-> {}]
    /\ plan = [c \in Clients |-> <<>>]
    /\ before = wsol
    /\ raced = [c \in Clients |-> FALSE]

\* The creation function is called, and its first await is answered: the vaults.
ReadVaults(c) ==
    /\ pc[c] = "idle" /\ FoldFunction(+, 0, attempts) < MaxAttempts
    /\ pc' = [pc EXCEPT ![c] = "reading"]
    /\ attempts' = [attempts EXCEPT ![c] = @ + 1]
    /\ seen' = [seen EXCEPT ![c] = vaults]
    /\ before' = [before EXCEPT ![c] = wsol[c]]
    /\ raced' = [raced EXCEPT ![c] = FALSE]
    /\ UNCHANGED <<chainVars, net, option, plan>>

\* getOrCreateATAInstruction is answered, and the transactions are built and returned.
ReadAccounts(c) ==
    /\ pc[c] = "reading"
    /\ pc' = [pc EXCEPT ![c] = "sending"]
    /\ plan' = [plan EXCEPT ![c] = Plan(c)]
    /\ seen' = [seen EXCEPT ![c] = {}]
    /\ UNCHANGED <<chainVars, net, option, attempts, before, raced>>

\* sendRawTransaction passes the node's simulation of the transaction.
Send(c) ==
    /\ pc[c] = "sending" /\ CanRun(c, Head(plan[c]))
    /\ net' = net \cup {[client |-> c, attempt |-> attempts[c], tx |-> Head(plan[c])]}
    /\ plan' = [plan EXCEPT ![c] = Tail(@)]
    /\ pc' = [pc EXCEPT ![c] = "confirming"]
    /\ UNCHANGED <<chainVars, option, attempts, seen, before, raced>>

\* The simulation fails: sendRawTransaction throws and the attempt is over.
Refused(c) ==
    /\ pc[c] = "sending" /\ ~CanRun(c, Head(plan[c]))
    /\ plan' = [plan EXCEPT ![c] = <<>>]
    /\ pc' = [pc EXCEPT ![c] = "idle"]
    /\ UNCHANGED <<chainVars, net, option, attempts, seen, before, raced>>

Awaits(c, m) == m.client = c /\ m.attempt = attempts[c] /\ pc[c] = "confirming"

\* Mutant: the loop does not notice that it has sent the last transaction.
ConfirmedPastTheEnd(m) ==
    pc' = [c \in Clients |-> IF Awaits(c, m) THEN "sending" ELSE pc[c]]

\* confirmTransaction resolves, whether the transaction succeeded or not, and the loop
\* goes on.
Confirmed(m) ==
    pc' = [c \in Clients |->
              IF ~Awaits(c, m) THEN pc[c]
              ELSE IF plan[c] = <<>> THEN "done" ELSE "sending"]

\* A transaction lands.
Landed(m) ==
    /\ CanRun(m.client, m.tx)
    /\ Run(m.client, m.tx)
    /\ net' = net \ {m}
    /\ Confirmed(m)
    /\ raced' = [c \in Clients |-> raced[c] \/ ~Awaits(c, m)]
    /\ UNCHANGED <<option, attempts, seen, plan, before>>

\* A transaction fails on chain.
Failed(m) ==
    /\ ~CanRun(m.client, m.tx)
    /\ net' = net \ {m}
    /\ Confirmed(m)
    /\ UNCHANGED <<chainVars, option, attempts, seen, plan, before, raced>>

\* The transaction's blockhash expires: confirmTransaction throws.
Expired(m) ==
    /\ net' = net \ {m}
    /\ pc' = [c \in Clients |-> IF Awaits(c, m) THEN "idle" ELSE pc[c]]
    /\ plan' = [c \in Clients |-> IF Awaits(c, m) THEN <<>> ELSE plan[c]]
    /\ UNCHANGED <<chainVars, option, attempts, seen, before, raced>>

\* The caller stops; what it has sent may still land.
Crash(c) ==
    /\ pc[c] \in {"reading", "sending", "confirming"}
    /\ pc' = [pc EXCEPT ![c] = "idle"]
    /\ plan' = [plan EXCEPT ![c] = <<>>]
    /\ seen' = [seen EXCEPT ![c] = {}]
    /\ UNCHANGED <<chainVars, net, option, attempts, before, raced>>

Next ==
    \/ \E c \in Clients :
          ReadVaults(c) \/ ReadAccounts(c) \/ Send(c) \/ Refused(c) \/ Crash(c)
    \/ \E m \in net : Landed(m) \/ Failed(m) \/ Expired(m)

Spec == Init /\ [][Next]_vars

-----------------------------------------------------------------------------
(* Properties *)

\* Every variable holds a value of its kind; the pool has LP tokens as soon as it exists.
TypeOK ==
    /\ vaults \subseteq Sides /\ ata \subseteq Clients
    /\ \A c \in Clients :
          /\ wsol[c] \in Nat /\ (c \notin ata => wsol[c] = 0)
          /\ pc[c] \in {"idle", "reading", "sending", "confirming", "done"}
          /\ pc[c] = "sending" => plan[c] # <<>>
    /\ \A a \in Addresses : pool[a] \in Clients \cup {None} /\ (pool[a] = None <=> lp[a] = "none")
    /\ \A m \in net : m.attempt \in 1 .. attempts[m.client]

\* WithConfig2 leaves wrapping the swap's amount to the caller.
SwapIsFunded(c) == option[c].version = "config2" => ~option[c].swap

\* The transactions of an attempt fit together and fit what was read: unless another
\* attempt's transaction landed since the attempt began, or the pool existed already, the
\* next one passes the simulation, and the one on its way succeeds.
UndisturbedAttemptRuns ==
    \A c \in Clients :
        ~raced[c] /\ SwapIsFunded(c) /\ PoolCreator(c) \in {None, c} =>
            /\ pc[c] = "sending" /\ ~(PoolCreator(c) = c /\ Head(plan[c]).pool)
                  => CanRun(c, Head(plan[c]))
            /\ \A m \in net :
                  Awaits(c, m) /\ ~(PoolCreator(c) = c /\ m.tx.pool) => CanRun(c, m.tx)

\* An attempt that ends undisturbed has created the pool, has spent exactly what it
\* wrapped, and has locked the LP tokens if that was asked for.
UndisturbedAttemptIsExact ==
    \A c \in Clients :
        pc[c] = "done" /\ ~raced[c] /\ SwapIsFunded(c) =>
            /\ PoolCreator(c) = c
            /\ wsol[c] = before[c]
            /\ lp[PoolAddress(c)] = IF option[c].lock THEN "locked" ELSE "held"

\* A pool launched with lockLiquidity is locked from its first moment, whatever crashes:
\* no state in between lets the LP tokens go.
LockedFromBirth ==
    \A a \in Addresses : pool[a] # None /\ option[pool[a]].lock => lp[a] = "locked"

\* createPermissionlessPool wraps and deposits in one transaction: however often it is
\* tried and stopped, no wrapped SOL is left over.
SingleLeavesNothing == \A c \in Clients : option[c].version = "single" => wsol'[c] = wsol[c]
SingleLaunchLeavesNothing == [][SingleLeavesNothing]_vars

=============================================================================
