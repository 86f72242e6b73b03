------------------------- MODULE PoolLaunch_proofs -------------------------
(***************************************************************************)
(* Proofs about launching a pool, for any number of payers, attempts,      *)
(* amounts and transactions on their way: wrapped SOL never goes below     *)
(* zero, a pool that is to be locked is never seen unlocked, a launch in one *)
(* transaction leaves no wrapped SOL behind, and an attempt that nobody     *)
(* disturbs succeeds step by step and ends with exactly what was asked.    *)
(***************************************************************************)
EXTENDS PoolLaunch, SequenceTheorems, TLAPS

Transactions == [vaults : SUBSET Sides, ata : BOOLEAN, wrap : Nat,
                 pool : BOOLEAN, lock : BOOLEAN, swap : BOOLEAN]

\* The transactions that fit how c launches: the lock goes with the pool, the swap goes
\* without it, and createPermissionlessPool wraps what it deposits at once.
Fitting(c) ==
    {t \in Transactions :
        /\ t.pool => t.lock = option[c].lock
        /\ t.lock => t.pool
        /\ ~(t.pool /\ t.swap)
        /\ option[c].version = "single" => t.pool /\ t.wrap = Deposit}

\* The inductive invariant: what is planned and what is on its way fits, and an attempt that
\* has something to send has been counted.
Phases == {"idle", "reading", "sending", "confirming", "done"}
LpStates == {"none", "held", "locked"}
Kinds ==
    /\ option \in [Clients -> Options] /\ wsol \in [Clients -> Nat]
    /\ pool \in [Addresses -> Clients \cup {None}] /\ lp \in [Addresses -> LpStates]
    /\ pc \in [Clients -> Phases] /\ attempts \in [Clients -> Nat]
    /\ seen \in [Clients -> SUBSET Sides]
    /\ plan \in [Clients -> Seq(Transactions)]
PlansFit ==
    \A c \in Clients :
        /\ plan[c] \in Seq(Fitting(c))
        /\ pc[c] \in {"reading", "sending"} => attempts[c] > 0
NetFits == \A m \in net : m.client \in Clients /\ m.tx \in Fitting(m.client)
LaunchInv == TypeOK /\ Kinds /\ PlansFit /\ NetFits /\ LockedFromBirth

(***************************************************************************)
(* Plans.                                                                  *)
(***************************************************************************)

\* Sequences of one, and of two and more.
LEMMA OneElement ==
    ASSUME NEW S, NEW t \in S
    PROVE  <<t>> \in Seq(S) /\ <<t>> # <<>>
OBVIOUS

LEMMA TwoAndMore ==
    ASSUME NEW S, NEW t \in S, NEW u \in S, NEW s \in Seq(S)
    PROVE  <<t, u>> \o s \in Seq(S) /\ <<t, u>> \o s # <<>>
<1>1. <<t, u>> \in Seq(S) /\ Len(<<t, u>>) = 2
  OBVIOUS
<1>2. <<t, u>> \o s \in Seq(S) /\ Len(<<t, u>> \o s) = 2 + Len(s)
  BY <1>1, ConcatProperties
<1>3. Len(<<t, u>> \o s) # 0
  BY <1>2
<1> QED
  BY <1>2, <1>3

\* Every attempt plans at least one transaction, and all of them fit.
LEMMA PlanFits ==
    ASSUME Kinds, NEW c \in Clients
    PROVE  Plan(c) \in Seq(Fitting(c)) /\ Plan(c) # <<>>
<1> DEFINE F == Fitting(c)
           o == option[c]
<1>1. /\ o \in Options /\ o.version \in Versions /\ o.lock \in BOOLEAN /\ o.swap \in BOOLEAN
      /\ o.version = "single" => ~o.lock /\ ~o.swap
      /\ Deposit \in Nat \ {0} /\ SwapIn \in Nat \ {0}
      /\ Missing(c) \in SUBSET Sides /\ LacksAta(c) \in BOOLEAN
  BY LaunchAssumption DEF Kinds, Missing, LacksAta
<1>2. ASSUME NEW n \in Nat, o.version # "single"
      PROVE  Transaction(Missing(c), LacksAta(c), n, FALSE, FALSE, FALSE) \in F
  BY <1>1, <1>2 DEF Fitting, Transactions, Transaction
<1>3. o.version # "single" => CreatePool(o.lock) \in F
  BY <1>1 DEF Fitting, Transactions, Transaction, CreatePool
<1>4. o.version # "single" => SwapLeg(o) \in Seq(F)
  <2>1. o.version # "single" => Transaction({}, FALSE, 0, FALSE, FALSE, TRUE) \in F
    BY <1>1 DEF Fitting, Transactions, Transaction
  <2> DEFINE t == Transaction({}, FALSE, 0, FALSE, FALSE, TRUE)
  <2>2. SwapLeg(o) = IF o.swap THEN <<t>> ELSE <<>>
    BY DEF SwapLeg
  <2> HIDE DEF F, o, t
  <2>3. <<>> \in Seq(F)
    BY EmptySeq
  <2>4. o.version # "single" => <<t>> \in Seq(F)
    BY <2>1, OneElement DEF t
  <2> QED
    BY <2>2, <2>3, <2>4
<1>5. o.version = "single" => Transaction(Missing(c), LacksAta(c), Deposit, TRUE, FALSE, FALSE) \in F
  BY <1>1 DEF Fitting, Transactions, Transaction
<1>6. Deposit + (IF o.swap THEN SwapIn ELSE 0) \in Nat /\ Deposit \in Nat
  BY <1>1
<1>7. CASE o.version = "config"
  <2>1. Plan(c) = PlanConfig(c)
    BY <1>7, Zenon DEF Plan
  <2> DEFINE t == Transaction(Missing(c), LacksAta(c), Deposit + (IF o.swap THEN SwapIn ELSE 0),
                              FALSE, FALSE, FALSE)
             u == CreatePool(o.lock)
             s == SwapLeg(o)
  <2>2. Plan(c) = <<t, u>> \o s
    BY <2>1 DEF PlanConfig
  <2>3. t \in F /\ u \in F /\ s \in Seq(F)
    BY <1>2, <1>3, <1>4, <1>6, <1>7
  <2> HIDE DEF F, t, u, s
  <2>4. Plan(c) \in Seq(F) /\ Plan(c) # <<>>
    BY <2>2, <2>3, TwoAndMore
  <2> QED
    BY <2>4 DEF F
<1>8. CASE o.version = "config2"
  <2>1. Plan(c) = PlanConfig2(c)
    BY <1>8, Zenon DEF Plan
  <2> DEFINE t == Transaction(Missing(c), LacksAta(c), Deposit,
                              FALSE, FALSE, FALSE)
             u == CreatePool(o.lock)
             s == SwapLeg(o)
  <2>2. Plan(c) = <<t, u>> \o s
    BY <2>1 DEF PlanConfig2
  <2>3. t \in F /\ u \in F /\ s \in Seq(F)
    BY <1>2, <1>3, <1>4, <1>6, <1>8
  <2> HIDE DEF F, t, u, s
  <2>4. Plan(c) \in Seq(F) /\ Plan(c) # <<>>
    BY <2>2, <2>3, TwoAndMore
  <2> QED
    BY <2>4 DEF F
<1>9. CASE o.version = "single"
  <2>1. Plan(c) = PlanSingle(c)
    BY <1>9, Zenon DEF Plan
  <2> DEFINE t == Transaction(Missing(c), LacksAta(c), Deposit, TRUE, FALSE, FALSE)
  <2>2. Plan(c) = <<t>> /\ t \in F
    BY <1>5, <1>9, <2>1 DEF PlanSingle
  <2> HIDE DEF F, t
  <2>3. Plan(c) \in Seq(F) /\ Plan(c) # <<>>
    BY <2>2, OneElement
  <2> QED
    BY <2>3 DEF F
<1> QED
  BY <1>1, <1>7, <1>8, <1>9 DEF Versions

(***************************************************************************)
(* Accounts.                                                               *)
(***************************************************************************)

\* What initialize creates are accounts of the pool and the payer's account for LP tokens.
LEMMA PoolAccountsKinds ==
    ASSUME NEW c \in Clients, NEW a \in Ix!PoolAccounts[c]
    PROVE  (\E r : a = <<r>>) \/ a = Ix!Ata(c, "LP")
<1> DEFINE op == "initializePermissionlessPoolWithFeeTier"
           own == Ix!PayerRoles(c)
           ix == Ix!Idl!Bound(op, own)
<1>1. Ix!CreatedRoles(op) = {"pool", "lpMint", "aVaultLp", "bVaultLp", "payerPoolLp",
                             "protocolTokenAFee", "protocolTokenBFee", "mintMetadata"}
  BY Zenon DEF Ix!CreatedRoles, Ix!Creations
<1>2. Ix!PoolAccounts[c] = {ix.acc[r] : r \in Ix!CreatedRoles(op)}
  BY DEF Ix!PoolAccounts, Ix!InitializeFeeTier, Ix!Bound
<1>3. ix.acc = [r \in Ix!Idl!PoolCreation \cup (Ix!Idl!Mints \cup {"feeOwner"} \cup Ix!Idl!CreationPrograms)
                  |-> IF r \in DOMAIN own THEN own[r] ELSE <<r>>]
  BY DEF Ix!Idl!Bound, Ix!Idl!AmmInstructions, Ix!Idl!InitializeWithFeeTier,
         Ix!Idl!Instruction, Ix!Idl!Roles
<1>4. Ix!CreatedRoles(op) \subseteq Ix!Idl!PoolCreation
  BY <1>1 DEF Ix!Idl!PoolCreation, Ix!Idl!VaultRoles
<1>5. /\ DOMAIN own = {"payerTokenA", "payerTokenB", "payerPoolLp", "payer"}
      /\ own["payerPoolLp"] = Ix!Ata(c, "LP")
  BY DEF Ix!PayerRoles
<1> HIDE DEF own, ix
<1>6. PICK r \in Ix!CreatedRoles(op) : a = ix.acc[r]
  BY <1>2
<1>7. a = IF r \in DOMAIN own THEN own[r] ELSE <<r>>
  BY <1>3, <1>4, <1>6
<1> QED
  BY <1>1, <1>5, <1>6, <1>7

\* A token account for B that a payer does not have is not among the accounts it finds.
LEMMA NoAtaFound ==
    ASSUME TypeOK, NEW c \in Clients, c \notin ata
    PROVE  Ix!Ata(c, "B") \notin Open(c)
<1> DEFINE b == Ix!Ata(c, "B")
           creator == PoolCreator(c)
<1>1. creator \in Clients \cup {None} /\ (lp[PoolAddress(c)] = "locked" => creator \in Clients)
  <2>1. PoolAddress(c) \in Addresses
    BY DEF PoolAddress, Addresses
  <2>2. creator \in Clients \cup {None} /\ (creator = None => lp[PoolAddress(c)] = "none")
    BY <2>1 DEF TypeOK, PoolCreator
  <2> QED
    BY <2>2
<1>2. b \notin Ix!AlwaysOpen[c]
  <2>1. \A d : b # <<d>> /\ b # Ix!Ata(d, "A")
    BY DEF Ix!Ata
  <2>2. b # c
    BY LaunchAssumption DEF Ix!NoWallets
  <2> HIDE DEF b
  <2> QED
    BY <2>1, <2>2 DEF Ix!AlwaysOpen
<1>3. \A x \in Sides : b \notin Ix!VaultAccounts[x]
  BY DEF Sides, Ix!VaultAccounts, Ix!Ata
<1>4. creator \in Clients => b \notin Ix!PoolAccounts[creator] /\ b \notin Ix!EscrowAccounts[creator]
  <2>1. \A r : b # <<r>>
    BY DEF Ix!Ata
  <2>2. \A d : b # Ix!Ata(d, "LP") /\ b # Ix!Escrow(d)
    BY DEF Ix!Ata, Ix!Escrow
  <2> HIDE DEF b, creator
  <2>3. creator \in Clients => b \notin Ix!PoolAccounts[creator]
    BY <2>1, <2>2, PoolAccountsKinds
  <2>4. creator \in Clients => b \notin Ix!EscrowAccounts[creator]
    BY <2>2 DEF Ix!EscrowAccounts
  <2> QED
    BY <2>3, <2>4
<1>5. b \notin UNION {Ix!VaultAccounts[x] : x \in vaults}
  <2>1. vaults \subseteq Sides
    BY DEF TypeOK
  <2> HIDE DEF b
  <2> QED
    BY <1>3, <2>1
<1> HIDE DEF creator
<1> DEFINE E1 == Ix!AlwaysOpen[c]
           E2 == UNION {Ix!VaultAccounts[x] : x \in vaults}
           E3 == IF creator = None THEN {} ELSE Ix!PoolAccounts[creator]
           E4 == IF lp[PoolAddress(c)] = "locked" THEN Ix!EscrowAccounts[creator] ELSE {}
           E0 == IF c \in ata THEN {b} ELSE {}
<1>6. Open(c) = E1 \cup E2 \cup E0 \cup E3 \cup E4 /\ E0 = {}
  BY DEF Open, creator
<1> HIDE DEF b
<1>7. b \notin E1 /\ b \notin E2 /\ b \notin E3 /\ b \notin E4
  BY <1>1, <1>2, <1>4, <1>5
<1> HIDE DEF E0, E1, E2, E3, E4
<1>8. b \notin Open(c)
  BY <1>6, <1>7
<1> QED
  BY <1>8 DEF b

\* What follows a sequence leaves it where it is.
LEMMA PrefixKept ==
    ASSUME NEW S, NEW t \in Seq(S), NEW s \in Seq(S)
    PROVE  /\ t \o s \in Seq(S)
           /\ \A j \in 1 .. Len(t) : j \in 1 .. Len(t \o s) /\ (t \o s)[j] = t[j]
<1>1. Len(t) \in Nat /\ Len(s) \in Nat
  BY LenProperties
<1>2. /\ t \o s \in Seq(S) /\ Len(t \o s) = Len(t) + Len(s)
      /\ \A i \in 1 .. Len(t) + Len(s) : (t \o s)[i] = IF i <= Len(t) THEN t[i] ELSE s[i - Len(t)]
  BY ConcatProperties
<1>3. \A j \in 1 .. Len(t) : j \in 1 .. Len(t) + Len(s) /\ j <= Len(t)
  BY <1>1
<1> QED
  BY <1>2, <1>3

\* An element put after a sequence.
LEMMA LastElement ==
    ASSUME NEW S, NEW r \in Seq(S), NEW e \in S
    PROVE  /\ r \o <<e>> \in Seq(S) /\ Len(r \o <<e>>) = Len(r) + 1 /\ Len(r) \in Nat
           /\ (r \o <<e>>)[Len(r) + 1] = e
           /\ \A j \in 1 .. Len(r) : (r \o <<e>>)[j] = r[j]
<1>1. <<e>> \in Seq(S) /\ Len(<<e>>) = 1 /\ <<e>>[1] = e
  OBVIOUS
<1>2. Len(r) \in Nat
  BY LenProperties
<1>3. /\ r \o <<e>> \in Seq(S) /\ Len(r \o <<e>>) = Len(r) + 1
      /\ \A i \in 1 .. Len(r) + 1 : (r \o <<e>>)[i] = IF i <= Len(r) THEN r[i] ELSE <<e>>[i - Len(r)]
  BY <1>1, ConcatProperties
<1>4. Len(r) + 1 \in 1 .. Len(r) + 1 /\ (Len(r) + 1) - Len(r) = 1 /\ ~(Len(r) + 1 <= Len(r))
      /\ \A j \in 1 .. Len(r) : j \in 1 .. Len(r) + 1 /\ j <= Len(r)
  BY <1>2
<1> QED
  BY <1>1, <1>2, <1>3, <1>4

\* A transaction that wraps for a payer without a token account creates the account first.
LEMMA WrapNeedsAta ==
    ASSUME TypeOK, NEW c \in Clients, c \notin ata, NEW t \in Transactions,
           ~t.ata, t.wrap > 0, Ix!Accepted(c, Open(c), Instructions(c, t))
    PROVE  FALSE
<1> DEFINE b == Ix!Ata(c, "B")
           a1 == IF "A" \in t.vaults THEN <<Ix!CreateVault[c]["A"]>> ELSE <<>>
           a2 == IF "B" \in t.vaults THEN <<Ix!CreateVault[c]["B"]>> ELSE <<>>
           w == Ix!WrapSol[c]
           s1 == IF t.pool THEN <<Initialize(c)>> ELSE <<>>
           s2 == IF t.lock THEN Ix!LockInstructions[c] ELSE <<>>
           s3 == IF t.swap THEN <<Ix!SwapInstruction[c]>> ELSE <<>>
           S == {Ix!CreateVault[c]["A"], Ix!CreateVault[c]["B"], w, Initialize(c),
                 Ix!LockInstructions[c][1], Ix!LockInstructions[c][2],
                 Ix!LockInstructions[c][3], Ix!SwapInstruction[c]}
           ixs == Instructions(c, t)
<1>1. ixs = (((((a1 \o a2) \o <<>>) \o <<w>>) \o s1) \o s2) \o s3
  BY DEF Instructions
<1>2. /\ Ix!CreateVault[c]["A"].creates = Ix!VaultAccounts["A"]
      /\ Ix!CreateVault[c]["B"].creates = Ix!VaultAccounts["B"]
      /\ w.needs = {b}
  <2>1. /\ Ix!CreateVault[c]["A"] = Ix!Native(c, Ix!VaultAccounts["A"], {})
        /\ Ix!CreateVault[c]["B"] = Ix!Native(c, Ix!VaultAccounts["B"], {})
        /\ w = Ix!Native(c, {}, {b})
    BY DEF Ix!CreateVault, Ix!WrapSol
  <2>2. \A d, n, f : Ix!Native(d, n, f).creates = n /\ Ix!Native(d, n, f).needs = f
    BY DEF Ix!Native
  <2> HIDE DEF w, b
  <2> QED
    BY <2>1, <2>2
<1>3. b \notin Ix!VaultAccounts["A"] /\ b \notin Ix!VaultAccounts["B"]
  BY DEF Ix!VaultAccounts, Ix!Ata
<1>4. /\ a1 \in Seq(S) /\ a2 \in Seq(S) /\ w \in S
      /\ s1 \in Seq(S) /\ s2 \in Seq(S) /\ s3 \in Seq(S)
  <2>1. <<>> \in Seq(S) /\ \A e \in S : <<e>> \in Seq(S)
    <3> HIDE DEF S
    <3> QED
      BY EmptySeq, OneElement
  <2>2. Ix!LockInstructions[c] \in Seq(S)
    <3>1. Ix!LockInstructions[c]
             = <<Ix!LockInstructions[c][1], Ix!LockInstructions[c][2], Ix!LockInstructions[c][3]>>
      BY DEF Ix!LockInstructions
    <3>2. \A x, y, z \in S : <<x, y, z>> \in Seq(S)
      <4> HIDE DEF S
      <4> QED
        OBVIOUS
    <3> HIDE DEF w
    <3> QED
      BY <3>1, <3>2
  <2> HIDE DEF w
  <2> QED
    BY <2>1, <2>2
<1> DEFINE r == a1 \o a2
<1> HIDE DEF w, s1, s2, s3
<1>5. \A j \in 1 .. Len(r) : b \notin r[j].creates
  <2>1. /\ \A j \in 1 .. Len(a1) : b \notin a1[j].creates
        /\ \A j \in 1 .. Len(a2) : b \notin a2[j].creates
    BY <1>2, <1>3
  <2>2. a1 \in Seq(S) /\ a2 \in Seq(S)
    BY <1>4
  <2> HIDE DEF a1, a2, S, b
  <2>3. Len(a1) \in Nat /\ Len(a2) \in Nat
    BY <2>2, LenProperties
  <2>4. /\ Len(r) = Len(a1) + Len(a2)
        /\ \A j \in 1 .. Len(a1) + Len(a2) : r[j] = IF j <= Len(a1) THEN a1[j] ELSE a2[j - Len(a1)]
    BY <2>2, ConcatProperties
  <2> HIDE DEF r
  <2>5. \A j \in 1 .. Len(a1) + Len(a2) :
            IF j <= Len(a1) THEN j \in 1 .. Len(a1) ELSE j - Len(a1) \in 1 .. Len(a2)
    BY <2>3
  <2> QED
    BY <2>1, <2>4, <2>5
<1> HIDE DEF S, ixs, a1, a2, b
<1>6. r \in Seq(S)
  BY <1>4, ConcatProperties
<1> DEFINE q == r \o <<w>>
           q1 == q \o s1
           q2 == q1 \o s2
           k == Len(r) + 1
<1>7. ixs = q2 \o s3
  <2>1. r \o <<>> = r
    BY <1>6, ConcatEmptySeq
  <2> QED
    BY <1>1, <2>1
<1> HIDE DEF r
<1>8. /\ q \in Seq(S) /\ Len(q) = Len(r) + 1 /\ Len(r) \in Nat /\ q[k] = w
      /\ \A j \in 1 .. Len(r) : q[j] = r[j]
  BY <1>4, <1>6, LastElement
<1> HIDE DEF q
<1>9. q1 \in Seq(S) /\ \A j \in 1 .. Len(q) : j \in 1 .. Len(q1) /\ q1[j] = q[j]
  BY <1>4, <1>8, PrefixKept
<1> HIDE DEF q1
<1>10. q2 \in Seq(S) /\ \A j \in 1 .. Len(q1) : j \in 1 .. Len(q2) /\ q2[j] = q1[j]
  BY <1>4, <1>9, PrefixKept
<1> HIDE DEF q2
<1>11. \A j \in 1 .. Len(q2) : j \in 1 .. Len(ixs) /\ ixs[j] = q2[j]
  BY <1>4, <1>7, <1>10, PrefixKept
<1>12. \A j \in 1 .. Len(q) : j \in 1 .. Len(ixs) /\ ixs[j] = q[j]
  BY <1>9, <1>10, <1>11
<1>13. k \in 1 .. Len(q) /\ k - 1 = Len(r) /\ \A j \in 1 .. (k - 1) : j \in 1 .. Len(q)
  BY <1>8
<1>14. ixs[k].needs \subseteq Open(c) \cup UNION {ixs[j].creates : j \in 1 .. (k - 1)}
  BY <1>12, <1>13 DEF Ix!Accepted, ixs
<1> HIDE DEF k
<1>15. b \notin UNION {ixs[j].creates : j \in 1 .. (k - 1)}
  BY <1>5, <1>8, <1>12, <1>13
<1>16. b \notin Open(c)
  BY NoAtaFound DEF b
<1>17. ixs[k] = w
  BY <1>8, <1>12, <1>13 DEF k
<1> QED
  BY <1>2, <1>14, <1>15, <1>16, <1>17

(***************************************************************************)
(* The steps.                                                              *)
(***************************************************************************)

\* The parts of the invariant about what is planned and what is on its way, when only the
\* phase, the plan and the count of one payer's attempt change, and nothing on the chain.
LEMMA AttemptStep ==
    ASSUME LaunchInv, NEW c \in Clients, NEW p \in Phases, NEW s \in Seq(Transactions),
           NEW n \in Nat, NEW v \in SUBSET Sides,
           UNCHANGED <<chainVars, option>>,
           pc' = [pc EXCEPT ![c] = p], plan' = [plan EXCEPT ![c] = s],
           attempts' = [attempts EXCEPT ![c] = n], seen' = [seen EXCEPT ![c] = v],
           s \in Seq(Fitting(c)), n >= attempts[c],
           p \in {"reading", "sending"} => n > 0, p = "sending" => s # <<>>,
           NetFits', \A m \in net' \ net : m.attempt \in 1 .. attempts'[m.client]
    PROVE  LaunchInv'
<1>1. TypeOK /\ Kinds /\ PlansFit /\ NetFits /\ LockedFromBirth
  BY DEF LaunchInv
<1>2. /\ vaults' = vaults /\ ata' = ata /\ wsol' = wsol /\ pool' = pool /\ lp' = lp
      /\ option' = option
  BY DEF chainVars
<1>3. \A d \in Clients : Fitting(d)' = Fitting(d)
  BY <1>2 DEF Fitting
<1>4. Kinds'
  BY <1>1, <1>2 DEF Kinds
<1>5. \A d \in Clients : /\ pc'[d] = IF d = c THEN p ELSE pc[d]
                         /\ plan'[d] = IF d = c THEN s ELSE plan[d]
                         /\ attempts'[d] = IF d = c THEN n ELSE attempts[d]
                         /\ attempts[d] \in Nat /\ attempts'[d] >= attempts[d]
  BY <1>1 DEF Kinds
<1>6. PlansFit'
  <2> SUFFICES ASSUME NEW d \in Clients
               PROVE  /\ plan'[d] \in Seq(Fitting(d)')
                      /\ pc'[d] \in {"reading", "sending"} => attempts'[d] > 0
    BY DEF PlansFit
  <2>1. /\ plan[d] \in Seq(Fitting(d)) /\ Fitting(d)' = Fitting(d)
        /\ pc[d] \in {"reading", "sending"} => attempts[d] > 0
    BY <1>1, <1>3 DEF PlansFit
  <2> QED
    BY <1>5, <2>1
<1>7. TypeOK'
  <2>1. \A d \in Clients :
          /\ wsol'[d] \in Nat /\ (d \notin ata' => wsol'[d] = 0)
          /\ pc'[d] \in {"idle", "reading", "sending", "confirming", "done"}
          /\ pc'[d] = "sending" => plan'[d] # <<>>
    BY <1>1, <1>2, <1>5 DEF TypeOK, Phases
  <2>2. \A m \in net' : m.attempt \in 1 .. attempts'[m.client]
    <3> SUFFICES ASSUME NEW m \in net, m \in net'
                 PROVE  m.attempt \in 1 .. attempts'[m.client]
      OBVIOUS
    <3>1. m.attempt \in 1 .. attempts[m.client] /\ m.client \in Clients
      BY <1>1 DEF TypeOK, NetFits
    <3> QED
      BY <1>5, <3>1
  <2> QED
    BY <1>1, <1>2, <2>1, <2>2 DEF TypeOK
<1>8. LockedFromBirth'
  BY <1>1, <1>2 DEF LockedFromBirth
<1> QED
  BY <1>4, <1>6, <1>7, <1>8 DEF LaunchInv

\* What the invariant says of the attempt of one payer.
LEMMA AttemptKinds ==
    ASSUME LaunchInv, NEW c \in Clients
    PROVE  /\ plan[c] \in Seq(Transactions) /\ plan[c] \in Seq(Fitting(c))
           /\ attempts[c] \in Nat /\ seen[c] \in SUBSET Sides /\ pc[c] \in Phases
           /\ vaults \in SUBSET Sides
           /\ pc[c] = "sending" => plan[c] # <<>>
           /\ pc[c] \in {"reading", "sending"} => attempts[c] > 0
           /\ plan = [plan EXCEPT ![c] = plan[c]] /\ seen = [seen EXCEPT ![c] = seen[c]]
           /\ attempts = [attempts EXCEPT ![c] = attempts[c]] /\ pc = [pc EXCEPT ![c] = pc[c]]
           /\ NetFits
BY DEF LaunchInv, TypeOK, Kinds, PlansFit, NetFits

\* An attempt begins: the vaults are read.
LEMMA ReadVaultsKeeps ==
    ASSUME LaunchInv, NEW c \in Clients, ReadVaults(c)
    PROVE  LaunchInv'
<1> DEFINE n == attempts[c] + 1
<1>1. /\ pc' = [pc EXCEPT ![c] = "reading"] /\ attempts' = [attempts EXCEPT ![c] = n]
      /\ seen' = [seen EXCEPT ![c] = vaults] /\ plan' = plan /\ net' = net
      /\ UNCHANGED <<chainVars, option>>
  BY DEF ReadVaults
<1>2. NetFits' /\ plan' = [plan EXCEPT ![c] = plan[c]]
  BY <1>1, AttemptKinds DEF NetFits, Fitting
<1>3. n \in Nat /\ n > 0 /\ n >= attempts[c] /\ "reading" \in Phases
  BY AttemptKinds DEF Phases
<1> HIDE DEF n
<1> QED
  BY <1>1, <1>2, <1>3, AttemptKinds, AttemptStep

\* The transactions are built.
LEMMA ReadAccountsKeeps ==
    ASSUME LaunchInv, NEW c \in Clients, ReadAccounts(c)
    PROVE  LaunchInv'
<1> DEFINE s == Plan(c)
<1>1. /\ pc' = [pc EXCEPT ![c] = "sending"] /\ plan' = [plan EXCEPT ![c] = s]
      /\ seen' = [seen EXCEPT ![c] = {}] /\ attempts' = attempts /\ net' = net
      /\ UNCHANGED <<chainVars, option>> /\ pc[c] = "reading"
  BY DEF ReadAccounts
<1>2. NetFits' /\ attempts' = [attempts EXCEPT ![c] = attempts[c]]
  BY <1>1, AttemptKinds DEF NetFits, Fitting
<1>3. s \in Seq(Fitting(c)) /\ s # <<>> /\ s \in Seq(Transactions)
  <2>1. s \in Seq(Fitting(c)) /\ s # <<>>
    BY PlanFits DEF LaunchInv
  <2>2. Fitting(c) \subseteq Transactions
    BY DEF Fitting
  <2> HIDE DEF s
  <2> QED
    BY <2>1, <2>2
<1>4. attempts[c] > 0 /\ attempts[c] >= attempts[c] /\ attempts[c] \in Nat
      /\ {} \in SUBSET Sides /\ "sending" \in Phases
  BY <1>1, AttemptKinds DEF Phases
<1> HIDE DEF s
<1> QED
  BY <1>1, <1>2, <1>3, <1>4, AttemptStep

\* A transaction is sent.
LEMMA SendKeeps ==
    ASSUME LaunchInv, NEW c \in Clients, Send(c)
    PROVE  LaunchInv'
<1> DEFINE h == Head(plan[c])
           s == Tail(plan[c])
           m == [client |-> c, attempt |-> attempts[c], tx |-> h]
<1>1. /\ pc' = [pc EXCEPT ![c] = "confirming"] /\ plan' = [plan EXCEPT ![c] = s]
      /\ net' = net \cup {m} /\ seen' = seen /\ attempts' = attempts
      /\ UNCHANGED <<chainVars, option>> /\ pc[c] = "sending"
  BY DEF Send
<1>2. h \in Fitting(c) /\ s \in Seq(Fitting(c)) /\ s \in Seq(Transactions)
  <2>1. plan[c] \in Seq(Fitting(c)) /\ plan[c] # <<>> /\ Fitting(c) \subseteq Transactions
    BY <1>1, AttemptKinds DEF Fitting
  <2>2. \A S : \A q \in Seq(S) : q # <<>> => Head(q) \in S /\ Tail(q) \in Seq(S)
    BY HeadTailProperties
  <2>3. h \in Fitting(c) /\ s \in Seq(Fitting(c))
    BY <2>1, <2>2
  <2> HIDE DEF h, s
  <2> QED
    BY <2>1, <2>3
<1> HIDE DEF h, s
<1>3. m.client = c /\ m.attempt = attempts[c] /\ m.tx = h
  OBVIOUS
<1>4. attempts[c] \in Nat /\ attempts[c] > 0 /\ attempts[c] >= attempts[c]
  BY <1>1, AttemptKinds
<1> HIDE DEF m
<1>5. NetFits'
  <2> SUFFICES ASSUME NEW k \in net' PROVE k.client \in Clients /\ k.tx \in Fitting(k.client)'
    BY DEF NetFits
  <2>1. k.client \in Clients /\ k.tx \in Fitting(k.client)
    BY <1>1, <1>2, <1>3, AttemptKinds DEF NetFits
  <2> QED
    BY <1>1, <2>1 DEF Fitting
<1>6. \A k \in net' \ net : k.attempt \in 1 .. attempts'[k.client]
  BY <1>1, <1>3, <1>4
<1>7. /\ seen' = [seen EXCEPT ![c] = seen[c]] /\ attempts' = [attempts EXCEPT ![c] = attempts[c]]
      /\ seen[c] \in SUBSET Sides
  BY <1>1, AttemptKinds
<1>8. "confirming" \in Phases
  BY DEF Phases
<1> QED
  BY <1>1, <1>2, <1>4, <1>5, <1>6, <1>7, <1>8, AttemptStep

\* The simulation refuses a transaction, or the caller stops.
LEMMA StopKeeps ==
    ASSUME LaunchInv, NEW c \in Clients, Refused(c) \/ Crash(c)
    PROVE  LaunchInv'
<1> DEFINE v == seen'[c]
<1>1. /\ pc' = [pc EXCEPT ![c] = "idle"] /\ plan' = [plan EXCEPT ![c] = <<>>]
      /\ seen' = seen \/ seen' = [seen EXCEPT ![c] = {}]
      /\ net' = net /\ attempts' = attempts /\ UNCHANGED <<chainVars, option>>
  BY DEF Refused, Crash
<1>2. NetFits' /\ attempts' = [attempts EXCEPT ![c] = attempts[c]]
  BY <1>1, AttemptKinds DEF NetFits, Fitting
<1>3. seen' = [seen EXCEPT ![c] = v] /\ v \in SUBSET Sides
  <2>1. seen \in [Clients -> SUBSET Sides]
    BY DEF LaunchInv, Kinds
  <2>2. CASE seen' = seen
    BY <2>1, <2>2
  <2>3. CASE seen' = [seen EXCEPT ![c] = {}]
    BY <2>1, <2>3
  <2> QED
    BY <1>1, <2>2, <2>3
<1>4. <<>> \in Seq(Fitting(c)) /\ <<>> \in Seq(Transactions) /\ "idle" \in Phases
  BY DEF Phases
<1>5. attempts[c] \in Nat /\ attempts[c] >= attempts[c]
  BY AttemptKinds
<1> HIDE DEF v
<1> QED
  BY <1>1, <1>2, <1>3, <1>4, <1>5, AttemptStep

\* The node answers about a transaction, and the attempts go on, or end.
LEMMA AnswerStep ==
    ASSUME LaunchInv, NEW m \in net, net' = net \ {m},
           UNCHANGED <<option, attempts, seen>>,
           \/ Confirmed(m) /\ plan' = plan
           \/ /\ pc' = [c \in Clients |-> IF Awaits(c, m) THEN "idle" ELSE pc[c]]
              /\ plan' = [c \in Clients |-> IF Awaits(c, m) THEN <<>> ELSE plan[c]]
    PROVE  /\ pc' \in [Clients -> Phases] /\ plan' \in [Clients -> Seq(Transactions)]
           /\ attempts' \in [Clients -> Nat] /\ seen' \in [Clients -> SUBSET Sides]
           /\ \A c \in Clients : pc'[c] = "sending" => plan'[c] # <<>>
           /\ PlansFit' /\ NetFits'
           /\ \A k \in net' : k.attempt \in 1 .. attempts'[k.client]
<1>1. TypeOK /\ Kinds /\ PlansFit /\ NetFits
  BY DEF LaunchInv
<1>2. \A c \in Clients : Fitting(c)' = Fitting(c)
  BY DEF Fitting
<1>3. /\ NetFits' /\ \A k \in net' : k.attempt \in 1 .. attempts'[k.client]
      /\ attempts' \in [Clients -> Nat] /\ seen' \in [Clients -> SUBSET Sides]
  BY <1>1, <1>2 DEF TypeOK, Kinds, NetFits
<1>4. \A c \in Clients : Awaits(c, m) => attempts[c] > 0
  BY <1>1 DEF TypeOK, Kinds, NetFits, Awaits
<1>5. CASE Confirmed(m) /\ plan' = plan
  <2>1. pc' = [c \in Clients |-> IF ~Awaits(c, m) THEN pc[c]
                                 ELSE IF plan[c] = <<>> THEN "done" ELSE "sending"]
    BY <1>5 DEF Confirmed
  <2>2. pc' \in [Clients -> Phases] /\ plan' \in [Clients -> Seq(Transactions)]
    BY <1>1, <1>5, <2>1 DEF Kinds, Phases
  <2>3. \A c \in Clients : pc'[c] = "sending" => plan'[c] # <<>>
    BY <1>1, <1>5, <2>1 DEF TypeOK
  <2>4. \A c \in Clients : plan'[c] \in Seq(Fitting(c)')
    BY <1>1, <1>2, <1>5 DEF PlansFit
  <2>5. \A c \in Clients : pc'[c] \in {"reading", "sending"} => attempts'[c] > 0
    BY <1>1, <1>4, <2>1 DEF PlansFit
  <2> QED
    BY <1>3, <2>2, <2>3, <2>4, <2>5 DEF PlansFit
<1>6. CASE /\ pc' = [c \in Clients |-> IF Awaits(c, m) THEN "idle" ELSE pc[c]]
           /\ plan' = [c \in Clients |-> IF Awaits(c, m) THEN <<>> ELSE plan[c]]
  <2>1. \A S : <<>> \in Seq(S)
    OBVIOUS
  <2>2. pc' \in [Clients -> Phases] /\ plan' \in [Clients -> Seq(Transactions)]
    BY <1>1, <1>6, <2>1 DEF Kinds, Phases
  <2>3. \A c \in Clients : pc'[c] = "sending" => plan'[c] # <<>>
    BY <1>1, <1>6 DEF TypeOK
  <2>4. \A c \in Clients : plan'[c] \in Seq(Fitting(c)')
    BY <1>1, <1>2, <1>6, <2>1 DEF PlansFit
  <2>5. \A c \in Clients : pc'[c] \in {"reading", "sending"} => attempts'[c] > 0
    BY <1>1, <1>6 DEF PlansFit
  <2> QED
    BY <1>3, <2>2, <2>3, <2>4, <2>5 DEF PlansFit
<1> QED
  BY <1>5, <1>6

\* A transaction fails, or expires: nothing changes on the chain.
LEMMA LostKeeps ==
    ASSUME LaunchInv, NEW m \in net, Failed(m) \/ Expired(m)
    PROVE  LaunchInv'
<1>1. /\ net' = net \ {m} /\ UNCHANGED <<option, attempts, seen>>
      /\ vaults' = vaults /\ ata' = ata /\ wsol' = wsol /\ pool' = pool /\ lp' = lp
      /\ \/ Confirmed(m) /\ plan' = plan
         \/ /\ pc' = [c \in Clients |-> IF Awaits(c, m) THEN "idle" ELSE pc[c]]
            /\ plan' = [c \in Clients |-> IF Awaits(c, m) THEN <<>> ELSE plan[c]]
  BY Zenon DEF Failed, Expired, chainVars
<1>2. /\ pc' \in [Clients -> Phases] /\ plan' \in [Clients -> Seq(Transactions)]
      /\ attempts' \in [Clients -> Nat] /\ seen' \in [Clients -> SUBSET Sides]
      /\ \A c \in Clients : pc'[c] = "sending" => plan'[c] # <<>>
      /\ PlansFit' /\ NetFits'
      /\ \A k \in net' : k.attempt \in 1 .. attempts'[k.client]
  BY <1>1, AnswerStep
<1>3. Kinds'
  BY <1>1, <1>2 DEF LaunchInv, Kinds
<1>4. TypeOK'
  <2>1. \A c \in Clients : pc'[c] \in Phases
    BY <1>2
  <2> QED
    BY <1>1, <1>2, <2>1 DEF LaunchInv, TypeOK, Phases
<1>5. LockedFromBirth'
  BY <1>1 DEF LaunchInv, LockedFromBirth
<1> QED
  BY <1>2, <1>3, <1>4, <1>5 DEF LaunchInv

\* What a transaction that runs does to the wrapped SOL of its payer: it never goes below
\* zero, and a payer without a token account has none.
LEMMA WrappedSolKept ==
    ASSUME LaunchInv, NEW c \in Clients, NEW t \in Fitting(c), CanRun(c, t), Run(c, t)
    PROVE  /\ wsol' \in [Clients -> Nat]
           /\ \A d \in Clients : d \notin ata' => wsol'[d] = 0
           /\ \A d \in Clients \ {c} : wsol'[d] = wsol[d]
           /\ option[c].version = "single" => wsol'[c] = wsol[c]
<1>1. /\ t \in Transactions /\ ~(t.pool /\ t.swap)
      /\ option[c].version = "single" => t.pool /\ t.wrap = Deposit
  BY DEF Fitting
<1>2. /\ t.wrap \in Nat /\ t.pool \in BOOLEAN /\ t.swap \in BOOLEAN /\ t.ata \in BOOLEAN
      /\ Deposit \in Nat /\ Deposit > 0 /\ SwapIn \in Nat /\ SwapIn > 0
  BY <1>1, LaunchAssumption DEF Transactions
<1> DEFINE w == wsol[c]
           n == w + t.wrap - (IF t.pool THEN Deposit ELSE 0) - (IF t.swap THEN SwapIn ELSE 0)
<1>3. /\ wsol' = [wsol EXCEPT ![c] = n]
      /\ ata' = IF t.ata THEN ata \cup {c} ELSE ata
  BY DEF Run
<1>4. /\ wsol \in [Clients -> Nat] /\ w \in Nat /\ (c \notin ata => w = 0)
      /\ \A d \in Clients : d \notin ata => wsol[d] = 0
  BY DEF LaunchInv, Kinds, TypeOK
<1>5. /\ Ix!Accepted(c, Open(c), Instructions(c, t))
      /\ t.pool => w + t.wrap >= Deposit
      /\ t.swap => w >= SwapIn
  BY DEF CanRun
<1>6. c \notin ata /\ ~t.ata => t.wrap = 0
  <2> SUFFICES ASSUME c \notin ata, ~t.ata, t.wrap > 0 PROVE FALSE
    BY <1>2
  <2>1. TypeOK
    BY DEF LaunchInv
  <2> QED
    BY <1>1, <1>5, <2>1, WrapNeedsAta
<1> HIDE DEF w
<1>7. n \in Nat
  <2>1. CASE t.pool
    BY <1>1, <1>2, <1>4, <1>5, <2>1
  <2>2. CASE t.swap
    BY <1>1, <1>2, <1>4, <1>5, <2>2
  <2>3. CASE ~t.pool /\ ~t.swap
    BY <1>2, <1>4, <2>3
  <2> QED
    BY <2>1, <2>2, <2>3
<1>8. c \notin ata /\ ~t.ata => n = 0
  BY <1>2, <1>4, <1>5, <1>6
<1>9. option[c].version = "single" => n = w
  BY <1>1, <1>2, <1>4
<1> HIDE DEF n
<1>10. wsol' \in [Clients -> Nat] /\ \A d \in Clients : wsol'[d] = IF d = c THEN n ELSE wsol[d]
  BY <1>3, <1>4, <1>7
<1>11. \A d \in Clients : d \notin ata' => wsol'[d] = 0
  BY <1>3, <1>4, <1>8, <1>10
<1> QED
  BY <1>9, <1>10, <1>11 DEF w

\* A transaction lands.
LEMMA LandedKeeps ==
    ASSUME LaunchInv, NEW m \in net, Landed(m)
    PROVE  LaunchInv'
<1> DEFINE c == m.client
           t == m.tx
           a == PoolAddress(c)
<1>1. /\ net' = net \ {m} /\ UNCHANGED <<option, attempts, seen>>
      /\ Confirmed(m) /\ plan' = plan /\ CanRun(c, t) /\ Run(c, t)
  BY DEF Landed
<1>2. c \in Clients /\ t \in Fitting(c)
  BY DEF LaunchInv, NetFits
<1>3. /\ t \in Transactions /\ (t.pool => t.lock = option[c].lock) /\ (t.lock => t.pool)
  BY <1>2 DEF Fitting
<1>4. a \in Addresses
  BY DEF PoolAddress, Addresses
<1>5. /\ pc' \in [Clients -> Phases] /\ plan' \in [Clients -> Seq(Transactions)]
      /\ attempts' \in [Clients -> Nat] /\ seen' \in [Clients -> SUBSET Sides]
      /\ \A d \in Clients : pc'[d] = "sending" => plan'[d] # <<>>
      /\ PlansFit' /\ NetFits'
      /\ \A k \in net' : k.attempt \in 1 .. attempts'[k.client]
  BY <1>1, AnswerStep
<1> HIDE DEF c, t
<1>6. /\ wsol' \in [Clients -> Nat]
      /\ \A d \in Clients : d \notin ata' => wsol'[d] = 0
  BY <1>1, <1>2, WrappedSolKept
<1>7. /\ vaults' = vaults \cup t.vaults
      /\ ata' = IF t.ata THEN ata \cup {c} ELSE ata
      /\ pool' = [pool EXCEPT ![a] = IF t.pool THEN c ELSE pool[a]]
      /\ lp' = [lp EXCEPT ![a] = IF t.lock THEN "locked" ELSE IF t.pool THEN "held" ELSE lp[a]]
  BY <1>1 DEF Run
<1> HIDE DEF a
<1>8. /\ pool \in [Addresses -> Clients \cup {None}] /\ lp \in [Addresses -> LpStates]
      /\ \A b \in Addresses : pool[b] = None <=> lp[b] = "none"
  BY DEF LaunchInv, Kinds, TypeOK
<1>9. vaults' \subseteq Sides /\ ata' \subseteq Clients
  <2>1. t.vaults \subseteq Sides
    BY <1>3 DEF Transactions
  <2>2. vaults \subseteq Sides /\ ata \subseteq Clients
    BY DEF LaunchInv, TypeOK
  <2> QED
    BY <1>2, <1>7, <2>1, <2>2
<1>10. \A b \in Addresses :
          /\ pool'[b] = IF b = a /\ t.pool THEN c ELSE pool[b]
          /\ lp'[b] = IF b = a /\ t.lock THEN "locked"
                      ELSE IF b = a /\ t.pool THEN "held" ELSE lp[b]
  BY <1>4, <1>7, <1>8
<1>11. /\ pool' \in [Addresses -> Clients \cup {None}] /\ lp' \in [Addresses -> LpStates]
  <2>1. (IF t.lock THEN "locked" ELSE IF t.pool THEN "held" ELSE lp[a]) \in LpStates
    BY <1>4, <1>8 DEF LpStates
  <2>2. lp' \in [Addresses -> LpStates]
    BY <1>4, <1>7, <1>8, <2>1
  <2>3. (IF t.pool THEN c ELSE pool[a]) \in Clients \cup {None}
    BY <1>2, <1>4, <1>8
  <2>4. pool' \in [Addresses -> Clients \cup {None}]
    BY <1>4, <1>7, <1>8, <2>3
  <2> QED
    BY <2>2, <2>4
<1>12. \A b \in Addresses : pool'[b] \in Clients \cup {None} /\ (pool'[b] = None <=> lp'[b] = "none")
  <2>1. c # None
    BY <1>2, LaunchAssumption
  <2> QED
    BY <1>3, <1>8, <1>10, <1>11, <2>1
<1>13. LockedFromBirth'
  <2> SUFFICES ASSUME NEW b \in Addresses, pool'[b] # None, option[pool'[b]].lock
               PROVE  lp'[b] = "locked"
    BY <1>1 DEF LockedFromBirth
  <2>1. CASE b = a /\ t.pool
    BY <1>3, <1>10, <2>1
  <2>2. CASE ~(b = a /\ t.pool)
    <3>1. pool'[b] = pool[b] /\ lp'[b] = lp[b]
      BY <1>3, <1>10, <2>2
    <3> QED
      BY <3>1 DEF LaunchInv, LockedFromBirth
  <2> QED
    BY <2>1, <2>2
<1>14. Kinds'
  BY <1>1, <1>5, <1>6, <1>11 DEF LaunchInv, Kinds
<1>15. TypeOK'
  <2>1. \A d \in Clients : /\ wsol'[d] \in Nat /\ (d \notin ata' => wsol'[d] = 0)
                           /\ pc'[d] \in {"idle", "reading", "sending", "confirming", "done"}
                           /\ pc'[d] = "sending" => plan'[d] # <<>>
    BY <1>5, <1>6 DEF Phases
  <2> QED
    BY <1>5, <1>9, <1>12, <2>1 DEF TypeOK
<1> QED
  BY <1>5, <1>13, <1>14, <1>15 DEF LaunchInv

\* The initial states satisfy the invariant.
LEMMA LaunchInit == Init => LaunchInv
<1> SUFFICES ASSUME Init PROVE LaunchInv
  OBVIOUS
<1>1. Balances \subseteq Nat
  BY LaunchAssumption
<1>2. wsol \in [Clients -> Nat] /\ \A c \in Clients : c \notin ata => wsol[c] = 0
  <2>1. /\ wsol \in [Clients -> Balances \cup {0}]
        /\ \A c \in Clients : IF c \in ata THEN wsol[c] \in Balances ELSE wsol[c] = 0
    BY DEF Init
  <2>2. Balances \cup {0} \subseteq Nat
    BY <1>1
  <2>3. wsol \in [Clients -> Nat]
    BY <2>1, <2>2
  <2> QED
    BY <2>1, <2>3
<1>3. \A S : <<>> \in Seq(S)
  OBVIOUS
<1>4. Kinds
  <2>1. option \in [Clients -> Options] /\ pc \in [Clients -> Phases]
    BY DEF Init, Phases
  <2>2. pool \in [Addresses -> Clients \cup {None}] /\ lp \in [Addresses -> LpStates]
    BY DEF Init, LpStates
  <2>3. attempts \in [Clients -> Nat] /\ seen \in [Clients -> SUBSET Sides]
    BY DEF Init
  <2>4. plan \in [Clients -> Seq(Transactions)]
    BY <1>3 DEF Init
  <2> QED
    BY <1>2, <2>1, <2>2, <2>3, <2>4 DEF Kinds
<1>5. TypeOK
  BY <1>2 DEF Init, TypeOK
<1>6. PlansFit /\ NetFits
  BY <1>3 DEF Init, PlansFit, NetFits
<1>7. LockedFromBirth
  BY DEF Init, LockedFromBirth
<1> QED
  BY <1>4, <1>5, <1>6, <1>7 DEF LaunchInv

\* Every step keeps the invariant.
LEMMA LaunchStep == LaunchInv /\ [Next]_vars => LaunchInv'
<1> SUFFICES ASSUME LaunchInv, [Next]_vars PROVE LaunchInv'
  OBVIOUS
<1>1. ASSUME NEW c \in Clients, ReadVaults(c) PROVE LaunchInv'
  BY <1>1, ReadVaultsKeeps
<1>2. ASSUME NEW c \in Clients, ReadAccounts(c) PROVE LaunchInv'
  BY <1>2, ReadAccountsKeeps
<1>3. ASSUME NEW c \in Clients, Send(c) PROVE LaunchInv'
  BY <1>3, SendKeeps
<1>4. ASSUME NEW c \in Clients, Refused(c) \/ Crash(c) PROVE LaunchInv'
  BY <1>4, StopKeeps
<1>5. ASSUME NEW m \in net, Landed(m) PROVE LaunchInv'
  BY <1>5, LandedKeeps
<1>6. ASSUME NEW m \in net, Failed(m) \/ Expired(m) PROVE LaunchInv'
  BY <1>6, LostKeeps
<1>7. CASE UNCHANGED vars
  <2>1. /\ vaults' = vaults /\ ata' = ata /\ wsol' = wsol /\ pool' = pool /\ lp' = lp
        /\ net' = net /\ option' = option /\ pc' = pc /\ attempts' = attempts
        /\ seen' = seen /\ plan' = plan
    BY <1>7 DEF vars, chainVars
  <2>2. \A c \in Clients : Fitting(c)' = Fitting(c)
    BY <2>1 DEF Fitting
  <2>3. TypeOK' /\ Kinds' /\ LockedFromBirth'
    BY <2>1 DEF LaunchInv, TypeOK, Kinds, LockedFromBirth
  <2>4. PlansFit' /\ NetFits'
    BY <2>1, <2>2 DEF LaunchInv, PlansFit, NetFits
  <2> QED
    BY <2>3, <2>4 DEF LaunchInv
<1> QED
  BY <1>1, <1>2, <1>3, <1>4, <1>5, <1>6, <1>7 DEF Next

(***************************************************************************)
(* When a transaction runs: its instructions one after the other.          *)
(***************************************************************************)

\* An instruction that can run as it stands where the accounts open exist.
Fits(c, open, i) ==
    /\ i.right /\ i.signers \subseteq {c} /\ i.undeclared = {}
    /\ i.creates \cap open = {} /\ i.needs \subseteq open

\* What the instructions of a sequence create, and that each can run after those before it.
Made(s) == UNION {s[j].creates : j \in 1 .. Len(s)}
AllFit(c, open, s) ==
    \A k \in 1 .. Len(s) :
        Fits(c, open \cup UNION {s[j].creates : j \in 1 .. (k - 1)}, s[k])

\* Nothing at all runs.
LEMMA NothingFits ==
    ASSUME NEW c, NEW open, NEW S
    PROVE  <<>> \in Seq(S) /\ AllFit(c, open, <<>>) /\ Made(<<>>) = {}
BY DEF AllFit, Made

\* One instruction more.
LEMMA OneMoreFits ==
    ASSUME NEW c, NEW open, NEW S, NEW s \in Seq(S), NEW i \in S,
           AllFit(c, open, s), Fits(c, open \cup Made(s), i)
    PROVE  /\ s \o <<i>> \in Seq(S) /\ AllFit(c, open, s \o <<i>>)
           /\ Made(s \o <<i>>) = Made(s) \cup i.creates
<1> DEFINE n == Len(s)
           q == s \o <<i>>
<1>1. /\ q \in Seq(S) /\ Len(q) = n + 1 /\ n \in Nat /\ q[n + 1] = i
      /\ \A j \in 1 .. n : q[j] = s[j]
  BY LastElement
<1> HIDE DEF q
<1>2. \A k \in 1 .. n + 1 : UNION {q[j].creates : j \in 1 .. (k - 1)}
                              = UNION {s[j].creates : j \in 1 .. (k - 1)}
  BY <1>1
<1>3. AllFit(c, open, q)
  <2> SUFFICES ASSUME NEW k \in 1 .. n + 1
               PROVE  Fits(c, open \cup UNION {q[j].creates : j \in 1 .. (k - 1)}, q[k])
    BY <1>1 DEF AllFit
  <2>1. CASE k \in 1 .. n
    BY <1>1, <1>2, <2>1 DEF AllFit
  <2>2. CASE k = n + 1
    <3>1. UNION {s[j].creates : j \in 1 .. (k - 1)} = Made(s)
      BY <1>1, <2>2 DEF Made
    <3> QED
      BY <1>1, <1>2, <2>2, <3>1
  <2> QED
    BY <1>1, <2>1, <2>2
<1>4. Made(q) = Made(s) \cup i.creates
  <2>1. Made(q) = UNION {q[j].creates : j \in 1 .. n + 1}
    BY <1>1 DEF Made
  <2>2. \A a : a \in Made(q) <=> \E j \in 1 .. n + 1 : a \in q[j].creates
    BY <2>1
  <2>3. \A a : a \in Made(s) <=> \E j \in 1 .. n : a \in s[j].creates
    BY DEF Made
  <2>4. \A j : j \in 1 .. n + 1 <=> j \in 1 .. n \/ j = n + 1
    BY <1>1
  <2>5. \A a : a \in Made(q) <=> a \in Made(s) \/ a \in i.creates
    BY <1>1, <2>2, <2>3, <2>4
  <2> QED
    BY <2>5
<1> QED
  BY <1>1, <1>3, <1>4 DEF q

\* An instruction that is added on a condition, and the accounts there are after a sequence.
Then(s, b, i) == s \o (IF b THEN <<i>> ELSE <<>>)
Now(open, s) == open \cup Made(s)
With(open, b, new) == open \cup (IF b THEN new ELSE {})

LEMMA ThenFits ==
    ASSUME NEW c, NEW open, NEW S, NEW s \in Seq(S), NEW i \in S, NEW b, AllFit(c, open, s),
           b => Fits(c, Now(open, s), i)
    PROVE  /\ AllFit(c, open, Then(s, b, i)) /\ Then(s, b, i) \in Seq(S)
           /\ Now(open, Then(s, b, i)) = With(Now(open, s), b, i.creates)
<1>1. CASE b
  <2>1. Then(s, b, i) = s \o <<i>> /\ Fits(c, open \cup Made(s), i)
    BY <1>1 DEF Then, Now
  <2>2. AllFit(c, open, s \o <<i>>)
    BY <2>1, OneMoreFits
  <2>3. s \o <<i>> \in Seq(S) /\ Made(s \o <<i>>) = Made(s) \cup i.creates
    BY <2>1, <2>2, OneMoreFits
  <2> QED
    BY <1>1, <2>1, <2>2, <2>3 DEF Now, With
<1>2. CASE ~b
  <2>1. Then(s, b, i) = s
    BY <1>2, ConcatEmptySeq DEF Then
  <2> QED
    BY <1>2, <2>1 DEF With
<1> QED
  BY <1>1, <1>2

\* A transaction whose instructions fit is accepted.
LEMMA FittingIsAccepted ==
    ASSUME NEW c, NEW open, NEW s, AllFit(c, open, s)
    PROVE  Ix!Accepted(c, open, s)
BY DEF AllFit, Fits, Ix!Accepted

\* The instructions that create accounts, or fill one, outside the program.
LEMMA NativeInstructions ==
    ASSUME NEW c \in Clients
    PROVE  /\ \A x \in Sides : \A open : Ix!VaultAccounts[x] \cap open = {} =>
                 Fits(c, open, Ix!CreateVault[c][x])
           /\ \A x \in Sides : Ix!CreateVault[c][x].creates = Ix!VaultAccounts[x]
           /\ Ix!CreatePayerAta[c].creates = {Ix!Ata(c, "B")}
           /\ \A open : Ix!Ata(c, "B") \notin open => Fits(c, open, Ix!CreatePayerAta[c])
           /\ Ix!WrapSol[c].creates = {}
           /\ \A open : Ix!Ata(c, "B") \in open => Fits(c, open, Ix!WrapSol[c])
           /\ \A o, m : /\ Ix!CreateAta(c, o, m).creates = {Ix!Ata(o, m)}
                         /\ \A open : Ix!Ata(o, m) \notin open => Fits(c, open, Ix!CreateAta(c, o, m))
<1>1. \A creates, needs :
         LET i == Ix!Native(c, creates, needs)
         IN  /\ i.creates = creates
             /\ \A open : creates \cap open = {} /\ needs \subseteq open => Fits(c, open, i)
  BY DEF Ix!Native, Fits
<1>2. \A x \in Sides : Ix!CreateVault[c][x] = Ix!Native(c, Ix!VaultAccounts[x], {})
  BY DEF Ix!CreateVault, Sides
<1>3. \A o, m : Ix!CreateAta(c, o, m) = Ix!Native(c, {Ix!Ata(o, m)}, {})
  BY DEF Ix!CreateAta
<1>4. /\ Ix!CreatePayerAta[c] = Ix!Native(c, {Ix!Ata(c, "B")}, {})
      /\ Ix!WrapSol[c] = Ix!Native(c, {}, {Ix!Ata(c, "B")})
  BY DEF Ix!CreatePayerAta, Ix!CreateAta, Ix!WrapSol
<1>5. \A x \in Sides : \A open : Ix!VaultAccounts[x] \cap open = {} =>
         Fits(c, open, Ix!CreateVault[c][x])
  BY <1>1, <1>2
<1>6. \A x \in Sides : Ix!CreateVault[c][x].creates = Ix!VaultAccounts[x]
  BY <1>1, <1>2
<1> DEFINE a == Ix!Ata(c, "B")
<1>7. \A z, open : z \notin open => {z} \cap open = {} /\ {} \subseteq open
  OBVIOUS
<1>8. /\ Ix!CreatePayerAta[c].creates = {a} /\ Ix!WrapSol[c].creates = {}
      /\ \A open : a \notin open => Fits(c, open, Ix!CreatePayerAta[c])
      /\ \A open : a \in open => Fits(c, open, Ix!WrapSol[c])
  BY <1>1, <1>4, <1>7
<1>9. \A o, m : /\ Ix!CreateAta(c, o, m).creates = {Ix!Ata(o, m)}
                /\ \A open : Ix!Ata(o, m) \notin open => Fits(c, open, Ix!CreateAta(c, o, m))
  <2> SUFFICES ASSUME NEW o, NEW m
               PROVE  /\ Ix!CreateAta(c, o, m).creates = {Ix!Ata(o, m)}
                      /\ \A open : Ix!Ata(o, m) \notin open => Fits(c, open, Ix!CreateAta(c, o, m))
    OBVIOUS
  <2> DEFINE z == Ix!Ata(o, m)
             i == Ix!CreateAta(c, o, m)
  <2>1. i = Ix!Native(c, {z}, {})
    BY <1>3
  <2> HIDE DEF z, i
  <2>2. i.creates = {z} /\ \A open : z \notin open => Fits(c, open, i)
    BY <1>1, <1>7, <2>1
  <2> QED
    BY <2>2 DEF z, i
<1> QED
  BY <1>5, <1>6, <1>8, <1>9

\* The account that plays a role in an instruction of the program.
Account(own, r) == IF r \in DOMAIN own THEN own[r] ELSE <<r>>

Accounts(own, roles) == [r \in roles |-> Account(own, r)]

\* The roles of an instruction: all of them, those written and those that sign.
Written(op) == Ix!Idl!AmmInstructions[op].writable
Named(op) == Written(op) \cup Ix!Idl!AmmInstructions[op].readonly
Signing(op) == Ix!Idl!AmmInstructions[op].signers

\* What an instruction of the program creates, needs and asks for, by roles.
LEMMA ProgramInstruction ==
    ASSUME NEW op, NEW own, Signing(op) \subseteq Named(op),
           Ix!CreatedRoles(op) \cup Ix!ChangedRoles(op) \subseteq Written(op)
    PROVE  LET i == Ix!Bound(op, own) IN
           /\ i.creates = {Account(own, r) : r \in Ix!CreatedRoles(op)}
           /\ i.undeclared = {}
           /\ i.signers = {Account(own, r) : r \in Signing(op)}
           /\ \A a \in i.needs : a \notin i.creates /\ \E r \in Named(op) : a = Account(own, r)
           /\ i.right = Ix!RightAccounts(op, Accounts(own, Named(op)))
<1> DEFINE acc == Accounts(own, Named(op))
           i == Ix!Bound(op, own)
           ix == Ix!Idl!Bound(op, own)
           creates == {ix.acc[r] : r \in Ix!CreatedRoles(op)}
           changes == creates \cup {ix.acc[r] : r \in Ix!ChangedRoles(op)}
<1>1. /\ ix.acc = acc /\ ix.writable = {acc[r] : r \in Written(op)}
      /\ ix.signers = {acc[r] : r \in Signing(op)}
  BY DEF Ix!Idl!Bound, Ix!Idl!Roles, Account, Accounts, Named, Written, Signing
<1>2. /\ i.creates = creates /\ i.needs = Ix!Range(ix.acc) \ creates
      /\ i.undeclared = changes \ ix.writable /\ i.signers = ix.signers
      /\ i.right = Ix!RightAccounts(op, ix.acc)
  BY DEF Ix!Bound
<1> HIDE DEF i, ix
<1>3. i.creates = {Account(own, r) : r \in Ix!CreatedRoles(op)}
  BY <1>1, <1>2 DEF Accounts, Named
<1>4. i.undeclared = {}
  BY <1>1, <1>2 DEF Accounts, Named
<1>5. i.signers = {Account(own, r) : r \in Signing(op)}
  BY <1>1, <1>2 DEF Accounts
<1>6. \A a \in i.needs : a \notin i.creates /\ \E r \in Named(op) : a = Account(own, r)
  <2>1. \A a \in Ix!Range(acc) : \E r \in Named(op) : a = Account(own, r)
    BY DEF Ix!Range, Accounts
  <2> HIDE DEF acc, creates
  <2> QED
    BY <1>1, <1>2, <2>1
<1>7. i.right = Ix!RightAccounts(op, acc)
  BY <1>1, <1>2
<1> QED
  BY <1>3, <1>4, <1>5, <1>6, <1>7 DEF i

\* Whichever instruction creates the pool, it creates the same accounts, and needs those
\* that every launch finds, the vaults and the payer's account for token B.
Created == {"pool", "lpMint", "aVaultLp", "bVaultLp", "protocolTokenAFee", "protocolTokenBFee",
            "mintMetadata"}

LEMMA CreationRoles ==
    ASSUME NEW op \in Ix!Creations
    PROVE  /\ Ix!CreatedRoles(op) = Created \cup {"payerPoolLp"}
           /\ Ix!ChangedRoles(op) = Ix!Idl!VaultRoles \cup {"payer", "payerTokenA", "payerTokenB"}
           /\ \E readonly \in SUBSET (Ix!Idl!Mints \cup Ix!Idl!CreationPrograms \cup {"config", "feeOwner"}) :
                 Named(op) = Ix!Idl!PoolCreation \cup readonly
           /\ Written(op) = Ix!Idl!PoolCreation /\ Signing(op) = {"payer"}
<1>0. op # "createLockEscrow" /\ op # "lock" /\ op # "swap"
  BY DEF Ix!Creations
<1>1. Ix!CreatedRoles(op) = Created \cup {"payerPoolLp"}
  <2>1. Ix!CreatedRoles(op) = {"pool", "lpMint", "aVaultLp", "bVaultLp", "payerPoolLp",
                              "protocolTokenAFee", "protocolTokenBFee", "mintMetadata"}
    BY <1>0, Zenon DEF Ix!CreatedRoles
  <2> QED
    BY <2>1 DEF Created
<1>2. Ix!ChangedRoles(op) = Ix!Idl!VaultRoles \cup {"payer", "payerTokenA", "payerTokenB"}
  BY <1>0, Zenon DEF Ix!ChangedRoles
<1> DEFINE Readonly == SUBSET (Ix!Idl!Mints \cup Ix!Idl!CreationPrograms \cup {"config", "feeOwner"})
           F(x) == Ix!Idl!Mints \cup {x} \cup Ix!Idl!CreationPrograms
<1>3. F("config") \in Readonly /\ F("feeOwner") \in Readonly
  OBVIOUS
<1>4. \/ Ix!Idl!AmmInstructions[op] = Ix!Idl!Instruction(Ix!Idl!PoolCreation, F("config"), {"payer"})
      \/ Ix!Idl!AmmInstructions[op] = Ix!Idl!Instruction(Ix!Idl!PoolCreation, F("feeOwner"), {"payer"})
  BY DEF Ix!Creations, Ix!Idl!AmmInstructions, Ix!Idl!InitializeWithConfig,
         Ix!Idl!InitializeWithConfig2, Ix!Idl!InitializeWithFeeTier
<1> HIDE DEF Readonly, F
<1>5. \E readonly \in Readonly :
         Ix!Idl!AmmInstructions[op] = Ix!Idl!Instruction(Ix!Idl!PoolCreation, readonly, {"payer"})
  BY <1>3, <1>4
<1>6. /\ \E readonly \in Readonly : Named(op) = Ix!Idl!PoolCreation \cup readonly
      /\ Written(op) = Ix!Idl!PoolCreation /\ Signing(op) = {"payer"}
  BY <1>5 DEF Named, Written, Signing, Ix!Idl!Instruction
<1> QED
  BY <1>1, <1>2, <1>6 DEF Readonly

\* The accounts of the payer that a creation names.
LEMMA PayerAccounts ==
    ASSUME NEW c \in Clients
    PROVE  /\ DOMAIN Ix!PayerRoles(c) = {"payerTokenA", "payerTokenB", "payerPoolLp", "payer"}
           /\ Account(Ix!PayerRoles(c), "payerTokenA") = Ix!Ata(c, "A")
           /\ Account(Ix!PayerRoles(c), "payerTokenB") = Ix!Ata(c, "B")
           /\ Account(Ix!PayerRoles(c), "payerPoolLp") = Ix!Ata(c, "LP")
           /\ Account(Ix!PayerRoles(c), "payer") = c
           /\ \A r : r \notin {"payerTokenA", "payerTokenB", "payerPoolLp", "payer"} =>
                 Account(Ix!PayerRoles(c), r) = <<r>>
BY DEF Ix!PayerRoles, Account

LEMMA CreationFits ==
    ASSUME NEW c \in Clients, NEW op \in Ix!Creations
    PROVE  LET i == Ix!Bound(op, Ix!PayerRoles(c)) IN
           /\ i.creates = {<<r>> : r \in Created} \cup {Ix!Ata(c, "LP")}
           /\ \A open : /\ Ix!AlwaysOpen[c] \cup Ix!VaultAccounts["A"] \cup Ix!VaultAccounts["B"]
                              \cup {Ix!Ata(c, "B")} \subseteq open
                        /\ i.creates \cap open = {}
                        => Fits(c, open, i)
<1> DEFINE own == Ix!PayerRoles(c)
           i == Ix!Bound(op, own)
           W == Ix!Idl!PoolCreation
<1>1. PICK R \in SUBSET (Ix!Idl!Mints \cup Ix!Idl!CreationPrograms \cup {"config", "feeOwner"}) :
          Named(op) = W \cup R
  BY CreationRoles
<1>2. /\ Ix!CreatedRoles(op) \cup Ix!ChangedRoles(op) \subseteq Written(op)
      /\ Signing(op) = {"payer"} /\ Signing(op) \subseteq Named(op)
  BY <1>1, CreationRoles DEF Ix!Idl!PoolCreation, Ix!Idl!VaultRoles, Created
<1> DEFINE acc == Accounts(own, Named(op))
<1>3. /\ i.creates = {Account(own, r) : r \in Ix!CreatedRoles(op)}
      /\ i.undeclared = {}
      /\ i.signers = {Account(own, r) : r \in {"payer"}}
      /\ \A a \in i.needs : a \notin i.creates /\ \E r \in Named(op) : a = Account(own, r)
      /\ i.right = Ix!RightAccounts(op, acc)
  BY <1>2, ProgramInstruction
<1> HIDE DEF i
<1>4. i.signers = {c}
  BY <1>3, PayerAccounts
<1>5. i.creates = {<<r>> : r \in Created} \cup {Ix!Ata(c, "LP")}
  <2> HIDE DEF own
  <2>1. i.creates = {Account(own, r) : r \in Created} \cup {Account(own, "payerPoolLp")}
    BY <1>3, CreationRoles
  <2>2. \A r \in Created : Account(own, r) = <<r>>
    BY PayerAccounts DEF Created, own
  <2> QED
    BY <2>1, <2>2, PayerAccounts DEF own
<1>6. i.right
  <2>1. /\ acc.payerTokenA = Ix!Ata(c, "A") /\ acc.payerTokenB = Ix!Ata(c, "B")
        /\ acc.payerPoolLp = Ix!Ata(c, "LP") /\ acc.payer = c
    <3>1. {"payerTokenA", "payerTokenB", "payerPoolLp", "payer"} \subseteq Named(op)
      BY <1>1 DEF Ix!Idl!PoolCreation
    <3> HIDE DEF own
    <3> QED
      BY <3>1, PayerAccounts DEF own, Accounts
  <2> HIDE DEF acc
  <2>2. acc.payerTokenA[3] = "A" /\ acc.payerTokenB[3] = "B"
    BY <2>1 DEF Ix!Ata
  <2>3. Ix!RightAccounts(op, acc)
           = (acc.payerTokenA[3] = "A" /\ acc.payerTokenB[3] = "B" /\ acc.payerPoolLp = Ix!Ata(acc.payer, "LP"))
    <3>1. op # "createLockEscrow" /\ op # "lock" /\ op # "swap"
      BY DEF Ix!Creations
    <3> QED
      BY <3>1, Zenon DEF Ix!RightAccounts
  <2>4. Ix!RightAccounts(op, acc)
    BY <2>1, <2>2, <2>3
  <2> QED
    BY <1>3, <2>4
<1>7. ASSUME NEW open, Ix!AlwaysOpen[c] \cup Ix!VaultAccounts["A"] \cup Ix!VaultAccounts["B"]
                          \cup {Ix!Ata(c, "B")} \subseteq open
      PROVE  i.needs \subseteq open
  <2> SUFFICES ASSUME NEW a \in i.needs PROVE a \in open
    OBVIOUS
  <2>1. PICK r \in W \cup R : a = Account(own, r)
    BY <1>1, <1>3
  <2>2. a \notin i.creates
    BY <1>3
  <2>3. /\ c \in open /\ Ix!Ata(c, "A") \in open /\ Ix!Ata(c, "B") \in open
        /\ \A x \in Ix!Idl!Mints \cup Ix!Idl!CreationPrograms \cup {"config", "feeOwner"} : <<x>> \in open
        /\ \A x \in {"aVault", "aTokenVault", "aVaultLpMint", "bVault", "bTokenVault", "bVaultLpMint"} :
              <<x>> \in open
    BY <1>7 DEF Ix!AlwaysOpen, Ix!VaultAccounts
  <2>4. CASE r \in {"payerTokenA", "payerTokenB", "payerPoolLp", "payer"}
    BY <1>5, <2>1, <2>2, <2>3, <2>4, PayerAccounts
  <2>5. CASE r \notin {"payerTokenA", "payerTokenB", "payerPoolLp", "payer"}
    <3>1. a = <<r>>
      BY <2>1, <2>5, PayerAccounts
    <3>2. r \notin Created
      BY <1>5, <2>2, <3>1
    <3>3. r \in {"aVault", "aTokenVault", "aVaultLpMint", "bVault", "bTokenVault", "bVaultLpMint"}
             \cup (Ix!Idl!Mints \cup Ix!Idl!CreationPrograms \cup {"config", "feeOwner"})
      BY <2>5, <3>2 DEF Ix!Idl!PoolCreation, Ix!Idl!VaultRoles, Created
    <3> QED
      BY <2>3, <3>1, <3>3
  <2> QED
    BY <2>4, <2>5
<1> QED
  BY <1>3, <1>4, <1>5, <1>6, <1>7 DEF Fits, i

\* The instructions that lock the LP tokens, and the swap.
LEMMA EscrowFits ==
    ASSUME NEW c \in Clients
    PROVE  LET i == Ix!CreateLockEscrow(c) IN
           /\ i.creates = {Ix!Escrow(c)}
           /\ \A open : {c, <<"pool">>, <<"lpMint">>, <<"systemProgram">>} \subseteq open
                        /\ Ix!Escrow(c) \notin open => Fits(c, open, i)
<1> DEFINE op == "createLockEscrow"
           own == [lockEscrow |-> Ix!Escrow(c), owner |-> c, payer |-> c]
           i == Ix!CreateLockEscrow(c)
           acc == Accounts(own, Named(op))
<1>1. i = Ix!Bound(op, own)
  BY DEF Ix!CreateLockEscrow
<1>2. /\ Written(op) = {"lockEscrow", "payer"} /\ Signing(op) = {"payer"}
      /\ Named(op) = {"lockEscrow", "payer", "pool", "owner", "lpMint", "systemProgram"}
  BY DEF Written, Named, Signing, Ix!Idl!AmmInstructions, Ix!Idl!CreateLockEscrow, Ix!Idl!Instruction
<1>3. op \notin Ix!Creations
  BY DEF Ix!Creations
<1>4. /\ Ix!CreatedRoles(op) = {"lockEscrow"} /\ Ix!ChangedRoles(op) = {"payer"}
      /\ Ix!RightAccounts(op, acc) = (acc.lockEscrow = Ix!Escrow(acc.owner))
  BY <1>3, Zenon DEF Ix!CreatedRoles, Ix!ChangedRoles, Ix!RightAccounts
<1>5. /\ Account(own, "lockEscrow") = Ix!Escrow(c) /\ Account(own, "owner") = c
      /\ Account(own, "payer") = c
      /\ \A r \in {"pool", "lpMint", "systemProgram"} : Account(own, r) = <<r>>
  BY DEF Account
<1>6. acc.lockEscrow = Ix!Escrow(c) /\ acc.owner = c
  BY <1>2, <1>5 DEF Accounts
<1> HIDE DEF i, own
<1>7. /\ i.creates = {Account(own, r) : r \in Ix!CreatedRoles(op)}
      /\ i.undeclared = {}
      /\ i.signers = {Account(own, r) : r \in Signing(op)}
      /\ \A a \in i.needs : a \notin i.creates /\ \E r \in Named(op) : a = Account(own, r)
      /\ i.right = Ix!RightAccounts(op, acc)
  BY <1>1, <1>2, <1>4, ProgramInstruction
<1>8. i.creates = {Ix!Escrow(c)} /\ i.signers = {c} /\ i.right
  <2>1. Ix!RightAccounts(op, acc)
    BY <1>4, <1>6
  <2>2. i.creates = {Ix!Escrow(c)}
    BY <1>4, <1>5, <1>7
  <2>3. i.signers = {c}
    BY <1>2, <1>5, <1>7
  <2> QED
    BY <1>7, <2>1, <2>2, <2>3
<1>9. \A a \in i.needs : a \in {c, <<"pool">>, <<"lpMint">>, <<"systemProgram">>}
  BY <1>2, <1>5, <1>7, <1>8
<1> QED
  BY <1>7, <1>8, <1>9 DEF Fits, i

LEMMA LockFits ==
    ASSUME NEW c \in Clients
    PROVE  LET i == Ix!Lock(c) IN
           /\ i.creates = {}
           /\ \A open : {<<r>> : r \in {"pool", "lpMint", "tokenProgram"} \cup Ix!Idl!VaultRoles}
                           \cup {c, Ix!Escrow(c), Ix!Ata(c, "LP"), Ix!Ata(Ix!Escrow(c), "LP")} \subseteq open
                        => Fits(c, open, i)
<1> DEFINE op == "lock"
           own == [lockEscrow |-> Ix!Escrow(c), owner |-> c, sourceTokens |-> Ix!Ata(c, "LP"),
                   escrowVault |-> Ix!Ata(Ix!Escrow(c), "LP")]
           mine == {"lockEscrow", "owner", "sourceTokens", "escrowVault"}
           rest == {"pool", "lpMint", "tokenProgram"} \cup Ix!Idl!VaultRoles
           i == Ix!Lock(c)
           acc == Accounts(own, Named(op))
<1>1. i = Ix!Bound(op, own)
  BY DEF Ix!Lock
<1>2. /\ Written(op) = mine \cup {"pool"} /\ Signing(op) = {"owner"}
      /\ mine \subseteq Named(op) /\ Named(op) \subseteq mine \cup rest
  BY DEF Written, Named, Signing, Ix!Idl!AmmInstructions, Ix!Idl!Lock, Ix!Idl!Instruction
<1>3. op \notin Ix!Creations
  BY DEF Ix!Creations
<1>4. /\ Ix!CreatedRoles(op) = {} /\ Ix!ChangedRoles(op) = {"lockEscrow", "sourceTokens", "escrowVault"}
      /\ Ix!RightAccounts(op, acc)
           = (/\ acc.lockEscrow = Ix!Escrow(acc.owner)
              /\ acc.sourceTokens = Ix!Ata(acc.owner, "LP")
              /\ acc.escrowVault = Ix!Ata(acc.lockEscrow, "LP"))
  BY <1>3, Zenon DEF Ix!CreatedRoles, Ix!ChangedRoles, Ix!RightAccounts
<1>5. /\ Account(own, "lockEscrow") = Ix!Escrow(c) /\ Account(own, "owner") = c
      /\ Account(own, "sourceTokens") = Ix!Ata(c, "LP")
      /\ Account(own, "escrowVault") = Ix!Ata(Ix!Escrow(c), "LP")
      /\ \A r \in rest : Account(own, r) = <<r>>
  BY DEF Account, Ix!Idl!VaultRoles
<1>6. /\ acc.lockEscrow = Ix!Escrow(c) /\ acc.owner = c
      /\ acc.sourceTokens = Ix!Ata(c, "LP") /\ acc.escrowVault = Ix!Ata(Ix!Escrow(c), "LP")
  BY <1>2, <1>5 DEF Accounts
<1> HIDE DEF i, own, rest
<1>7. /\ i.creates = {Account(own, r) : r \in Ix!CreatedRoles(op)}
      /\ i.undeclared = {}
      /\ i.signers = {Account(own, r) : r \in Signing(op)}
      /\ \A a \in i.needs : a \notin i.creates /\ \E r \in Named(op) : a = Account(own, r)
      /\ i.right = Ix!RightAccounts(op, acc)
  BY <1>1, <1>2, <1>4, ProgramInstruction
<1>8. i.creates = {} /\ i.signers = {c} /\ i.right
  <2>1. Ix!RightAccounts(op, acc)
    BY <1>4, <1>6
  <2>2. i.creates = {}
    BY <1>4, <1>7
  <2>3. i.signers = {c}
    BY <1>2, <1>5, <1>7
  <2> QED
    BY <1>7, <2>1, <2>2, <2>3
<1>9. \A a \in i.needs : \/ \E r \in rest : a = <<r>>
                         \/ a \in {c, Ix!Escrow(c), Ix!Ata(c, "LP"), Ix!Ata(Ix!Escrow(c), "LP")}
  <2> HIDE DEF acc
  <2> SUFFICES ASSUME NEW a \in i.needs
               PROVE  \/ \E r \in rest : a = <<r>>
                      \/ a \in {c, Ix!Escrow(c), Ix!Ata(c, "LP"), Ix!Ata(Ix!Escrow(c), "LP")}
    OBVIOUS
  <2>1. PICK r \in mine \cup rest : a = Account(own, r)
    BY <1>2, <1>7
  <2> QED
    BY <1>5, <2>1
<1> QED
  BY <1>7, <1>8, <1>9 DEF Fits, i, rest

LEMMA SwapFits ==
    ASSUME NEW c \in Clients
    PROVE  LET i == Ix!SwapInstruction[c] IN
           /\ i.creates = {}
           /\ \A open : {<<r>> : r \in {"pool", "protocolTokenBFee"} \cup Ix!Idl!Programs \cup Ix!Idl!VaultRoles}
                           \cup {c, Ix!Ata(c, "A"), Ix!Ata(c, "B")} \subseteq open
                        => Fits(c, open, i)
<1> DEFINE op == "swap"
           own == [userSourceToken |-> Ix!Ata(c, "B"), userDestinationToken |-> Ix!Ata(c, "A"),
                   protocolTokenFee |-> <<"protocolTokenBFee">>, user |-> c]
           mine == {"userSourceToken", "userDestinationToken", "protocolTokenFee", "user"}
           rest == {"pool"} \cup Ix!Idl!Programs \cup Ix!Idl!VaultRoles
           i == Ix!SwapInstruction[c]
           acc == Accounts(own, Named(op))
           fee == [A |-> "protocolTokenAFee", B |-> "protocolTokenBFee"]
<1>1. i = Ix!Bound(op, own)
  BY DEF Ix!SwapInstruction
<1>2. /\ Written(op) = {"pool", "userSourceToken", "userDestinationToken", "protocolTokenFee"} \cup Ix!Idl!VaultRoles
      /\ Signing(op) = {"user"} /\ mine \subseteq Named(op) /\ Named(op) \subseteq mine \cup rest
  BY DEF Written, Named, Signing, Ix!Idl!AmmInstructions, Ix!Idl!Swap, Ix!Idl!Instruction
<1>3. op \notin Ix!Creations
  BY DEF Ix!Creations
<1>4. /\ Ix!CreatedRoles(op) = {}
      /\ Ix!ChangedRoles(op) = Ix!Idl!VaultRoles
                                \cup {"userSourceToken", "userDestinationToken", "protocolTokenFee"}
      /\ Ix!RightAccounts(op, acc)
           = (/\ acc.userSourceToken[3] # acc.userDestinationToken[3]
              /\ acc.protocolTokenFee = <<fee[acc.userSourceToken[3]]>>)
  BY <1>3, Zenon DEF Ix!CreatedRoles, Ix!ChangedRoles, Ix!RightAccounts
<1>5. /\ Account(own, "userSourceToken") = Ix!Ata(c, "B") /\ Account(own, "user") = c
      /\ Account(own, "userDestinationToken") = Ix!Ata(c, "A")
      /\ Account(own, "protocolTokenFee") = <<"protocolTokenBFee">>
      /\ \A r \in rest : Account(own, r) = <<r>>
  BY DEF Account, Ix!Idl!VaultRoles, Ix!Idl!Programs
<1>6. /\ acc.userSourceToken = Ix!Ata(c, "B") /\ acc.userDestinationToken = Ix!Ata(c, "A")
      /\ acc.protocolTokenFee = <<"protocolTokenBFee">>
  BY <1>2, <1>5 DEF Accounts
<1>7. Ix!RightAccounts(op, acc)
  <2> HIDE DEF acc
  <2>1. acc.userSourceToken[3] = "B" /\ acc.userDestinationToken[3] = "A"
    BY <1>6 DEF Ix!Ata
  <2>2. fee[acc.userSourceToken[3]] = "protocolTokenBFee"
    BY <2>1
  <2> HIDE DEF fee
  <2> QED
    BY <1>4, <1>6, <2>1, <2>2
<1> HIDE DEF i, own, rest, acc
<1>8. /\ i.creates = {Account(own, r) : r \in Ix!CreatedRoles(op)}
      /\ i.undeclared = {}
      /\ i.signers = {Account(own, r) : r \in Signing(op)}
      /\ \A a \in i.needs : a \notin i.creates /\ \E r \in Named(op) : a = Account(own, r)
      /\ i.right = Ix!RightAccounts(op, acc)
  BY <1>1, <1>2, <1>4, ProgramInstruction DEF acc
<1>9. i.creates = {} /\ i.signers = {c}
  <2>1. i.creates = {}
    BY <1>4, <1>8
  <2>2. i.signers = {c}
    BY <1>2, <1>5, <1>8
  <2> QED
    BY <2>1, <2>2
<1>10. \A a \in i.needs : \/ \E r \in rest : a = <<r>>
                          \/ a \in {c, Ix!Ata(c, "A"), Ix!Ata(c, "B"), <<"protocolTokenBFee">>}
  <2> SUFFICES ASSUME NEW a \in i.needs
               PROVE  \/ \E r \in rest : a = <<r>>
                      \/ a \in {c, Ix!Ata(c, "A"), Ix!Ata(c, "B"), <<"protocolTokenBFee">>}
    OBVIOUS
  <2>1. PICK r \in mine \cup rest : a = Account(own, r)
    BY <1>2, <1>8
  <2> QED
    BY <1>5, <2>1
<1> QED
  BY <1>7, <1>8, <1>9, <1>10 DEF Fits, i, rest

(***************************************************************************)
(* Which accounts there are.                                               *)
(***************************************************************************)

\* The instruction that an attempt launches with is one of those that create a pool.
LEMMA InitializeFits ==
    ASSUME Kinds, NEW c \in Clients
    PROVE  /\ Initialize(c).creates = {<<r>> : r \in Created} \cup {Ix!Ata(c, "LP")}
           /\ \A open : /\ Ix!AlwaysOpen[c] \cup Ix!VaultAccounts["A"] \cup Ix!VaultAccounts["B"]
                              \cup {Ix!Ata(c, "B")} \subseteq open
                        /\ Initialize(c).creates \cap open = {}
                        => Fits(c, open, Initialize(c))
<1>1. option[c].version \in {"config", "config2", "single"}
  BY LaunchAssumption DEF Kinds, Versions
<1>2. PICK op \in Ix!Creations : Initialize(c) = Ix!Bound(op, Ix!PayerRoles(c))
  <2>1. \/ Initialize(c) = Ix!InitializeConfig[c]
        \/ Initialize(c) = Ix!InitializeConfig2[c]
        \/ Initialize(c) = Ix!InitializeFeeTier[c]
    BY <1>1 DEF Initialize
  <2> QED
    BY <2>1 DEF Ix!InitializeConfig, Ix!InitializeConfig2, Ix!InitializeFeeTier, Ix!Creations
<1> QED
  BY <1>2, CreationFits

\* What every launch finds, with both vaults and a token account for B.
Base(c) == Ix!AlwaysOpen[c] \cup Ix!VaultAccounts["A"] \cup Ix!VaultAccounts["B"]
           \cup {Ix!Ata(c, "B")}
PoolOf(c) == {<<r>> : r \in Created} \cup {Ix!Ata(c, "LP")}

LEMMA PoolAccountsAre ==
    ASSUME NEW c \in Clients
    PROVE  Ix!PoolAccounts[c] = PoolOf(c)
<1>1. "initializePermissionlessPoolWithFeeTier" \in Ix!Creations
  BY DEF Ix!Creations
<1>2. Ix!PoolAccounts[c]
         = Ix!Bound("initializePermissionlessPoolWithFeeTier", Ix!PayerRoles(c)).creates
  BY DEF Ix!PoolAccounts, Ix!InitializeFeeTier
<1> QED
  BY <1>1, <1>2, CreationFits DEF PoolOf

\* The accounts that a launch creates are different from one another and from the rest.
LEMMA PoolIsNew ==
    ASSUME NEW c \in Clients
    PROVE  PoolOf(c) \cap Base(c) = {}
<1> SUFFICES ASSUME NEW a \in PoolOf(c), a \in Base(c) PROVE FALSE
  OBVIOUS
<1>1. \A r \in Created : c # <<r>>
  BY LaunchAssumption DEF Ix!NoWallets, Created, Ix!Idl!PoolCreation, Ix!Idl!VaultRoles
<1>2. c # Ix!Ata(c, "LP")
  BY LaunchAssumption DEF Ix!NoWallets
<1>3. \/ a \in {c, Ix!Ata(c, "A"), Ix!Ata(c, "B")}
      \/ \E r \in {"aVault", "aTokenVault", "aVaultLpMint", "bVault", "bTokenVault", "bVaultLpMint",
                    "config", "feeOwner"} \cup Ix!Idl!Mints \cup Ix!Idl!CreationPrograms : a = <<r>>
  BY DEF Base, Ix!AlwaysOpen, Ix!VaultAccounts
<1>4. CASE a = Ix!Ata(c, "LP")
  BY <1>2, <1>3, <1>4 DEF Ix!Ata
<1>5. CASE \E r \in Created : a = <<r>>
  <2>1. PICK r \in Created : a = <<r>>
    BY <1>5
  <2>2. a # c /\ a # Ix!Ata(c, "A") /\ a # Ix!Ata(c, "B")
    BY <1>1, <2>1 DEF Ix!Ata
  <2>3. PICK q \in {"aVault", "aTokenVault", "aVaultLpMint", "bVault", "bTokenVault", "bVaultLpMint",
                    "config", "feeOwner"} \cup Ix!Idl!Mints \cup Ix!Idl!CreationPrograms : a = <<q>>
    BY <1>3, <2>2
  <2>4. q = r
    BY <2>1, <2>3
  <2> QED
    BY <2>3, <2>4 DEF Created, Ix!Idl!Mints, Ix!Idl!CreationPrograms, Ix!Idl!Programs
<1> QED
  BY <1>4, <1>5 DEF PoolOf

LEMMA EscrowIsNew ==
    ASSUME NEW c \in Clients
    PROVE  /\ Ix!Escrow(c) \notin Base(c) \cup PoolOf(c)
           /\ Ix!Ata(Ix!Escrow(c), "LP") \notin Base(c) \cup PoolOf(c) \cup {Ix!Escrow(c)}
<1>1. c # Ix!Escrow(c) /\ c # Ix!Ata(Ix!Escrow(c), "LP")
  BY LaunchAssumption DEF Ix!NoWallets
<1>2. \A a \in Base(c) \cup PoolOf(c) :
         a \in {c, Ix!Ata(c, "A"), Ix!Ata(c, "B"), Ix!Ata(c, "LP")} \/ \E r : a = <<r>>
  BY DEF Base, PoolOf, Ix!AlwaysOpen, Ix!VaultAccounts
<1>3. \A r : Ix!Escrow(c) # <<r>> /\ Ix!Ata(Ix!Escrow(c), "LP") # <<r>>
  BY DEF Ix!Escrow, Ix!Ata
<1>4. /\ \A m : Ix!Escrow(c) # Ix!Ata(c, m)
      /\ \A m : Ix!Ata(Ix!Escrow(c), "LP") # Ix!Ata(c, m)
      /\ Ix!Ata(Ix!Escrow(c), "LP") # Ix!Escrow(c)
  BY <1>1 DEF Ix!Escrow, Ix!Ata
<1>5. Ix!Escrow(c) \notin Base(c) \cup PoolOf(c)
  BY <1>1, <1>2, <1>3, <1>4
<1>6. Ix!Ata(Ix!Escrow(c), "LP") \notin Base(c) \cup PoolOf(c)
  BY <1>1, <1>2, <1>3, <1>4
<1> QED
  BY <1>4, <1>5, <1>6

\* What a transaction of c can find.
LEMMA OpenAccounts ==
    ASSUME LaunchInv, NEW c \in Clients
    PROVE  /\ Ix!AlwaysOpen[c] \subseteq Open(c)
           /\ \A x \in vaults : Ix!VaultAccounts[x] \subseteq Open(c)
           /\ c \in ata => Ix!Ata(c, "B") \in Open(c)
           /\ c \notin ata => Ix!Ata(c, "B") \notin Open(c)
           /\ PoolCreator(c) = c => PoolOf(c) \subseteq Open(c)
           /\ PoolCreator(c) = None => Open(c) \subseteq Base(c)
           /\ \A x \in Sides \ vaults : Ix!VaultAccounts[x] \cap Open(c) = {}
<1> DEFINE creator == PoolCreator(c)
           E1 == Ix!AlwaysOpen[c]
           E2 == UNION {Ix!VaultAccounts[x] : x \in vaults}
           E3 == IF c \in ata THEN {Ix!Ata(c, "B")} ELSE {}
           E4 == IF creator = None THEN {} ELSE Ix!PoolAccounts[creator]
           E5 == IF lp[PoolAddress(c)] = "locked" THEN Ix!EscrowAccounts[creator] ELSE {}
<1>1. Open(c) = E1 \cup E2 \cup E3 \cup E4 \cup E5
  BY DEF Open
<1>2. /\ creator \in Clients \cup {None} /\ (creator = None => lp[PoolAddress(c)] = "none")
      /\ vaults \subseteq Sides /\ None \notin Clients
  <2>1. PoolAddress(c) \in Addresses
    BY DEF PoolAddress, Addresses
  <2> QED
    BY <2>1, LaunchAssumption DEF LaunchInv, TypeOK, PoolCreator
<1>3. c \notin ata => Ix!Ata(c, "B") \notin Open(c)
  BY NoAtaFound DEF LaunchInv
<1>4. \A x \in Sides : Ix!VaultAccounts[x] \subseteq Base(c)
  BY DEF Sides, Base
<1>5. E1 \subseteq Base(c) /\ E3 \subseteq Base(c)
  BY DEF Base
<1> HIDE DEF creator, E1, E3
<1>6. E2 \subseteq Base(c) /\ \A x \in vaults : Ix!VaultAccounts[x] \subseteq E2
  <2>1. \A a \in E2 : \E x \in vaults : a \in Ix!VaultAccounts[x]
    OBVIOUS
  <2> QED
    BY <1>2, <1>4, <2>1
<1>7. creator = None => E4 = {} /\ E5 = {}
  BY <1>2
<1>8. creator = c => E4 = PoolOf(c)
  BY <1>2, PoolAccountsAre
<1>9. \A x \in Sides \ vaults : Ix!VaultAccounts[x] \cap Open(c) = {}
  <2> SUFFICES ASSUME NEW x \in Sides \ vaults, NEW a \in Ix!VaultAccounts[x], a \in Open(c)
               PROVE  FALSE
    OBVIOUS
  <2>1. /\ a \in {<<r>> : r \in {"aVault", "aTokenVault", "aVaultLpMint", "bVault", "bTokenVault", "bVaultLpMint"}}
        /\ \A y \in Sides \ {x} : a \notin Ix!VaultAccounts[y]
    BY DEF Sides, Ix!VaultAccounts
  <2>2. PICK r \in {"aVault", "aTokenVault", "aVaultLpMint", "bVault", "bTokenVault", "bVaultLpMint"} : a = <<r>>
    BY <2>1
  <2>3. a \notin E2
    BY <1>2, <2>1
  <2>4. /\ \A d, m : a # Ix!Ata(d, m) /\ a # Ix!Escrow(d)
    BY <2>2 DEF Ix!Ata, Ix!Escrow
  <2>5. a # c
    BY <2>2, LaunchAssumption DEF Ix!NoWallets, Ix!Idl!PoolCreation, Ix!Idl!VaultRoles
  <2>6. a \notin E1
    BY <2>2, <2>4, <2>5 DEF E1, Ix!AlwaysOpen, Ix!Idl!Mints, Ix!Idl!CreationPrograms, Ix!Idl!Programs
  <2>7. a \notin E3
    BY <2>4 DEF E3
  <2>8. a \notin E4
    <3>1. \A d : a \notin PoolOf(d)
      BY <2>2, <2>4 DEF PoolOf, Created
    <3> QED
      BY <1>2, <3>1, PoolAccountsAre
  <2>9. a \notin E5
    <3>1. \A d \in Clients : a \notin Ix!EscrowAccounts[d]
      BY <2>4 DEF Ix!EscrowAccounts
    <3> QED
      BY <1>2, <3>1
  <2> HIDE DEF E2, E4, E5
  <2> QED
    BY <1>1, <2>3, <2>6, <2>7, <2>8, <2>9
<1>10. c \in ata => Ix!Ata(c, "B") \in E3
  BY DEF E3
<1> HIDE DEF E2, E4, E5
<1>11. /\ E1 \subseteq Open(c) /\ (creator = None => Open(c) \subseteq Base(c))
       /\ \A x \in vaults : Ix!VaultAccounts[x] \subseteq Open(c)
       /\ creator = c => PoolOf(c) \subseteq Open(c)
       /\ c \in ata => Ix!Ata(c, "B") \in Open(c)
  <2>1. E1 \subseteq Open(c)
    BY <1>1
  <2>2. creator = None => Open(c) \subseteq Base(c)
    BY <1>1, <1>5, <1>6, <1>7
  <2>3. \A x \in vaults : Ix!VaultAccounts[x] \subseteq Open(c)
    BY <1>1, <1>6
  <2>4. creator = c => PoolOf(c) \subseteq Open(c)
    BY <1>1, <1>8
  <2>5. c \in ata => Ix!Ata(c, "B") \in Open(c)
    BY <1>1, <1>10
  <2> QED
    BY <2>1, <2>2, <2>3, <2>4, <2>5
<1> QED
  BY <1>3, <1>9, <1>11 DEF creator, E1

(***************************************************************************)
(* A transaction that fits what there is runs.                             *)
(***************************************************************************)

\* Two elements are one and another, three are two and another.
LEMMA TwoElements ==
    ASSUME NEW S, NEW l1 \in S, NEW l2 \in S
    PROVE  <<l1>> \o <<l2>> = <<l1, l2>>
<1> DEFINE e1 == <<l1>>
           p == <<l1, l2>>
           z == e1 \o <<l2>>
<1>1. e1 \in Seq(S)
  OBVIOUS
<1>2. Len(e1) = 1 /\ e1[1] = l1
  OBVIOUS
<1>3. p \in Seq(S) /\ Len(p) = 2 /\ p[1] = l1 /\ p[2] = l2
  OBVIOUS
<1> HIDE DEF e1, p
<1>4. /\ z \in Seq(S) /\ Len(z) = Len(e1) + 1 /\ z[Len(e1) + 1] = l2
      /\ \A j \in 1 .. Len(e1) : z[j] = e1[j]
  BY <1>1, LastElement
<1> HIDE DEF z
<1>5. Len(z) = 2 /\ z[1] = l1 /\ z[2] = l2
  BY <1>4, <1>2
<1>6. z = p
  BY <1>3, <1>4, <1>5, SeqEqual
<1> QED
  BY <1>6 DEF z, p, e1

LEMMA ThreeElements ==
    ASSUME NEW S, NEW l1 \in S, NEW l2 \in S, NEW l3 \in S
    PROVE  <<l1, l2>> \o <<l3>> = <<l1, l2, l3>>
<1> DEFINE p == <<l1, l2>>
           q == <<l1, l2, l3>>
           w == p \o <<l3>>
<1>1. p \in Seq(S)
  OBVIOUS
<1>2. Len(p) = 2 /\ p[1] = l1 /\ p[2] = l2
  OBVIOUS
<1>3. q \in Seq(S) /\ Len(q) = 3 /\ q[1] = l1 /\ q[2] = l2 /\ q[3] = l3
  OBVIOUS
<1> HIDE DEF p, q
<1>4. /\ w \in Seq(S) /\ Len(w) = Len(p) + 1 /\ w[Len(p) + 1] = l3
      /\ \A j \in 1 .. Len(p) : w[j] = p[j]
  BY <1>1, LastElement
<1> HIDE DEF w
<1>5. Len(w) = 3 /\ w[1] = l1 /\ w[2] = l2 /\ w[3] = l3
  BY <1>2, <1>4
<1>6. w = q
  BY <1>3, <1>4, <1>5, SeqEqual
<1> QED
  BY <1>6 DEF w, p, q

\* The instructions as additions, one by one.
LEMMA InstructionsOneByOne ==
    ASSUME NEW S, NEW s \in Seq(S), NEW l1 \in S, NEW l2 \in S, NEW l3 \in S, NEW b \in BOOLEAN
    PROVE  s \o (IF b THEN <<l1, l2, l3>> ELSE <<>>) = Then(Then(Then(s, b, l1), b, l2), b, l3)
<1> DEFINE e1 == <<l1>>
           e2 == <<l2>>
           e3 == <<l3>>
<1>1. e1 \in Seq(S) /\ e2 \in Seq(S) /\ e3 \in Seq(S)
  OBVIOUS
<1>2. <<l1, l2, l3>> = (e1 \o e2) \o e3
  <2>1. <<l1>> \o <<l2>> = <<l1, l2>>
    BY TwoElements
  <2>2. <<l1, l2>> \o <<l3>> = <<l1, l2, l3>>
    BY ThreeElements
  <2> QED
    BY <2>1, <2>2
<1> HIDE DEF e1, e2, e3
<1>3. s \o ((e1 \o e2) \o e3) = ((s \o e1) \o e2) \o e3
  <2>1. e1 \o e2 \in Seq(S)
    BY <1>1, ConcatProperties
  <2>2. s \o ((e1 \o e2) \o e3) = (s \o (e1 \o e2)) \o e3
    BY <1>1, <2>1, ConcatAssociative
  <2>3. s \o (e1 \o e2) = (s \o e1) \o e2
    BY <1>1, ConcatAssociative
  <2> QED
    BY <2>2, <2>3
<1>4. CASE b
  BY <1>2, <1>3, <1>4 DEF e1, e2, e3, Then
<1>5. CASE ~b
  BY <1>5, ConcatEmptySeq DEF Then
<1> QED
  BY <1>4, <1>5

\* A transaction is accepted if it creates the vaults that are missing, and the payer's token
\* account if there is none, before it needs them, if the pool it creates is not there and
\* the pool it swaps in is the payer's.
LEMMA TransactionRuns ==
    ASSUME LaunchInv, NEW c \in Clients, NEW t \in Transactions,
           t.vaults \cap vaults = {}, t.ata => c \notin ata,
           t.wrap > 0 => c \in ata \/ t.ata,
           t.pool => PoolCreator(c) = None /\ vaults \cup t.vaults = Sides /\ (c \in ata \/ t.ata),
           t.lock => t.pool,
           t.swap => ~t.pool /\ PoolCreator(c) = c /\ vaults = Sides /\ c \in ata
    PROVE  Ix!Accepted(c, Open(c), Instructions(c, t))
<1> DEFINE O == Open(c)
           S == {Ix!CreateVault[c]["A"], Ix!CreateVault[c]["B"], Ix!CreatePayerAta[c],
                 Ix!WrapSol[c], Initialize(c), Ix!CreateLockEscrow(c),
                 Ix!CreateAta(c, Ix!Escrow(c), "LP"), Ix!Lock(c), Ix!SwapInstruction[c]}
           b == Ix!Ata(c, "B")
           newA == "A" \in t.vaults
           newB == "B" \in t.vaults
           wraps == t.wrap > 0
           s0 == <<>>
           s1 == Then(s0, newA, Ix!CreateVault[c]["A"])
           s2 == Then(s1, newB, Ix!CreateVault[c]["B"])
           s3 == Then(s2, t.ata, Ix!CreatePayerAta[c])
           s4 == Then(s3, wraps, Ix!WrapSol[c])
           s5 == Then(s4, t.pool, Initialize(c))
           s6 == Then(s5, t.lock, Ix!CreateLockEscrow(c))
           s7 == Then(s6, t.lock, Ix!CreateAta(c, Ix!Escrow(c), "LP"))
           s8 == Then(s7, t.lock, Ix!Lock(c))
           s9 == Then(s8, t.swap, Ix!SwapInstruction[c])
           V(x) == Ix!VaultAccounts[x]
<1>1. /\ t.vaults \subseteq Sides /\ t.wrap \in Nat
      /\ t.ata \in BOOLEAN /\ t.pool \in BOOLEAN /\ t.lock \in BOOLEAN /\ t.swap \in BOOLEAN
      /\ vaults \subseteq Sides
  BY DEF Transactions, LaunchInv, TypeOK
<1>2. /\ Ix!CreateVault[c]["A"] \in S /\ Ix!CreateVault[c]["B"] \in S /\ Ix!CreatePayerAta[c] \in S
      /\ Ix!WrapSol[c] \in S /\ Initialize(c) \in S /\ Ix!CreateLockEscrow(c) \in S
      /\ Ix!CreateAta(c, Ix!Escrow(c), "LP") \in S /\ Ix!Lock(c) \in S /\ Ix!SwapInstruction[c] \in S
  OBVIOUS
<1>3. /\ Ix!AlwaysOpen[c] \subseteq O /\ \A x \in vaults : V(x) \subseteq O
      /\ c \in ata => b \in O
      /\ c \notin ata => b \notin O
      /\ PoolCreator(c) = c => PoolOf(c) \subseteq O
      /\ PoolCreator(c) = None => O \subseteq Base(c)
      /\ \A x \in Sides \ vaults : V(x) \cap O = {}
  BY OpenAccounts
<1>31. newA \in BOOLEAN /\ newB \in BOOLEAN /\ wraps \in BOOLEAN
  OBVIOUS
<1>32. (newA <=> "A" \in t.vaults) /\ (newB <=> "B" \in t.vaults) /\ (wraps <=> t.wrap > 0)
  OBVIOUS
<1> HIDE DEF S, O, newA, newB, wraps
<1>4. AllFit(c, O, s0) /\ s0 \in Seq(S) /\ Now(O, s0) = O
  BY NothingFits DEF Now
<1> HIDE DEF s0
<1>5. V("A") \cap V("B") = {} /\ b \notin V("A") /\ b \notin V("B")
  BY DEF Ix!VaultAccounts, Ix!Ata
<1> HIDE DEF b, V
<1>6. /\ AllFit(c, O, s1) /\ s1 \in Seq(S)
      /\ Now(O, s1) = With(O, newA, V("A"))
  <2>1. "A" \in t.vaults => V("A") \cap O = {}
    BY <1>1, <1>3 DEF Sides
  <2>2. "A" \in Sides
    BY DEF Sides
  <2>3. newA => Fits(c, Now(O, s0), Ix!CreateVault[c]["A"])
    BY <1>4, <1>32, <2>1, <2>2, NativeInstructions DEF V
  <2>4. Ix!CreateVault[c]["A"].creates = V("A")
    BY <2>2, NativeInstructions DEF V
  <2>5. AllFit(c, O, s1)
    BY <1>1, <1>31, <1>2, <1>4, <2>3, ThenFits
  <2>6. s1 \in Seq(S) /\ Now(O, s1) = With(Now(O, s0), newA, Ix!CreateVault[c]["A"].creates)
    BY <1>1, <1>31, <1>2, <1>4, <2>3, <2>5, ThenFits
  <2> HIDE DEF s1
  <2> QED
    BY <1>4, <2>4, <2>5, <2>6
<1> HIDE DEF s1
<1>7. /\ AllFit(c, O, s2) /\ s2 \in Seq(S)
      /\ Now(O, s2) = With(Now(O, s1), newB, V("B"))
  <2>1. "B" \in t.vaults => V("B") \cap Now(O, s1) = {}
    BY <1>1, <1>3, <1>5, <1>6 DEF Sides, With
  <2>2. "B" \in Sides
    BY DEF Sides
  <2>3. newB => Fits(c, Now(O, s1), Ix!CreateVault[c]["B"])
    BY <1>32, <2>1, <2>2, NativeInstructions DEF V
  <2>4. Ix!CreateVault[c]["B"].creates = V("B")
    BY <2>2, NativeInstructions DEF V
  <2>5. AllFit(c, O, s2)
    BY <1>1, <1>31, <1>2, <1>6, <2>3, ThenFits
  <2>6. s2 \in Seq(S) /\ Now(O, s2) = With(Now(O, s1), newB, Ix!CreateVault[c]["B"].creates)
    BY <1>1, <1>31, <1>2, <1>6, <2>3, <2>5, ThenFits
  <2> HIDE DEF s2
  <2> QED
    BY <2>4, <2>5, <2>6
<1> HIDE DEF s2
<1>8. /\ O \subseteq Now(O, s2) /\ (t.vaults = {} => Now(O, s2) = O)
      /\ b \in Now(O, s2) <=> b \in O
      /\ vaults \cup t.vaults = Sides => V("A") \subseteq Now(O, s2) /\ V("B") \subseteq Now(O, s2)
      /\ V("A") \subseteq Base(c) /\ V("B") \subseteq Base(c)
  BY <1>1, <1>3, <1>5, <1>6, <1>7, <1>32 DEF Sides, Base, V, With
<1>9. /\ AllFit(c, O, s3) /\ s3 \in Seq(S)
      /\ Now(O, s3) = With(Now(O, s2), t.ata, {b})
  <2>1. t.ata => Fits(c, Now(O, s2), Ix!CreatePayerAta[c])
    BY <1>3, <1>8, NativeInstructions DEF b
  <2>2. Ix!CreatePayerAta[c].creates = {b}
    BY NativeInstructions DEF b
  <2>3. AllFit(c, O, s3)
    BY <1>1, <1>31, <1>2, <1>7, <2>1, ThenFits
  <2>4. s3 \in Seq(S) /\ Now(O, s3) = With(Now(O, s2), t.ata, Ix!CreatePayerAta[c].creates)
    BY <1>1, <1>31, <1>2, <1>7, <2>1, <2>3, ThenFits
  <2> HIDE DEF s3
  <2> QED
    BY <2>2, <2>3, <2>4
<1> HIDE DEF s3
<1>10. c \in ata \/ t.ata => b \in Now(O, s3)
  BY <1>3, <1>8, <1>9 DEF With
<1>11. AllFit(c, O, s4) /\ s4 \in Seq(S) /\ Now(O, s4) = Now(O, s3)
  <2>1. wraps => Fits(c, Now(O, s3), Ix!WrapSol[c])
    BY <1>10, <1>32, NativeInstructions DEF b
  <2>2. Ix!WrapSol[c].creates = {}
    BY NativeInstructions
  <2>3. AllFit(c, O, s4)
    BY <1>1, <1>31, <1>2, <1>9, <2>1, ThenFits
  <2>4. s4 \in Seq(S) /\ Now(O, s4) = With(Now(O, s3), wraps, Ix!WrapSol[c].creates)
    BY <1>1, <1>31, <1>2, <1>9, <2>1, <2>3, ThenFits
  <2> HIDE DEF s4
  <2> QED
    BY <2>2, <2>3, <2>4 DEF With
<1> HIDE DEF s4
<1>12. t.pool => Now(O, s4) = Base(c)
  <2> SUFFICES ASSUME t.pool PROVE Now(O, s4) = Base(c)
    OBVIOUS
  <2>1. PoolCreator(c) = None /\ vaults \cup t.vaults = Sides /\ (c \in ata \/ t.ata)
    OBVIOUS
  <2>2. Now(O, s4) \subseteq Base(c)
    <3>1. O \subseteq Base(c) /\ b \in Base(c)
      BY <1>3, <2>1 DEF Base, b
    <3>2. Now(O, s2) \subseteq Base(c)
      BY <1>6, <1>7, <1>8, <3>1 DEF With
    <3> QED
      BY <1>9, <1>11, <3>1, <3>2 DEF With
  <2>3. Base(c) = Ix!AlwaysOpen[c] \cup V("A") \cup V("B") \cup {b}
    BY DEF Base, V, b
  <2>4. Now(O, s2) \subseteq Now(O, s4) /\ b \in Now(O, s4)
    BY <1>9, <1>10, <1>11, <2>1 DEF With
  <2> QED
    BY <1>3, <1>8, <2>1, <2>2, <2>3, <2>4
<1>13. /\ AllFit(c, O, s5) /\ s5 \in Seq(S)
       /\ Now(O, s5) = With(Now(O, s4), t.pool, PoolOf(c))
  <2>1. Kinds
    BY DEF LaunchInv
  <2>2. Initialize(c).creates = PoolOf(c)
    BY <2>1, InitializeFits DEF PoolOf
  <2>3. t.pool => Fits(c, Now(O, s4), Initialize(c))
    BY <1>12, <2>1, <2>2, InitializeFits, PoolIsNew DEF Base
  <2>4. AllFit(c, O, s5)
    BY <1>1, <1>31, <1>2, <1>11, <2>3, ThenFits
  <2>5. s5 \in Seq(S) /\ Now(O, s5) = With(Now(O, s4), t.pool, Initialize(c).creates)
    BY <1>1, <1>31, <1>2, <1>11, <2>3, <2>4, ThenFits
  <2> HIDE DEF s5
  <2> QED
    BY <2>2, <2>4, <2>5
<1> HIDE DEF s5
<1>14. /\ t.lock => Now(O, s5) = Base(c) \cup PoolOf(c)
       /\ {c, <<"systemProgram">>, <<"tokenProgram">>} \subseteq Base(c)
       /\ <<"pool">> \in PoolOf(c) /\ <<"lpMint">> \in PoolOf(c) /\ Ix!Ata(c, "LP") \in PoolOf(c)
  <2>1. t.lock => Now(O, s5) = Base(c) \cup PoolOf(c)
    BY <1>12, <1>13 DEF With
  <2>2. {c, <<"systemProgram">>, <<"tokenProgram">>} \subseteq Base(c)
    BY DEF Base, Ix!AlwaysOpen, Ix!Idl!CreationPrograms, Ix!Idl!Programs
  <2>3. <<"pool">> \in PoolOf(c) /\ <<"lpMint">> \in PoolOf(c) /\ Ix!Ata(c, "LP") \in PoolOf(c)
    BY DEF PoolOf, Created
  <2> QED
    BY <2>1, <2>2, <2>3
<1> DEFINE e == Ix!Escrow(c)
           v == Ix!Ata(Ix!Escrow(c), "LP")
<1>15. /\ e \notin Base(c) \cup PoolOf(c) /\ v \notin Base(c) \cup PoolOf(c) \cup {e}
  BY EscrowIsNew
<1> HIDE DEF e, v
<1>16. /\ AllFit(c, O, s6) /\ s6 \in Seq(S)
       /\ Now(O, s6) = With(Now(O, s5), t.lock, {e})
  <2>1. Ix!CreateLockEscrow(c).creates = {e}
    BY EscrowFits DEF e
  <2>2. t.lock => Fits(c, Now(O, s5), Ix!CreateLockEscrow(c))
    <3>1. t.lock => {c, <<"pool">>, <<"lpMint">>, <<"systemProgram">>} \subseteq Now(O, s5)
      BY <1>14
    <3> QED
      BY <1>14, <1>15, <3>1, EscrowFits DEF e
  <2>3. AllFit(c, O, s6)
    BY <1>1, <1>31, <1>2, <1>13, <2>2, ThenFits
  <2>4. s6 \in Seq(S) /\ Now(O, s6) = With(Now(O, s5), t.lock, Ix!CreateLockEscrow(c).creates)
    BY <1>1, <1>31, <1>2, <1>13, <2>2, <2>3, ThenFits
  <2> HIDE DEF s6
  <2> QED
    BY <2>1, <2>3, <2>4
<1> HIDE DEF s6
<1>17. /\ AllFit(c, O, s7) /\ s7 \in Seq(S)
       /\ Now(O, s7) = With(Now(O, s6), t.lock, {v})
  <2> DEFINE i == Ix!CreateAta(c, Ix!Escrow(c), "LP")
  <2>1. i.creates = {v} /\ \A open : v \notin open => Fits(c, open, i)
    BY NativeInstructions DEF v
  <2>2. t.lock => Fits(c, Now(O, s6), i)
    BY <1>14, <1>15, <1>16, <2>1 DEF With
  <2>3. AllFit(c, O, s7)
    BY <1>1, <1>31, <1>2, <1>16, <2>2, ThenFits
  <2>4. s7 \in Seq(S) /\ Now(O, s7) = With(Now(O, s6), t.lock, i.creates)
    BY <1>1, <1>31, <1>2, <1>16, <2>2, <2>3, ThenFits
  <2> HIDE DEF s7, i
  <2> QED
    BY <2>1, <2>3, <2>4
<1> HIDE DEF s7
<1>18. AllFit(c, O, s8) /\ s8 \in Seq(S) /\ Now(O, s8) = Now(O, s7)
  <2>1. Ix!Lock(c).creates = {}
    BY LockFits
  <2>2. t.lock => Fits(c, Now(O, s7), Ix!Lock(c))
    <3>1. Ix!Idl!VaultRoles \subseteq Created \cup {"aVault", "aTokenVault", "aVaultLpMint", "bVault", "bTokenVault", "bVaultLpMint"}
      BY DEF Ix!Idl!VaultRoles, Created
    <3>2. \A r \in Ix!Idl!VaultRoles : <<r>> \in Base(c) \cup PoolOf(c)
      BY <3>1 DEF Base, PoolOf, Ix!VaultAccounts
    <3>3. t.lock => {c, e, Ix!Ata(c, "LP"), v} \subseteq Now(O, s7)
      BY <1>14, <1>16, <1>17 DEF With
    <3>4. t.lock => \A r \in {"pool", "lpMint", "tokenProgram"} \cup Ix!Idl!VaultRoles : <<r>> \in Now(O, s7)
      BY <1>14, <1>16, <1>17, <3>2 DEF With
    <3>5. t.lock => {<<r>> : r \in {"pool", "lpMint", "tokenProgram"} \cup Ix!Idl!VaultRoles}
                      \cup {c, e, Ix!Ata(c, "LP"), v} \subseteq Now(O, s7)
      BY <3>3, <3>4
    <3> QED
      BY <3>5, LockFits DEF e, v
  <2>3. AllFit(c, O, s8)
    BY <1>1, <1>31, <1>2, <1>17, <2>2, ThenFits
  <2>4. s8 \in Seq(S) /\ Now(O, s8) = With(Now(O, s7), t.lock, Ix!Lock(c).creates)
    BY <1>1, <1>31, <1>2, <1>17, <2>2, <2>3, ThenFits
  <2> HIDE DEF s8
  <2> QED
    BY <2>1, <2>3, <2>4 DEF With
<1> HIDE DEF s8
<1>19. O \subseteq Now(O, s8) /\ (t.swap => V("A") \subseteq O /\ V("B") \subseteq O)
  BY <1>3, <1>8, <1>9, <1>11, <1>13, <1>16, <1>17, <1>18 DEF Sides, With
<1>20. AllFit(c, O, s9)
  <2>1. t.swap => Fits(c, Now(O, s8), Ix!SwapInstruction[c])
    <3> SUFFICES ASSUME t.swap PROVE Fits(c, Now(O, s8), Ix!SwapInstruction[c])
      OBVIOUS
    <3>1. Ix!Idl!VaultRoles \subseteq Created \cup {"aVault", "aTokenVault", "aVaultLpMint", "bVault", "bTokenVault", "bVaultLpMint"}
      BY DEF Ix!Idl!VaultRoles, Created
    <3>2. PoolOf(c) \subseteq O /\ b \in O /\ c \in O /\ Ix!Ata(c, "A") \in O
          /\ \A r \in Ix!Idl!Programs : <<r>> \in O
      BY <1>3 DEF Ix!AlwaysOpen, Ix!Idl!CreationPrograms
    <3>3. \A r \in {"pool", "protocolTokenBFee"} \cup Ix!Idl!VaultRoles : <<r>> \in O
      BY <1>19, <3>1, <3>2 DEF V, Ix!VaultAccounts, PoolOf, Created
    <3>4. {<<r>> : r \in {"pool", "protocolTokenBFee"} \cup Ix!Idl!Programs \cup Ix!Idl!VaultRoles}
             \cup {c, Ix!Ata(c, "A"), b} \subseteq Now(O, s8)
      BY <1>19, <3>2, <3>3
    <3> QED
      BY <3>4, SwapFits DEF b
  <2> QED
    BY <1>1, <1>31, <1>2, <1>18, <2>1, ThenFits
<1>21. Instructions(c, t) = s9
  <2> DEFINE l1 == Ix!CreateLockEscrow(c)
             l2 == Ix!CreateAta(c, Ix!Escrow(c), "LP")
             l3 == Ix!Lock(c)
  <2>1. Ix!LockInstructions[c] = <<l1, l2, l3>>
    BY DEF Ix!LockInstructions
  <2>2. l1 \in S /\ l2 \in S /\ l3 \in S
    BY <1>2
  <2> HIDE DEF l1, l2, l3
  <2>3. s5 \o (IF t.lock THEN <<l1, l2, l3>> ELSE <<>>) = Then(Then(Then(s5, t.lock, l1), t.lock, l2), t.lock, l3)
    BY <1>1, <1>13, <2>2, InstructionsOneByOne
  <2>4. s5 \o (IF t.lock THEN Ix!LockInstructions[c] ELSE <<>>) = s8
    BY <2>1, <2>3 DEF s6, s7, s8, l1, l2, l3
  <2>5. (IF "A" \in t.vaults THEN <<Ix!CreateVault[c]["A"]>> ELSE <<>>) = s1
    BY <1>32 DEF s0, s1, Then
  <2>6. Instructions(c, t) = ((((s1 \o (IF "B" \in t.vaults THEN <<Ix!CreateVault[c]["B"]>> ELSE <<>>))
            \o (IF t.ata THEN <<Ix!CreatePayerAta[c]>> ELSE <<>>))
            \o (IF t.wrap > 0 THEN <<Ix!WrapSol[c]>> ELSE <<>>))
            \o (IF t.pool THEN <<Initialize(c)>> ELSE <<>>))
            \o (IF t.lock THEN Ix!LockInstructions[c] ELSE <<>>)
            \o (IF t.swap THEN <<Ix!SwapInstruction[c]>> ELSE <<>>)
    BY <2>5 DEF Instructions
  <2>7. ((((s1 \o (IF "B" \in t.vaults THEN <<Ix!CreateVault[c]["B"]>> ELSE <<>>))
            \o (IF t.ata THEN <<Ix!CreatePayerAta[c]>> ELSE <<>>))
            \o (IF t.wrap > 0 THEN <<Ix!WrapSol[c]>> ELSE <<>>))
            \o (IF t.pool THEN <<Initialize(c)>> ELSE <<>>)) = s5
    BY <1>32 DEF s2, s3, s4, s5, Then
  <2> QED
    BY <2>4, <2>6, <2>7 DEF Then
<1> HIDE DEF s9
<1> QED
  BY <1>20, <1>21, FittingIsAccepted DEF O

(***************************************************************************)
(* An attempt that nobody disturbs.                                        *)
(***************************************************************************)

\* The transactions of an attempt, as long as the chain is as it was when they were built.
Single(c) == option[c].version = "single"
Amount(c) == Deposit + (IF option[c].swap THEN SwapIn ELSE 0)
Opening(c) == Transaction(Sides \ vaults, LacksAta(c), Amount(c), Single(c), FALSE, FALSE)
Creating(c) == CreatePool(option[c].lock)
Swapping == Transaction({}, FALSE, 0, FALSE, FALSE, TRUE)
AfterOpening(c) == IF Single(c) THEN <<>> ELSE <<Creating(c)>> \o SwapLeg(option[c])

\* The pool is there, and its LP tokens are where they were to go.
Launched(c) ==
    /\ PoolCreator(c) = c
    /\ lp[PoolAddress(c)] = IF option[c].lock THEN "locked" ELSE "held"

\* The stages of an attempt that has t as its next transaction, or on its way, and s to send
\* after it: what comes first, the creation of the pool, and the swap.
AtOpening(c, t, s) ==
    wsol[c] = before[c] /\ t = Opening(c) /\ s = AfterOpening(c)
AtCreation(c, t, s) ==
    /\ ~Single(c) /\ vaults = Sides /\ c \in ata /\ wsol[c] = before[c] + Amount(c)
    /\ t = Creating(c) /\ s = SwapLeg(option[c])
AtSwap(c, t, s) ==
    /\ ~Single(c) /\ option[c].swap /\ vaults = Sides /\ c \in ata
    /\ wsol[c] = before[c] + SwapIn /\ Launched(c)
    /\ t = Swapping /\ s = <<>>
AtStage(c, t, s) == AtOpening(c, t, s) \/ AtCreation(c, t, s) \/ AtSwap(c, t, s)

\* An attempt has one transaction on its way at most, and none while it builds the next one.
OneOnItsWay ==
    \A m \in net : m.attempt = attempts[m.client] =>
        /\ pc[m.client] \in {"confirming", "idle"}
        /\ \A n \in net : n.client = m.client /\ n.attempt = m.attempt => n = m

\* What holds of an attempt of c that no other attempt's transaction has disturbed.
OnCourse(c) ==
    /\ pc[c] = "reading" => seen[c] = vaults /\ wsol[c] = before[c]
    /\ pc[c] = "sending" => AtStage(c, Head(plan[c]), Tail(plan[c]))
    /\ pc[c] = "confirming" =>
          \E m \in net : Awaits(c, m) /\ CanRun(c, m.tx) /\ AtStage(c, m.tx, plan[c])
    /\ pc[c] = "done" => Launched(c) /\ wsol[c] = before[c]
Undisturbed(c) == ~raced[c] /\ SwapIsFunded(c)
CourseInv ==
    /\ LaunchInv /\ OneOnItsWay
    /\ raced \in [Clients -> BOOLEAN] /\ before \in [Clients -> Nat]
    /\ \A c \in Clients : Undisturbed(c) => OnCourse(c)

\* What comes after an element.
LEMMA AfterAnElement ==
    ASSUME NEW S, NEW e \in S, NEW s \in Seq(S)
    PROVE  Head(<<e>> \o s) = e /\ Tail(<<e>> \o s) = s /\ <<e>> \o s # <<>>
<1> DEFINE q == <<e>> \o s
<1>1. <<e>> \in Seq(S) /\ Len(<<e>>) = 1 /\ <<e>>[1] = e /\ Len(s) \in Nat
  BY LenProperties
<1>2. /\ q \in Seq(S) /\ Len(q) = 1 + Len(s)
      /\ \A i \in 1 .. 1 + Len(s) : q[i] = IF i <= 1 THEN <<e>>[i] ELSE s[i - 1]
  BY <1>1, ConcatProperties
<1> HIDE DEF q
<1>3. q # <<>> /\ q[1] = e /\ \A i \in 1 .. Len(s) : q[i + 1] = s[i]
  <2>1. Len(q) # 0 /\ Len(<<>>) = 0
    BY <1>1, <1>2
  <2>2. \A i \in 1 .. Len(s) : i + 1 \in 1 .. 1 + Len(s) /\ ~(i + 1 <= 1) /\ (i + 1) - 1 = i
    BY <1>1
  <2>3. 1 \in 1 .. 1 + Len(s)
    BY <1>1
  <2> QED
    BY <1>1, <1>2, <2>1, <2>2, <2>3
<1>4. /\ Head(q) = q[1] /\ Tail(q) \in Seq(S) /\ Len(Tail(q)) = Len(s)
      /\ \A i \in 1 .. Len(s) : Tail(q)[i] = q[i + 1]
  BY <1>1, <1>2, <1>3, HeadTailProperties
<1>5. Tail(q) = s
  BY <1>3, <1>4, SeqEqual
<1> QED
  BY <1>3, <1>4, <1>5 DEF q

\* What a payer builds, if the chain is still as it was when the vaults were read.
LEMMA PlanOpens ==
    ASSUME LaunchInv, NEW c \in Clients, seen[c] = vaults, SwapIsFunded(c)
    PROVE  Head(Plan(c)) = Opening(c) /\ Tail(Plan(c)) = AfterOpening(c)
<1> DEFINE o == option[c]
           t == Opening(c)
           u == Creating(c)
           l == SwapLeg(o)
<1>1. /\ o.version \in Versions /\ o.swap \in BOOLEAN
      /\ o.version = "single" => ~o.swap
      /\ Deposit \in Nat
  BY LaunchAssumption DEF LaunchInv, Kinds
<1>2. Missing(c) = Sides \ vaults
  BY DEF Missing
<1>3. l = IF o.swap THEN <<Swapping>> ELSE <<>>
  BY DEF SwapLeg, Swapping
<1>4. CASE o.version = "single"
  <2>1. Plan(c) = PlanSingle(c)
    BY <1>4, Zenon DEF Plan
  <2>2. Amount(c) = Deposit /\ Single(c)
    BY <1>1, <1>4 DEF Amount, Single
  <2>3. t = Transaction(Missing(c), LacksAta(c), Deposit, TRUE, FALSE, FALSE)
    BY <1>2, <2>2 DEF Opening, Transaction
  <2>4. Plan(c) = <<t>>
    BY <2>1, <2>3 DEF PlanSingle
  <2> HIDE DEF t
  <2>5. Head(<<t>>) = t /\ Tail(<<t>>) = <<>>
    OBVIOUS
  <2> QED
    BY <2>2, <2>4, <2>5 DEF AfterOpening, t
<1>5. CASE o.version # "single"
  <2>1. \/ Plan(c) = PlanConfig(c)
        \/ Plan(c) = PlanConfig2(c) /\ o.version = "config2"
    <3>1. CASE o.version = "config"
      BY <3>1, Zenon DEF Plan
    <3>2. CASE o.version = "config2"
      BY <3>2, Zenon DEF Plan
    <3> QED
      BY <1>1, <1>5, <3>1, <3>2 DEF Versions
  <2>2. o.version = "config2" => Amount(c) = Deposit
    BY <1>1 DEF SwapIsFunded, Amount
  <2>3. Single(c) = FALSE
    BY <1>5 DEF Single
  <2>4. t = Transaction(Missing(c), LacksAta(c), Amount(c), FALSE, FALSE, FALSE)
    BY <1>2, <2>3 DEF Opening
  <2>5. Plan(c) = <<t, u>> \o l
    <3>1. CASE Plan(c) = PlanConfig(c)
      BY <2>4, <3>1 DEF PlanConfig, Amount, Creating
    <3>2. CASE Plan(c) = PlanConfig2(c) /\ o.version = "config2"
      BY <2>2, <2>4, <3>2 DEF PlanConfig2, Creating
    <3> QED
      BY <2>1, <3>1, <3>2
  <2> DEFINE S == {t, u, Swapping}
  <2>6. t \in S /\ u \in S /\ l \in Seq(S) /\ <<u>> \in Seq(S) /\ <<t>> \in Seq(S)
    <3> DEFINE w == Swapping
    <3> HIDE DEF t, u, w
    <3>1. <<w>> \in Seq(S) /\ <<>> \in Seq(S) /\ <<u>> \in Seq(S) /\ <<t>> \in Seq(S)
      BY DEF w
    <3>2. l = IF o.swap THEN <<w>> ELSE <<>>
      BY <1>3 DEF w
    <3> HIDE DEF l, S, o
    <3> QED
      BY <3>1, <3>2 DEF S
  <2> HIDE DEF S, t, u, l
  <2>7. <<u>> \o l \in Seq(S)
    BY <2>6, ConcatProperties
  <2>8. <<t, u>> \o l = <<t>> \o (<<u>> \o l)
    <3>1. <<t>> \o <<u>> = <<t, u>>
      BY <2>6, TwoElements
    <3>2. (<<t>> \o <<u>>) \o l = <<t>> \o (<<u>> \o l)
      BY <2>6, ConcatAssociative
    <3> QED
      BY <3>1, <3>2
  <2>9. Head(Plan(c)) = t /\ Tail(Plan(c)) = <<u>> \o l
    BY <2>5, <2>6, <2>7, <2>8, AfterAnElement
  <2> QED
    BY <2>3, <2>9 DEF AfterOpening, t, u, l
<1> QED
  BY <1>4, <1>5

\* What is left of an attempt after its first and its second transaction.
LEMMA LeftToSend ==
    ASSUME LaunchInv, NEW c \in Clients
    PROVE  /\ Single(c) => AfterOpening(c) = <<>> /\ ~option[c].swap /\ ~option[c].lock
           /\ ~Single(c) => /\ AfterOpening(c) # <<>> /\ Head(AfterOpening(c)) = Creating(c)
                            /\ Tail(AfterOpening(c)) = SwapLeg(option[c])
           /\ option[c].swap => /\ SwapLeg(option[c]) # <<>> /\ Head(SwapLeg(option[c])) = Swapping
                                /\ Tail(SwapLeg(option[c])) = <<>>
           /\ ~option[c].swap => SwapLeg(option[c]) = <<>>
<1> DEFINE o == option[c]
           u == Creating(c)
           w == Swapping
           l == SwapLeg(o)
           S == {u, w}
<1>1. Single(c) => ~o.swap /\ ~o.lock
  BY LaunchAssumption DEF LaunchInv, Kinds, Single
<1>2. l = IF o.swap THEN <<w>> ELSE <<>>
  BY DEF SwapLeg, Swapping
<1>3. AfterOpening(c) = IF Single(c) THEN <<>> ELSE <<u>> \o l
  BY DEF AfterOpening
<1> HIDE DEF u, w, l, o
<1>4. /\ <<w>> # <<>> /\ Head(<<w>>) = w /\ Tail(<<w>>) = <<>>
      /\ <<w>> \in Seq(S) /\ <<>> \in Seq(S) /\ u \in S
  OBVIOUS
<1> HIDE DEF S
<1>5. l \in Seq(S)
  BY <1>2, <1>4
<1>6. Head(<<u>> \o l) = u /\ Tail(<<u>> \o l) = l /\ <<u>> \o l # <<>>
  BY <1>4, <1>5, AfterAnElement
<1> QED
  BY <1>1, <1>2, <1>3, <1>4, <1>6 DEF o, u, w, l

\* The transactions of an attempt, part by part.
LEMMA StageTransactions ==
    ASSUME LaunchInv, NEW c \in Clients
    PROVE  /\ LET t == Opening(c) IN
                 /\ t \in Transactions /\ t.vaults = Sides \ vaults /\ t.ata = LacksAta(c)
                 /\ t.wrap = Amount(c) /\ t.pool = Single(c) /\ ~t.lock /\ ~t.swap
           /\ LET t == Creating(c) IN
                 /\ t \in Transactions /\ t.vaults = {} /\ ~t.ata /\ t.wrap = 0
                 /\ t.pool /\ t.lock = option[c].lock /\ ~t.swap
           /\ LET t == Swapping IN
                 /\ t \in Transactions /\ t.vaults = {} /\ ~t.ata /\ t.wrap = 0
                 /\ ~t.pool /\ ~t.lock /\ t.swap
           /\ Amount(c) \in Nat /\ Amount(c) >= Deposit /\ Amount(c) > 0
           /\ Deposit \in Nat /\ SwapIn \in Nat /\ wsol[c] \in Nat
           /\ Amount(c) = Deposit + (IF option[c].swap THEN SwapIn ELSE 0)
           /\ (Single(c) => Amount(c) = Deposit)
<1>1. /\ option[c].lock \in BOOLEAN /\ option[c].swap \in BOOLEAN
      /\ (Single(c) => ~option[c].swap)
      /\ Deposit \in Nat /\ Deposit > 0 /\ SwapIn \in Nat /\ wsol[c] \in Nat
  BY LaunchAssumption DEF LaunchInv, Kinds, Single
<1>2. /\ Amount(c) \in Nat /\ Amount(c) >= Deposit /\ Amount(c) > 0
      /\ (Single(c) => Amount(c) = Deposit)
  BY <1>1 DEF Amount
<1>3. Single(c) \in BOOLEAN /\ LacksAta(c) \in BOOLEAN
  BY DEF Single, LacksAta
<1>4. LET t == Opening(c) IN
        /\ t \in Transactions /\ t.vaults = Sides \ vaults /\ t.ata = LacksAta(c)
        /\ t.wrap = Amount(c) /\ t.pool = Single(c) /\ ~t.lock /\ ~t.swap
  BY <1>2, <1>3 DEF Opening, Transaction, Transactions
<1>5. LET t == Creating(c) IN
        /\ t \in Transactions /\ t.vaults = {} /\ ~t.ata /\ t.wrap = 0
        /\ t.pool /\ t.lock = option[c].lock /\ ~t.swap
  BY <1>1 DEF Creating, CreatePool, Transaction, Transactions
<1>6. LET t == Swapping IN
        /\ t \in Transactions /\ t.vaults = {} /\ ~t.ata /\ t.wrap = 0
        /\ ~t.pool /\ ~t.lock /\ t.swap
  BY DEF Swapping, Transaction, Transactions
<1>7. Amount(c) = Deposit + (IF option[c].swap THEN SwapIn ELSE 0)
  BY DEF Amount
<1> QED
  BY <1>1, <1>2, <1>4, <1>5, <1>6, <1>7

\* At each of its stages an attempt can go on, unless the pool it is to create is there.
LEMMA StageRuns ==
    ASSUME LaunchInv, before \in [Clients -> Nat], NEW c \in Clients, NEW t, NEW s,
           AtStage(c, t, s), PoolCreator(c) \in {None, c}, ~(PoolCreator(c) = c /\ t.pool)
    PROVE  CanRun(c, t)
<1>1. vaults \subseteq Sides /\ before[c] \in Nat /\ c # None
  BY LaunchAssumption DEF LaunchInv, TypeOK
<1>2. LacksAta(c) <=> c \notin ata
  BY DEF LacksAta
<1>3. CASE AtOpening(c, t, s)
  <2>1. /\ t \in Transactions /\ t.vaults = Sides \ vaults /\ t.ata = LacksAta(c)
        /\ t.wrap = Amount(c) /\ ~t.lock /\ ~t.swap /\ Amount(c) >= Deposit
        /\ wsol[c] \in Nat /\ Amount(c) \in Nat /\ Deposit \in Nat
    BY <1>3, StageTransactions DEF AtOpening
  <2>2. t.pool => PoolCreator(c) = None
    OBVIOUS
  <2>3. t.vaults \cap vaults = {} /\ vaults \cup t.vaults = Sides
    BY <1>1, <2>1
  <2>4. (t.ata => c \notin ata) /\ (c \in ata \/ t.ata)
    BY <1>2, <2>1
  <2>5. Ix!Accepted(c, Open(c), Instructions(c, t))
    BY <2>1, <2>2, <2>3, <2>4, TransactionRuns
  <2>6. wsol[c] + t.wrap >= Deposit
    BY <2>1
  <2> QED
    BY <2>1, <2>5, <2>6 DEF CanRun
<1>4. CASE AtCreation(c, t, s)
  <2>1. /\ t \in Transactions /\ t.vaults = {} /\ ~t.ata /\ t.wrap = 0 /\ t.pool /\ ~t.swap
        /\ Amount(c) >= Deposit /\ wsol[c] \in Nat /\ Amount(c) \in Nat /\ Deposit \in Nat
    BY <1>4, StageTransactions DEF AtCreation
  <2>2. vaults = Sides /\ c \in ata /\ wsol[c] = before[c] + Amount(c)
    BY <1>4 DEF AtCreation
  <2>3. PoolCreator(c) = None
    BY <2>1
  <2>4. t.vaults \cap vaults = {} /\ vaults \cup t.vaults = Sides /\ ~(t.wrap > 0)
    BY <2>1, <2>2
  <2>5. Ix!Accepted(c, Open(c), Instructions(c, t))
    BY <2>1, <2>2, <2>3, <2>4, TransactionRuns
  <2>6. wsol[c] + t.wrap >= Deposit
    BY <1>1, <2>1, <2>2
  <2> QED
    BY <2>1, <2>5, <2>6 DEF CanRun
<1>5. CASE AtSwap(c, t, s)
  <2>1. /\ t \in Transactions /\ t.vaults = {} /\ ~t.ata /\ t.wrap = 0
        /\ ~t.pool /\ ~t.lock /\ t.swap /\ SwapIn \in Nat
    BY <1>5, StageTransactions DEF AtSwap
  <2>2. /\ vaults = Sides /\ c \in ata /\ wsol[c] = before[c] + SwapIn /\ PoolCreator(c) = c
    BY <1>5 DEF AtSwap, Launched
  <2>3. t.vaults \cap vaults = {} /\ ~(t.wrap > 0)
    BY <2>1
  <2>4. Ix!Accepted(c, Open(c), Instructions(c, t))
    BY <2>1, <2>2, <2>3, TransactionRuns
  <2>5. wsol[c] >= SwapIn
    BY <1>1, <2>1, <2>2
  <2> QED
    BY <2>1, <2>4, <2>5 DEF CanRun
<1> QED
  BY <1>3, <1>4, <1>5 DEF AtStage

\* What a transaction that runs does for its payer.
LEMMA RunEffects ==
    ASSUME LaunchInv, NEW c \in Clients, NEW t, Run(c, t), option' = option
    PROVE  /\ vaults' = vaults \cup t.vaults
           /\ (c \in ata \/ t.ata) => c \in ata'
           /\ wsol'[c] = wsol[c] + t.wrap - (IF t.pool THEN Deposit ELSE 0)
                                          - (IF t.swap THEN SwapIn ELSE 0)
           /\ PoolAddress(c)' = PoolAddress(c)
           /\ PoolCreator(c)' = IF t.pool THEN c ELSE PoolCreator(c)
           /\ lp'[PoolAddress(c)] = IF t.lock THEN "locked" ELSE IF t.pool THEN "held"
                                    ELSE lp[PoolAddress(c)]
<1>1. PoolAddress(c)' = PoolAddress(c) /\ PoolAddress(c) \in Addresses
  BY DEF PoolAddress, Addresses
<1>2. wsol \in [Clients -> Nat] /\ pool \in [Addresses -> Clients \cup {None}] /\ lp \in [Addresses -> LpStates]
  BY DEF LaunchInv, Kinds
<1>3. vaults' = vaults \cup t.vaults /\ ((c \in ata \/ t.ata) => c \in ata')
  BY DEF Run
<1>4. wsol'[c] = wsol[c] + t.wrap - (IF t.pool THEN Deposit ELSE 0)
                                  - (IF t.swap THEN SwapIn ELSE 0)
  BY <1>2 DEF Run
<1> DEFINE a == PoolAddress(c)
<1>5. /\ pool' = [pool EXCEPT ![a] = IF t.pool THEN c ELSE pool[a]]
      /\ lp' = [lp EXCEPT ![a] = IF t.lock THEN "locked" ELSE IF t.pool THEN "held" ELSE lp[a]]
  BY DEF Run
<1>6. PoolCreator(c) = pool[a] /\ PoolCreator(c)' = pool'[a]
  BY <1>1 DEF PoolCreator
<1> HIDE DEF a
<1>7. /\ pool'[a] = IF t.pool THEN c ELSE pool[a]
      /\ lp'[a] = IF t.lock THEN "locked" ELSE IF t.pool THEN "held" ELSE lp[a]
  BY <1>1, <1>2, <1>5 DEF a
<1> QED
  BY <1>1, <1>3, <1>4, <1>6, <1>7 DEF a

\* The transaction of a stage takes the attempt to the next stage, or to its end.
LEMMA StageGoesOn ==
    ASSUME LaunchInv, before \in [Clients -> Nat], NEW c \in Clients, NEW t, NEW s,
           AtStage(c, t, s), Run(c, t), option' = option, before' = before
    PROVE  /\ s = <<>> => Launched(c)' /\ wsol'[c] = before'[c]
           /\ s # <<>> => AtStage(c, Head(s), Tail(s))'
<1>1. /\ vaults \subseteq Sides /\ before[c] \in Nat /\ wsol[c] \in Nat
      /\ Amount(c) \in Nat /\ Deposit \in Nat /\ SwapIn \in Nat
      /\ Amount(c) = Deposit + (IF option[c].swap THEN SwapIn ELSE 0)
      /\ (Single(c) => Amount(c) = Deposit)
  BY StageTransactions DEF LaunchInv, TypeOK
<1>2. /\ vaults' = vaults \cup t.vaults
      /\ (c \in ata \/ t.ata) => c \in ata'
      /\ wsol'[c] = wsol[c] + t.wrap - (IF t.pool THEN Deposit ELSE 0)
                                     - (IF t.swap THEN SwapIn ELSE 0)
      /\ PoolAddress(c)' = PoolAddress(c)
      /\ PoolCreator(c)' = IF t.pool THEN c ELSE PoolCreator(c)
      /\ lp'[PoolAddress(c)] = IF t.lock THEN "locked" ELSE IF t.pool THEN "held"
                               ELSE lp[PoolAddress(c)]
  BY RunEffects
<1>3. /\ Single(c)' = Single(c) /\ Amount(c)' = Amount(c) /\ Creating(c)' = Creating(c)
  BY DEF Single, Amount, Creating
<1>4. t.pool /\ (t.lock = option[c].lock) => Launched(c)'
  BY <1>2 DEF Launched
<1>5. Launched(c) /\ ~t.pool /\ ~t.lock => Launched(c)'
  BY <1>2 DEF Launched
<1>6. /\ Single(c) => AfterOpening(c) = <<>> /\ ~option[c].swap /\ ~option[c].lock
      /\ ~Single(c) => /\ AfterOpening(c) # <<>> /\ Head(AfterOpening(c)) = Creating(c)
                       /\ Tail(AfterOpening(c)) = SwapLeg(option[c])
      /\ option[c].swap => /\ SwapLeg(option[c]) # <<>> /\ Head(SwapLeg(option[c])) = Swapping
                           /\ Tail(SwapLeg(option[c])) = <<>>
      /\ ~option[c].swap => SwapLeg(option[c]) = <<>>
  BY LeftToSend
<1>7. CASE AtOpening(c, t, s)
  <2>1. /\ t.vaults = Sides \ vaults /\ t.ata = LacksAta(c)
        /\ t.wrap = Amount(c) /\ t.pool = Single(c) /\ ~t.lock /\ ~t.swap
        /\ wsol[c] = before[c] /\ s = AfterOpening(c)
    BY <1>7, StageTransactions DEF AtOpening
  <2>2. CASE Single(c)
    <3>1. s = <<>>
      BY <1>6, <2>1, <2>2
    <3>2. wsol'[c] = before'[c]
      BY <1>1, <1>2, <2>1, <2>2
    <3>3. Launched(c)'
      BY <1>2, <1>6, <2>1, <2>2 DEF Launched
    <3> QED
      BY <3>1, <3>2, <3>3
  <2>3. CASE ~Single(c)
    <3>1. s # <<>> /\ Head(s) = Creating(c) /\ Tail(s) = SwapLeg(option[c])
      BY <1>6, <2>1, <2>3
    <3>2. vaults' = Sides /\ c \in ata'
      BY <1>1, <1>2, <2>1 DEF LacksAta
    <3>3. wsol'[c] = before'[c] + Amount(c)'
      BY <1>1, <1>2, <1>3, <2>1, <2>3
    <3>4. AtCreation(c, Head(s), Tail(s))'
      BY <1>3, <2>3, <3>1, <3>2, <3>3 DEF AtCreation
    <3> QED
      BY <3>1, <3>4 DEF AtStage
  <2> QED
    BY <2>2, <2>3
<1>8. CASE AtCreation(c, t, s)
  <2>1. /\ t.vaults = {} /\ t.wrap = 0 /\ t.pool /\ t.lock = option[c].lock /\ ~t.swap
        /\ ~Single(c) /\ vaults = Sides /\ c \in ata /\ wsol[c] = before[c] + Amount(c)
        /\ s = SwapLeg(option[c])
    BY <1>8, StageTransactions DEF AtCreation
  <2>2. Launched(c)' /\ vaults' = Sides /\ c \in ata'
    BY <1>2, <1>4, <2>1
  <2>3. CASE option[c].swap
    <3>1. s # <<>> /\ Head(s) = Swapping /\ Tail(s) = <<>>
      BY <1>6, <2>1, <2>3
    <3>2. wsol'[c] = before'[c] + SwapIn
      BY <1>1, <1>2, <2>1, <2>3
    <3>3. AtSwap(c, Head(s), Tail(s))'
      BY <1>3, <2>1, <2>2, <2>3, <3>1, <3>2 DEF AtSwap, Swapping
    <3> QED
      BY <3>1, <3>3 DEF AtStage
  <2>4. CASE ~option[c].swap
    <3>1. s = <<>>
      BY <1>6, <2>1, <2>4
    <3>2. wsol'[c] = before'[c]
      BY <1>1, <1>2, <2>1, <2>4
    <3> QED
      BY <2>2, <3>1, <3>2
  <2> QED
    BY <2>3, <2>4
<1>9. CASE AtSwap(c, t, s)
  <2>1. /\ t.wrap = 0 /\ ~t.pool /\ ~t.lock /\ t.swap
        /\ wsol[c] = before[c] + SwapIn /\ Launched(c) /\ s = <<>>
    BY <1>9, StageTransactions DEF AtSwap
  <2>2. Launched(c)'
    BY <1>5, <2>1
  <2>3. wsol'[c] = before'[c]
    BY <1>1, <1>2, <2>1
  <2> QED
    BY <2>1, <2>2, <2>3
<1> QED
  BY <1>7, <1>8, <1>9 DEF AtStage

\* An attempt keeps having one transaction on its way at most.
LEMMA OneOnItsWayKept ==
    ASSUME LaunchInv, OneOnItsWay, Next
    PROVE  OneOnItsWay'
<1> SUFFICES ASSUME NEW k \in net', k.attempt = attempts'[k.client]
             PROVE  /\ pc'[k.client] \in {"confirming", "idle"}
                    /\ \A n \in net' : n.client = k.client /\ n.attempt = k.attempt => n = k
  BY DEF OneOnItsWay
<1>1. /\ pc \in [Clients -> Phases] /\ attempts \in [Clients -> Nat]
      /\ \A n \in net : n.client \in Clients /\ n.attempt \in 1 .. attempts[n.client]
  BY DEF LaunchInv, TypeOK, Kinds, NetFits
<1>2. \A m \in net : m.attempt = attempts[m.client] =>
         /\ pc[m.client] \in {"confirming", "idle"}
         /\ \A n \in net : n.client = m.client /\ n.attempt = m.attempt => n = m
  BY DEF OneOnItsWay
<1>3. ASSUME NEW c \in Clients, ReadVaults(c)
      PROVE  /\ pc'[k.client] \in {"confirming", "idle"}
             /\ \A n \in net' : n.client = k.client /\ n.attempt = k.attempt => n = k
  <2>1. /\ net' = net /\ pc' = [pc EXCEPT ![c] = "reading"]
        /\ attempts' = [attempts EXCEPT ![c] = attempts[c] + 1]
    BY <1>3 DEF ReadVaults
  <2>2. k \in net /\ k.client \in Clients /\ k.attempt \in 1 .. attempts[k.client]
    BY <1>1, <2>1
  <2>3. k.client # c
    BY <1>1, <2>1, <2>2
  <2>4. k.attempt = attempts[k.client] /\ pc'[k.client] = pc[k.client]
    BY <1>1, <2>1, <2>2, <2>3
  <2> QED
    BY <1>2, <2>1, <2>2, <2>4
<1>4. ASSUME NEW c \in Clients, ReadAccounts(c)
      PROVE  /\ pc'[k.client] \in {"confirming", "idle"}
             /\ \A n \in net' : n.client = k.client /\ n.attempt = k.attempt => n = k
  <2>1. /\ net' = net /\ pc' = [pc EXCEPT ![c] = "sending"] /\ attempts' = attempts
        /\ pc[c] = "reading"
    BY <1>4 DEF ReadAccounts
  <2>2. k \in net /\ k.client \in Clients /\ k.attempt = attempts[k.client]
    BY <1>1, <2>1
  <2>3. k.client # c
    BY <1>2, <2>1, <2>2
  <2>4. pc'[k.client] = pc[k.client]
    BY <1>1, <2>1, <2>2, <2>3
  <2> QED
    BY <1>2, <2>1, <2>2, <2>4
<1>5. ASSUME NEW c \in Clients, Send(c)
      PROVE  /\ pc'[k.client] \in {"confirming", "idle"}
             /\ \A n \in net' : n.client = k.client /\ n.attempt = k.attempt => n = k
  <2> DEFINE m == [client |-> c, attempt |-> attempts[c], tx |-> Head(plan[c])]
  <2>1. /\ net' = net \cup {m} /\ pc' = [pc EXCEPT ![c] = "confirming"] /\ attempts' = attempts
        /\ pc[c] = "sending"
    BY <1>5 DEF Send
  <2>2. m.client = c /\ m.attempt = attempts[c]
    OBVIOUS
  <2> HIDE DEF m
  <2>3. \A n \in net : ~(n.client = c /\ n.attempt = attempts[c])
    BY <1>2, <2>1
  <2>4. CASE k = m
    BY <1>1, <2>1, <2>2, <2>3, <2>4
  <2>5. CASE k \in net
    <3>1. k.client \in Clients /\ k.client # c
      BY <1>1, <2>1, <2>3, <2>5
    <3>2. pc'[k.client] = pc[k.client]
      BY <1>1, <2>1, <3>1
    <3> QED
      BY <1>2, <2>1, <2>2, <2>5, <3>1, <3>2
  <2> QED
    BY <2>1, <2>4, <2>5
<1>6. ASSUME NEW c \in Clients, Refused(c) \/ Crash(c)
      PROVE  /\ pc'[k.client] \in {"confirming", "idle"}
             /\ \A n \in net' : n.client = k.client /\ n.attempt = k.attempt => n = k
  <2>1. net' = net /\ pc' = [pc EXCEPT ![c] = "idle"] /\ attempts' = attempts
    BY <1>6 DEF Refused, Crash
  <2>2. k \in net /\ k.client \in Clients /\ k.attempt = attempts[k.client]
    BY <1>1, <2>1
  <2>3. pc'[k.client] \in {pc[k.client], "idle"}
    BY <1>1, <2>1, <2>2
  <2> QED
    BY <1>2, <2>1, <2>2, <2>3
<1>7. ASSUME NEW m \in net, Landed(m) \/ Failed(m) \/ Expired(m)
      PROVE  /\ pc'[k.client] \in {"confirming", "idle"}
             /\ \A n \in net' : n.client = k.client /\ n.attempt = k.attempt => n = k
  <2>1. /\ net' = net \ {m} /\ attempts' = attempts
        /\ \A c \in Clients : ~Awaits(c, m) => pc'[c] = pc[c]
    BY <1>7 DEF Landed, Failed, Expired, Confirmed
  <2>2. k \in net /\ k # m /\ k.client \in Clients /\ k.attempt = attempts[k.client]
    BY <1>1, <2>1
  <2>3. ~Awaits(k.client, m)
    BY <1>2, <2>2 DEF Awaits
  <2> QED
    BY <1>2, <2>1, <2>2, <2>3
<1> QED
  BY <1>3, <1>4, <1>5, <1>6, <1>7 DEF Next

\* What a transaction can do, and the stage of an attempt, are about the chain.
LEMMA SameChain ==
    ASSUME UNCHANGED <<chainVars, option>>, NEW c, before'[c] = before[c]
    PROVE  /\ Launched(c)' = Launched(c)
           /\ \A t : CanRun(c, t)' = CanRun(c, t)
           /\ \A t, s : AtStage(c, t, s)' = AtStage(c, t, s)
<1>1. /\ vaults' = vaults /\ ata' = ata /\ wsol' = wsol /\ pool' = pool /\ lp' = lp
      /\ option' = option
  BY DEF chainVars
<1>2. PoolAddress(c)' = PoolAddress(c) /\ PoolCreator(c)' = PoolCreator(c)
  BY <1>1 DEF PoolAddress, PoolCreator
<1>3. Launched(c)' = Launched(c)
  BY <1>1, <1>2 DEF Launched
<1>4. \A t : CanRun(c, t)' = CanRun(c, t)
  <2>1. Open(c)' = Open(c)
    BY <1>1, <1>2 DEF Open
  <2>2. \A t : Instructions(c, t)' = Instructions(c, t)
    BY <1>1 DEF Instructions, Initialize
  <2> QED
    BY <1>1, <2>1, <2>2 DEF CanRun
<1>5. /\ Single(c)' = Single(c) /\ Amount(c)' = Amount(c) /\ Creating(c)' = Creating(c)
      /\ Opening(c)' = Opening(c) /\ AfterOpening(c)' = AfterOpening(c)
  BY <1>1 DEF Single, Amount, Creating, Opening, AfterOpening, LacksAta
<1>6. \A t, s : AtStage(c, t, s)' = AtStage(c, t, s)
  BY <1>1, <1>3, <1>5 DEF AtStage, AtOpening, AtCreation, AtSwap
<1> QED
  BY <1>3, <1>4, <1>6

\* An attempt stays on course when nothing happens to it, nor to the chain.
LEMMA CourseFramed ==
    ASSUME UNCHANGED <<chainVars, option>>, NEW c, OnCourse(c),
           pc'[c] = pc[c], plan'[c] = plan[c], seen'[c] = seen[c], before'[c] = before[c],
           attempts'[c] = attempts[c], \A m \in net : Awaits(c, m) => m \in net'
    PROVE  OnCourse(c)'
<1>1. /\ Launched(c)' = Launched(c)
      /\ \A t : CanRun(c, t)' = CanRun(c, t)
      /\ \A t, s : AtStage(c, t, s)' = AtStage(c, t, s)
  BY SameChain
<1>2. vaults' = vaults /\ wsol' = wsol
  BY DEF chainVars
<1>3. \A m : Awaits(c, m)' = Awaits(c, m)
  BY DEF Awaits
<1>4. pc[c] = "reading" => seen'[c] = vaults' /\ wsol'[c] = before'[c]
  BY <1>2 DEF OnCourse
<1>5. pc[c] = "sending" => AtStage(c, Head(plan[c]), Tail(plan[c]))'
  <2> SUFFICES ASSUME pc[c] = "sending" PROVE AtStage(c, Head(plan[c]), Tail(plan[c]))'
    OBVIOUS
  <2>1. AtStage(c, Head(plan[c]), Tail(plan[c]))
    BY DEF OnCourse
  <2>2. Head(plan[c])' = Head(plan[c]) /\ Tail(plan[c])' = Tail(plan[c])
    OBVIOUS
  <2> QED
    BY <1>1, <2>1, <2>2
<1>6. pc[c] = "confirming" =>
         \E m \in net' : Awaits(c, m)' /\ CanRun(c, m.tx)' /\ AtStage(c, m.tx, plan[c])'
  <2> SUFFICES ASSUME pc[c] = "confirming"
               PROVE  \E m \in net' : Awaits(c, m)' /\ CanRun(c, m.tx)' /\ AtStage(c, m.tx, plan[c])'
    OBVIOUS
  <2>1. PICK m \in net : Awaits(c, m) /\ CanRun(c, m.tx) /\ AtStage(c, m.tx, plan[c])
    BY DEF OnCourse
  <2>2. m \in net'
    BY <2>1
  <2>3. Awaits(c, m)' /\ CanRun(c, m.tx)' /\ AtStage(c, m.tx, plan[c])'
    BY <1>1, <1>3, <2>1
  <2> QED
    BY <2>2, <2>3
<1>7. pc[c] = "done" => Launched(c)' /\ wsol'[c] = before'[c]
  BY <1>1, <1>2 DEF OnCourse
<1> QED
  BY <1>4, <1>5, <1>6, <1>7 DEF OnCourse

\* The steps of a payer itself.
LEMMA OwnStepsOnCourse ==
    ASSUME CourseInv, NEW c \in Clients, Undisturbed(c)',
           ReadVaults(c) \/ ReadAccounts(c) \/ Send(c) \/ Refused(c) \/ Crash(c)
    PROVE  OnCourse(c)'
<1>1. /\ LaunchInv /\ pc[c] \in Phases
      /\ pc \in [Clients -> Phases] /\ plan \in [Clients -> Seq(Transactions)]
      /\ seen \in [Clients -> SUBSET Sides] /\ attempts \in [Clients -> Nat]
      /\ raced \in [Clients -> BOOLEAN] /\ before \in [Clients -> Nat]
  BY DEF CourseInv, LaunchInv, Kinds
<1>2. Undisturbed(c) => OnCourse(c)
  BY DEF CourseInv
<1>3. CASE ReadVaults(c)
  <2>1. /\ pc'[c] = "reading" /\ seen'[c] = vaults /\ before'[c] = wsol[c]
        /\ vaults' = vaults /\ wsol' = wsol
    BY <1>1, <1>3 DEF ReadVaults, chainVars
  <2> QED
    BY <2>1 DEF OnCourse
<1>4. CASE ReadAccounts(c)
  <2>1. /\ pc[c] = "reading" /\ pc'[c] = "sending" /\ plan'[c] = Plan(c)
        /\ UNCHANGED <<chainVars, option>> /\ before' = before /\ raced' = raced
        /\ option' = option
    BY <1>1, <1>4 DEF ReadAccounts
  <2>2. SwapIsFunded(c) /\ OnCourse(c)
    BY <1>2, <2>1 DEF Undisturbed, SwapIsFunded
  <2>3. seen[c] = vaults /\ wsol[c] = before[c]
    BY <2>1, <2>2 DEF OnCourse
  <2>4. Head(Plan(c)) = Opening(c) /\ Tail(Plan(c)) = AfterOpening(c)
    BY <1>1, <2>2, <2>3, PlanOpens
  <2>5. AtStage(c, Head(plan'[c]), Tail(plan'[c]))
    BY <2>1, <2>3, <2>4 DEF AtStage, AtOpening
  <2>6. \A t, s : AtStage(c, t, s)' = AtStage(c, t, s)
    BY <2>1, SameChain
  <2>7. AtStage(c, Head(plan[c]), Tail(plan[c]))'
    BY <2>5, <2>6 DEF AtStage, AtOpening, AtCreation, AtSwap
  <2> QED
    BY <2>1, <2>7 DEF OnCourse
<1>5. CASE Send(c)
  <2> DEFINE m == [client |-> c, attempt |-> attempts[c], tx |-> Head(plan[c])]
  <2>1. /\ pc[c] = "sending" /\ pc'[c] = "confirming" /\ plan'[c] = Tail(plan[c])
        /\ UNCHANGED <<chainVars, option>> /\ before' = before /\ raced' = raced
        /\ option' = option /\ attempts' = attempts
        /\ net' = net \cup {m} /\ CanRun(c, Head(plan[c]))
    BY <1>1, <1>5 DEF Send
  <2>2. AtStage(c, Head(plan[c]), Tail(plan[c]))
    BY <1>2, <2>1 DEF OnCourse, Undisturbed, SwapIsFunded
  <2>3. m.client = c /\ m.attempt = attempts[c] /\ m.tx = Head(plan[c])
    OBVIOUS
  <2> HIDE DEF m
  <2>4. m \in net' /\ m.client = c /\ m.attempt = attempts'[c]
    BY <2>1, <2>3
  <2>5. CanRun(c, m.tx) /\ AtStage(c, m.tx, plan'[c])
    BY <2>1, <2>2, <2>3
  <2>6. /\ \A t : CanRun(c, t)' = CanRun(c, t)
        /\ \A t, s : AtStage(c, t, s)' = AtStage(c, t, s)
    BY <2>1, SameChain
  <2> SUFFICES \E k \in net' : Awaits(c, k)' /\ CanRun(c, k.tx)' /\ AtStage(c, k.tx, plan[c])'
    BY <2>1 DEF OnCourse
  <2> QED
    BY <2>1, <2>4, <2>5, <2>6 DEF Awaits
<1>6. CASE Refused(c) \/ Crash(c)
  <2>1. pc'[c] = "idle"
    BY <1>1, <1>6 DEF Refused, Crash
  <2> QED
    BY <2>1 DEF OnCourse
<1> QED
  BY <1>3, <1>4, <1>5, <1>6

\* What the node answers about a transaction.
LEMMA AnswersOnCourse ==
    ASSUME CourseInv, NEW c \in Clients, Undisturbed(c)', NEW m \in net,
           Landed(m) \/ Failed(m) \/ Expired(m)
    PROVE  OnCourse(c)'
<1>1. /\ LaunchInv /\ OneOnItsWay /\ pc \in [Clients -> Phases]
      /\ raced \in [Clients -> BOOLEAN] /\ before \in [Clients -> Nat]
      /\ (Undisturbed(c) => OnCourse(c))
      /\ m.client \in Clients /\ m.tx \in Fitting(m.client)
  BY DEF CourseInv, LaunchInv, Kinds, NetFits
<1>2. /\ option' = option /\ attempts' = attempts /\ seen' = seen /\ before' = before
      /\ net' = net \ {m}
  BY DEF Landed, Failed, Expired
<1>3. (raced[c] => raced'[c]) /\ Undisturbed(c)
  BY <1>1, <1>2 DEF Landed, Failed, Expired, Undisturbed, SwapIsFunded
<1>4. OnCourse(c)
  BY <1>1, <1>3
<1>5. CASE ~Awaits(c, m)
  <2>1. ~Landed(m)
    BY <1>5 DEF Landed, Undisturbed
  <2>2. /\ UNCHANGED <<chainVars, option>> /\ pc'[c] = pc[c] /\ plan'[c] = plan[c]
    BY <1>1, <1>5, <2>1 DEF Failed, Expired, Confirmed
  <2>3. \A k \in net : Awaits(c, k) => k \in net'
    BY <1>2, <1>5
  <2> QED
    BY <1>2, <1>4, <2>2, <2>3, CourseFramed
<1>6. CASE Awaits(c, m)
  <2>1. /\ m.client = c /\ m.attempt = attempts[m.client] /\ pc[c] = "confirming"
    BY <1>6 DEF Awaits
  <2>2. CanRun(c, m.tx) /\ AtStage(c, m.tx, plan[c])
    <3>1. PICK k \in net : Awaits(c, k) /\ CanRun(c, k.tx) /\ AtStage(c, k.tx, plan[c])
      BY <1>4, <2>1 DEF OnCourse
    <3>2. k = m
      BY <1>1, <2>1, <3>1 DEF OneOnItsWay, Awaits
    <3> QED
      BY <3>1, <3>2
  <2>3. ~Failed(m)
    BY <2>1, <2>2 DEF Failed
  <2>4. CASE Expired(m)
    <3>1. pc'[c] = "idle"
      BY <1>6, <2>4 DEF Expired
    <3> QED
      BY <3>1 DEF OnCourse
  <2>5. CASE Landed(m)
    <3>1. /\ Run(c, m.tx) /\ plan' = plan
          /\ pc'[c] = IF plan[c] = <<>> THEN "done" ELSE "sending"
      BY <1>6, <2>1, <2>5 DEF Landed, Confirmed
    <3>2. /\ plan[c] = <<>> => Launched(c)' /\ wsol'[c] = before'[c]
          /\ plan[c] # <<>> => AtStage(c, Head(plan[c]), Tail(plan[c]))'
      <4>1. \A t, s : AtStage(c, t, s) /\ Run(c, t) =>
               /\ s = <<>> => Launched(c)' /\ wsol'[c] = before'[c]
               /\ s # <<>> => AtStage(c, Head(s), Tail(s))'
        BY <1>1, <1>2, StageGoesOn
      <4>2. /\ plan[c] = <<>> => Launched(c)' /\ wsol'[c] = before'[c]
            /\ plan[c] # <<>> => AtStage(c, Head(plan[c]), Tail(plan[c]))'
        BY <2>2, <3>1, <4>1
      <4> QED
        BY <3>1, <4>2
    <3> QED
      BY <3>1, <3>2 DEF OnCourse
  <2> QED
    BY <2>3, <2>4, <2>5
<1> QED
  BY <1>5, <1>6

\* The initial states satisfy the invariant, and every step keeps it.
LEMMA CourseInit == Init => CourseInv
<1> SUFFICES ASSUME Init PROVE CourseInv
  OBVIOUS
<1>1. LaunchInv
  BY LaunchInit
<1>2. OneOnItsWay
  BY DEF Init, OneOnItsWay
<1>3. raced \in [Clients -> BOOLEAN] /\ before \in [Clients -> Nat]
  <2>1. before = wsol /\ raced = [c \in Clients |-> FALSE]
    BY DEF Init
  <2> QED
    BY <1>1, <2>1 DEF LaunchInv, Kinds
<1>4. \A c \in Clients : OnCourse(c)
  BY DEF Init, OnCourse
<1> QED
  BY <1>1, <1>2, <1>3, <1>4 DEF CourseInv

LEMMA CourseStep == CourseInv /\ [Next]_vars => CourseInv'
<1> SUFFICES ASSUME CourseInv, [Next]_vars PROVE CourseInv'
  OBVIOUS
<1>1. /\ LaunchInv /\ OneOnItsWay
      /\ raced \in [Clients -> BOOLEAN] /\ before \in [Clients -> Nat]
      /\ wsol \in [Clients -> Nat] /\ \A c \in Clients : Undisturbed(c) => OnCourse(c)
  BY DEF CourseInv, LaunchInv, Kinds
<1>2. LaunchInv'
  BY <1>1, LaunchStep
<1>3. CASE UNCHANGED vars
  <2>1. /\ UNCHANGED <<chainVars, option>> /\ net' = net /\ pc' = pc /\ attempts' = attempts
        /\ seen' = seen /\ plan' = plan /\ before' = before /\ raced' = raced /\ option' = option
    BY <1>3 DEF vars
  <2>2. OneOnItsWay'
    BY <1>1, <2>1 DEF OneOnItsWay
  <2>3. ASSUME NEW c \in Clients, Undisturbed(c)' PROVE OnCourse(c)'
    <3>1. OnCourse(c)
      BY <1>1, <2>1, <2>3 DEF Undisturbed, SwapIsFunded
    <3> QED
      BY <2>1, <3>1, CourseFramed
  <2> QED
    BY <1>1, <1>2, <2>1, <2>2, <2>3 DEF CourseInv
<1>4. CASE Next
  <2>1. OneOnItsWay'
    BY <1>1, <1>4, OneOnItsWayKept
  <2>2. ASSUME NEW d \in Clients,
               ReadVaults(d) \/ ReadAccounts(d) \/ Send(d) \/ Refused(d) \/ Crash(d)
        PROVE  CourseInv'
    <3>1. /\ option' = option /\ UNCHANGED <<chainVars, option>> /\ net \subseteq net'
          /\ raced' = raced \/ raced' = [raced EXCEPT ![d] = FALSE]
          /\ before' = before \/ before' = [before EXCEPT ![d] = wsol[d]]
      BY <2>2 DEF ReadVaults, ReadAccounts, Send, Refused, Crash
    <3>2. raced' \in [Clients -> BOOLEAN] /\ before' \in [Clients -> Nat]
      BY <1>1, <3>1
    <3>3. ASSUME NEW c \in Clients, c # d, Undisturbed(c)' PROVE OnCourse(c)'
      <4>1. /\ pc'[c] = pc[c] /\ plan'[c] = plan[c] /\ seen'[c] = seen[c]
            /\ before'[c] = before[c] /\ attempts'[c] = attempts[c] /\ raced'[c] = raced[c]
        <5>1. /\ pc \in [Clients -> Phases] /\ plan \in [Clients -> Seq(Transactions)]
              /\ seen \in [Clients -> SUBSET Sides] /\ attempts \in [Clients -> Nat]
          BY <1>1 DEF LaunchInv, Kinds
        <5> QED
          BY <1>1, <2>2, <3>3, <5>1 DEF ReadVaults, ReadAccounts, Send, Refused, Crash
      <4>2. OnCourse(c)
        BY <1>1, <3>1, <3>3, <4>1 DEF Undisturbed, SwapIsFunded
      <4> QED
        BY <3>1, <4>1, <4>2, CourseFramed
    <3>4. ASSUME NEW c \in Clients, c = d, Undisturbed(c)' PROVE OnCourse(c)'
      BY <2>2, <3>4, OwnStepsOnCourse
    <3>5. \A c \in Clients : Undisturbed(c)' => OnCourse(c)'
      BY <3>3, <3>4
    <3> QED
      BY <1>2, <2>1, <3>2, <3>5 DEF CourseInv
  <2>3. ASSUME NEW m \in net, Landed(m) \/ Failed(m) \/ Expired(m) PROVE CourseInv'
    <3>1. raced' \in [Clients -> BOOLEAN] /\ before' \in [Clients -> Nat]
      BY <1>1, <2>3 DEF Landed, Failed, Expired
    <3>2. \A c \in Clients : Undisturbed(c)' => OnCourse(c)'
      BY <2>3, AnswersOnCourse
    <3> QED
      BY <1>2, <2>1, <3>1, <3>2 DEF CourseInv
  <2> QED
    BY <1>4, <2>2, <2>3 DEF Next
<1> QED
  BY <1>3, <1>4

(***************************************************************************)
(* The theorems.                                                           *)
(***************************************************************************)

\* However many payers launch, stop and start again, wrapped SOL never goes below zero, a
\* payer without a token account has none of it, an attempt that is to send has something to
\* send, and a pool has LP tokens exactly when it exists (the handlers of AmmImpl.create...).
THEOREM TypeCorrect == Spec => []TypeOK
<1>1. LaunchInv => TypeOK
  BY DEF LaunchInv
<1> QED
  BY <1>1, LaunchInit, LaunchStep, PTL DEF Spec

\* A pool launched with lockLiquidity has its LP tokens locked in every state in which it
\* exists (createPoolPostInstructions go into the transaction that creates the pool).
THEOREM LockedFromBirthHolds == Spec => []LockedFromBirth
<1>1. LaunchInv => LockedFromBirth
  BY DEF LaunchInv
<1> QED
  BY <1>1, LaunchInit, LaunchStep, PTL DEF Spec

\* createPermissionlessPool leaves the payer's wrapped SOL as it was, in every step.
THEOREM SingleLaunchLeavesNothingHolds == Spec => SingleLaunchLeavesNothing
<1>1. LaunchInv /\ [Next]_vars => [SingleLeavesNothing]_vars
  <2> SUFFICES ASSUME LaunchInv, Next, NEW c \in Clients, option[c].version = "single"
               PROVE  wsol'[c] = wsol[c]
    BY DEF SingleLeavesNothing
  <2>1. ASSUME NEW d \in Clients,
               ReadVaults(d) \/ ReadAccounts(d) \/ Send(d) \/ Refused(d) \/ Crash(d)
        PROVE  wsol'[c] = wsol[c]
    BY <2>1 DEF ReadVaults, ReadAccounts, Send, Refused, Crash, chainVars
  <2>2. ASSUME NEW m \in net, Landed(m) PROVE wsol'[c] = wsol[c]
    <3>1. /\ m.client \in Clients /\ m.tx \in Fitting(m.client)
          /\ CanRun(m.client, m.tx) /\ Run(m.client, m.tx)
      BY <2>2 DEF LaunchInv, NetFits, Landed
    <3>2. /\ \A d \in Clients \ {m.client} : wsol'[d] = wsol[d]
          /\ option[m.client].version = "single" => wsol'[m.client] = wsol[m.client]
      BY <3>1, WrappedSolKept
    <3> QED
      BY <3>2
  <2>3. ASSUME NEW m \in net, Failed(m) \/ Expired(m) PROVE wsol'[c] = wsol[c]
    BY <2>3 DEF Failed, Expired, chainVars
  <2> QED
    BY <2>1, <2>2, <2>3 DEF Next
<1> QED
  BY <1>1, LaunchInit, LaunchStep, PTL DEF Spec, SingleLaunchLeavesNothing
\* The transactions that the creation functions of AmmImpl build fit together and fit what was
\* read: as long as no other attempt's transaction lands and the pool is not there yet, each of
\* them passes the simulation, and succeeds when it lands, however many payers launch.
THEOREM UndisturbedAttemptRunsHolds == Spec => []UndisturbedAttemptRuns
<1>1. CourseInv => UndisturbedAttemptRuns
  <2> SUFFICES ASSUME CourseInv, NEW c \in Clients, ~raced[c], SwapIsFunded(c),
                      PoolCreator(c) \in {None, c}
               PROVE  /\ pc[c] = "sending" /\ ~(PoolCreator(c) = c /\ Head(plan[c]).pool)
                            => CanRun(c, Head(plan[c]))
                      /\ \A m \in net :
                            Awaits(c, m) /\ ~(PoolCreator(c) = c /\ m.tx.pool) => CanRun(c, m.tx)
    BY DEF UndisturbedAttemptRuns
  <2>1. LaunchInv /\ OneOnItsWay /\ OnCourse(c) /\ before \in [Clients -> Nat]
    BY DEF CourseInv, Undisturbed
  <2>2. ASSUME pc[c] = "sending", ~(PoolCreator(c) = c /\ Head(plan[c]).pool)
        PROVE  CanRun(c, Head(plan[c]))
    <3>1. AtStage(c, Head(plan[c]), Tail(plan[c]))
      BY <2>1, <2>2 DEF OnCourse
    <3> QED
      BY <2>1, <2>2, <3>1, StageRuns
  <2>3. ASSUME NEW m \in net, Awaits(c, m) PROVE CanRun(c, m.tx)
    <3>1. pc[c] = "confirming"
      BY <2>3 DEF Awaits
    <3>2. PICK k \in net : Awaits(c, k) /\ CanRun(c, k.tx)
      BY <2>1, <3>1 DEF OnCourse
    <3>3. k = m
      BY <2>1, <2>3, <3>2 DEF OneOnItsWay, Awaits
    <3> QED
      BY <3>2, <3>3
  <2> QED
    BY <2>2, <2>3
<1> QED
  BY <1>1, CourseInit, CourseStep, PTL DEF Spec

\* An attempt that ends without another attempt's transaction having landed has created the
\* pool, has put the LP tokens where lockLiquidity says, and leaves the payer's wrapped SOL as it
\* found it: what was wrapped for the deposit and the swap is exactly what they take.
THEOREM UndisturbedAttemptIsExactHolds == Spec => []UndisturbedAttemptIsExact
<1>1. CourseInv => UndisturbedAttemptIsExact
  BY DEF CourseInv, Undisturbed, OnCourse, Launched, UndisturbedAttemptIsExact
<1> QED
  BY <1>1, CourseInit, CourseStep, PTL DEF Spec
=============================================================================
