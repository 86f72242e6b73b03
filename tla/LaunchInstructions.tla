------------------------- MODULE LaunchInstructions -------------------------
(***************************************************************************)
(* The instructions in the transactions that launch a pool                 *)
(* (ts-client/src/amm/index.ts) and what the runtime asks of them: one      *)
(* payer signs, whatever an instruction changes is declared writable by the *)
(* IDL, the accounts it names exist by then and those it creates do not.    *)
(*                                                                         *)
(* An account of the pool goes by its role, <<role>>; <<"ata", o, m>> is    *)
(* the token account of o for m, where o is the payer c or its lock escrow  *)
(* <<"escrow", c>>.                                                        *)
(***************************************************************************)
EXTENDS Sequences, Naturals, Functions

CONSTANT Payers

Idl == INSTANCE AmmIdl

Ata(o, m) == <<"ata", o, m>>
Escrow(c) == <<"escrow", c>>

-----------------------------------------------------------------------------
(* What the programs do with the accounts (external: from the account constraints of the  *)
(* handlers' structs and the seeds of what they create)                                   *)

Creations == {"initializePermissionlessConstantProductPoolWithConfig2",
              "initializePermissionlessConstantProductPoolWithConfig",
              "initializePermissionlessPoolWithFeeTier"}

CreatedRoles(op) ==
    CASE op \in Creations -> {"pool", "lpMint", "aVaultLp", "bVaultLp", "payerPoolLp",
                              "protocolTokenAFee", "protocolTokenBFee", "mintMetadata"}
      [] op = "createLockEscrow" -> {"lockEscrow"}
      [] OTHER -> {}

\* The roles an instruction changes besides those it creates.
ChangedRoles(op) ==
    CASE op \in Creations -> Idl!VaultRoles \cup {"payer", "payerTokenA", "payerTokenB"}
      [] op = "createLockEscrow" -> {"payer"}
      [] op = "lock" -> {"lockEscrow", "sourceTokens", "escrowVault"}
      [] op = "swap" -> Idl!VaultRoles
                        \cup {"userSourceToken", "userDestinationToken", "protocolTokenFee"}

\* Token accounts of the right tokens, addresses derived from the right seeds.
RightAccounts(op, acc) ==
    CASE op \in Creations ->
            /\ acc.payerTokenA[3] = "A" /\ acc.payerTokenB[3] = "B"
            /\ acc.payerPoolLp = Ata(acc.payer, "LP")
      [] op = "createLockEscrow" -> acc.lockEscrow = Escrow(acc.owner)
      [] op = "lock" ->
            /\ acc.lockEscrow = Escrow(acc.owner)
            /\ acc.sourceTokens = Ata(acc.owner, "LP")
            /\ acc.escrowVault = Ata(acc.lockEscrow, "LP")
      [] op = "swap" ->
            LET fee == [A |-> "protocolTokenAFee", B |-> "protocolTokenBFee"] IN
            /\ acc.userSourceToken[3] # acc.userDestinationToken[3]
            /\ acc.protocolTokenFee = <<fee[acc.userSourceToken[3]]>>

\* An instruction that the client binds to accounts, with what it creates, what it needs to
\* find, and what it changes without having declared it writable.
Bound(op, own) ==
    LET ix == Idl!Bound(op, own)
        creates == {ix.acc[r] : r \in CreatedRoles(op)}
        changes == creates \cup {ix.acc[r] : r \in ChangedRoles(op)}
    IN  [creates |-> creates, needs |-> Range(ix.acc) \ creates,
         writable |-> ix.writable, undeclared |-> changes \ ix.writable,
         signers |-> ix.signers, right |-> RightAccounts(op, ix.acc)]

\* An instruction of another program.
Native(c, creates, needs) ==
    [creates |-> creates, needs |-> needs, writable |-> {c} \cup creates \cup needs,
     undeclared |-> {}, signers |-> {c}, right |-> TRUE]

VaultAccounts == [A |-> {<<"aVault">>, <<"aTokenVault">>, <<"aVaultLpMint">>},
                  B |-> {<<"bVault">>, <<"bTokenVault">>, <<"bVaultLpMint">>}]

-----------------------------------------------------------------------------
(* What the client builds *)

CreateVault == [c \in Payers |-> [x \in {"A", "B"} |-> Native(c, VaultAccounts[x], {})]]
CreateAta(c, o, m) == Native(c, {Ata(o, m)}, {})
CreatePayerAta == [c \in Payers |-> CreateAta(c, c, "B")]
WrapSol == [c \in Payers |-> Native(c, {}, {Ata(c, "B")})]

\* The accounts of the payer that the instructions creating a pool name.
PayerRoles(c) == [payerTokenA |-> Ata(c, "A"), payerTokenB |-> Ata(c, "B"),
                  payerPoolLp |-> Ata(c, "LP"), payer |-> c]

\* The instruction of createPermissionlessConstantProductPoolWithConfig2, ...WithConfig
\* and createPermissionlessPool.
InitializeConfig2 ==
    [c \in Payers |->
        Bound("initializePermissionlessConstantProductPoolWithConfig2", PayerRoles(c))]
InitializeConfig ==
    [c \in Payers |->
        Bound("initializePermissionlessConstantProductPoolWithConfig", PayerRoles(c))]
InitializeFeeTier ==
    [c \in Payers |-> Bound("initializePermissionlessPoolWithFeeTier", PayerRoles(c))]

CreateLockEscrow(c) ==
    Bound("createLockEscrow", [lockEscrow |-> Escrow(c), owner |-> c, payer |-> c])
Lock(c) ==
    Bound("lock", [lockEscrow |-> Escrow(c), owner |-> c, sourceTokens |-> Ata(c, "LP"),
                   escrowVault |-> Ata(Escrow(c), "LP")])

\* Mutant: the lock comes before the token account that it fills.
LockBeforeAccount ==
    [c \in Payers |-> <<CreateLockEscrow(c), Lock(c), CreateAta(c, Escrow(c), "LP")>>]

\* createPoolPostInstructions of lockLiquidity; the escrow of a pool that does not exist
\* yet never has a token account when it is looked for.
LockInstructions ==
    [c \in Payers |-> <<CreateLockEscrow(c), CreateAta(c, Escrow(c), "LP"), Lock(c)>>]

\* The swap of swapLiquidity, B to A, whose fee goes to the pool's account for B.
SwapInstruction ==
    [c \in Payers |->
        Bound("swap", [userSourceToken |-> Ata(c, "B"), userDestinationToken |-> Ata(c, "A"),
                       protocolTokenFee |-> <<"protocolTokenBFee">>, user |-> c])]

-----------------------------------------------------------------------------
(* What the runtime asks of a transaction *)

\* A transaction of c with the instructions ixs runs where the accounts open exist: an
\* instruction may use what the ones before it created.
Accepted(c, open, ixs) ==
    \A k \in 1..Len(ixs) :
        LET before == open \cup UNION {ixs[j].creates : j \in 1..(k - 1)} IN
        /\ ixs[k].right
        /\ ixs[k].signers \subseteq {c}
        /\ \A a \in ixs[k].undeclared : \E j \in 1..Len(ixs) : a \in ixs[j].writable
        /\ ixs[k].creates \cap before = {}
        /\ ixs[k].needs \subseteq before

\* What is there whoever launches what: the payer, the token mints, a config, programs.
AlwaysOpen ==
    [c \in Payers |->
        {c, Ata(c, "A")} \cup {<<r>> : r \in Idl!Mints \cup Idl!CreationPrograms
                                            \cup {"config", "feeOwner"}}]

\* What initialize created, and what locking the LP tokens adds.
PoolAccounts == [c \in Payers |-> InitializeFeeTier[c].creates]
EscrowAccounts == [c \in Payers |-> {Escrow(c), Ata(Escrow(c), "LP")}]

\* Accounts that are nobody's wallet: those of the pool, the escrow and token accounts of c.
NoWallets(c) ==
    {<<r>> : r \in Idl!PoolCreation} \cup {Escrow(c)}
    \cup {Ata(o, m) : o \in {c, Escrow(c)}, m \in {"A", "B", "LP"}}
=============================================================================
