------------------------------ MODULE AmmIdl ------------------------------
(***************************************************************************)
(* The interface of the dynamic-amm program as the IDL constant declares it *)
(* (ts-client/src/amm/idl.ts): for every instruction that AmmImpl builds,   *)
(* the roles its accounts play, which of them it may write and which of     *)
(* them must have signed.  The client resolves an instruction's flags from  *)
(* this table and the runtime refuses an instruction that changes an        *)
(* account it did not declare writable.                                     *)
(***************************************************************************)
EXTENDS FiniteSets

Instruction(writable, readonly, signers) ==
    [writable |-> writable, readonly |-> readonly, signers |-> signers]

Roles(ix) == ix.writable \cup ix.readonly

\* What every instruction that moves tokens through the vaults takes.
VaultRoles == {"aVault", "bVault", "aVaultLp", "bVaultLp",
               "aVaultLpMint", "bVaultLpMint", "aTokenVault", "bTokenVault"}
Programs == {"vaultProgram", "tokenProgram"}

\* Mutant: the token account that receives is not declared writable.
SwapReadOnlyDestination ==
    Instruction({"pool", "userSourceToken", "protocolTokenFee"} \cup VaultRoles,
                {"user", "userDestinationToken"} \cup Programs, {"user"})

Swap ==
    Instruction({"pool", "userSourceToken", "userDestinationToken", "protocolTokenFee"}
                    \cup VaultRoles,
                {"user"} \cup Programs, {"user"})

\* Depositing and withdrawing both tokens take the same accounts.
BothTokens ==
    Instruction({"pool", "lpMint", "userPoolLp", "userAToken", "userBToken"} \cup VaultRoles,
                {"user"} \cup Programs, {"user"})

AddBalanceLiquidity == BothTokens
AddImbalanceLiquidity == BothTokens
BootstrapLiquidity == BothTokens
RemoveBalanceLiquidity == BothTokens

RemoveLiquiditySingleSide ==
    Instruction({"pool", "lpMint", "userPoolLp", "userDestinationToken"} \cup VaultRoles,
                {"user"} \cup Programs, {"user"})

\* Anybody may pay for the escrow of anybody.
CreateLockEscrow ==
    Instruction({"lockEscrow", "payer"}, {"pool", "owner", "lpMint", "systemProgram"}, {"payer"})

\* The owner of lock is the owner of the tokens that are locked.
Lock ==
    Instruction({"pool", "lockEscrow", "owner", "sourceTokens", "escrowVault"},
                {"lpMint", "tokenProgram"}
                    \cup (VaultRoles \ {"aTokenVault", "bTokenVault"}),
                {"owner"})

\* The owner of claimFee is the owner of the escrow.
ClaimFee ==
    Instruction({"pool", "lpMint", "lockEscrow", "owner", "sourceTokens", "escrowVault",
                 "userAToken", "userBToken"} \cup VaultRoles,
                Programs, {"owner"})

CreateConfig == Instruction({"config", "admin"}, {"systemProgram"}, {"admin"})
CloseConfig == Instruction({"config", "admin", "rentReceiver"}, {}, {"admin"})

\* What the instructions that create a pool write: everything they create or deposit into.
PoolCreation ==
    {"pool", "lpMint", "payerTokenA", "payerTokenB", "payerPoolLp", "payer",
     "protocolTokenAFee", "protocolTokenBFee", "mintMetadata"} \cup VaultRoles
CreationPrograms ==
    Programs \cup {"rent", "metadataProgram", "associatedTokenProgram", "systemProgram"}
Mints == {"tokenAMint", "tokenBMint"}

InitializeWithFeeTier ==
    Instruction(PoolCreation, Mints \cup {"feeOwner"} \cup CreationPrograms, {"payer"})
InitializeWithConfig ==
    Instruction(PoolCreation, Mints \cup {"config"} \cup CreationPrograms, {"payer"})

\* Mutant: the pool's new mint is not declared writable.
InitializeWithConfig2ReadOnlyMint ==
    Instruction(PoolCreation \ {"lpMint"}, Mints \cup {"config", "lpMint"} \cup CreationPrograms,
                {"payer"})
InitializeWithConfig2 ==
    Instruction(PoolCreation, Mints \cup {"config"} \cup CreationPrograms, {"payer"})

\* The program's instructions by the names of the IDL.
AmmInstructions ==
    [swap |-> Swap,
     addBalanceLiquidity |-> AddBalanceLiquidity,
     addImbalanceLiquidity |-> AddImbalanceLiquidity,
     bootstrapLiquidity |-> BootstrapLiquidity,
     removeBalanceLiquidity |-> RemoveBalanceLiquidity,
     removeLiquiditySingleSide |-> RemoveLiquiditySingleSide,
     createLockEscrow |-> CreateLockEscrow,
     lock |-> Lock,
     claimFee |-> ClaimFee,
     createConfig |-> CreateConfig,
     closeConfig |-> CloseConfig,
     initializePermissionlessPoolWithFeeTier |-> InitializeWithFeeTier,
     initializePermissionlessConstantProductPoolWithConfig |-> InitializeWithConfig,
     initializePermissionlessConstantProductPoolWithConfig2 |-> InitializeWithConfig2]

\* methods[op]().accounts(own): each role bound to the account that own names for it, or
\* to the pool's own account of that role, with the flags of the IDL.
Bound(op, own) ==
    LET ix == AmmInstructions[op]
        acc == [r \in Roles(ix) |-> IF r \in DOMAIN own THEN own[r] ELSE <<r>>]
    IN  [op |-> op, acc |-> acc,
         writable |-> {acc[r] : r \in ix.writable}, signers |-> {acc[r] : r \in ix.signers}]
=============================================================================
