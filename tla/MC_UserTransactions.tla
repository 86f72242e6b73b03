------------------------ MODULE MC_UserTransactions ------------------------
(* Calls for model checking: every kind, with and without a second party. *)
EXTENDS UserTransactions, TLC

MCCalls ==
    {Call("swap", "SOL", r) : r \in Wallets \cup {NoCall}} \cup {Call("swap", "A", NoCall)}
    \cup {Call("deposit", s, NoCall) : s \in {"both", "SOL"}}
    \cup {Call("withdraw", s, NoCall) : s \in {"both", "A", "SOL"}}
    \cup {Call("lockLiquidity", "none", w) : w \in Wallets}
    \cup {Call("claimLockFee", "none", NoCall), Call("createConfig", "none", NoCall)}

WalletSymmetry == Permutations(Wallets)
=============================================================================
