---------------------- MODULE UserTransactions_proofs ----------------------
(***************************************************************************)
(* Proofs about the transactions of AmmImpl's builders, for any wallets,    *)
(* calls, first balances and configs, and any number of transactions under  *)
(* way: balances stay natural, nobody but the payer signs, no wrapped SOL   *)
(* is left over, a transaction that lands does what was asked, and one that *)
(* nothing has interfered with does land.                                  *)
(***************************************************************************)
EXTENDS UserTransactions, SequenceTheorems, FiniteSetTheorems, WellFoundedInduction, TLAPS

(***************************************************************************)
(* What a sequence of instructions makes of a ledger.                      *)
(***************************************************************************)

\* The instructions of s can be executed one after the other from L, and lead to M.
Runs(L, s, fee, M) ==
    \E l : /\ l[0] = L /\ l[Len(s)] = M
           /\ \A k \in 1 .. Len(s) : /\ Allowed(l[k - 1], s[k], fee)
                                     /\ l[k] = After(l[k - 1], s[k], fee)

\* Every set of natural numbers has a least one.
LEMMA LeastNat ==
    ASSUME NEW T, T \subseteq Nat, T # {}
    PROVE  \E x \in T : \A y \in T : x <= y
<1> DEFINE R == OpToRel(<, Nat)
<1>1. IsWellFoundedOn(R, Nat)
  BY NatLessThanWellFounded
<1>2. \A x, y \in Nat : <<x, y>> \in R <=> x < y
  BY DEF OpToRel
<1> HIDE DEF R
<1>3. PICK x \in T : \A y \in T : ~(<<y, x>> \in R)
  BY <1>1, WFMin
<1>4. \A y \in T : ~(y < x)
  BY <1>2, <1>3
<1>5. \A y \in T : y \in Nat /\ x \in Nat
  OBVIOUS
<1> QED
  BY <1>4, <1>5

\* What one more instruction makes of an execution that started on L.
Onward(L, b, ix, fee) ==
    IF b.ok /\ Allowed(b.ledger, ix, fee)
    THEN [ok |-> TRUE, ledger |-> After(b.ledger, ix, fee)]
    ELSE [ok |-> FALSE, ledger |-> L]

\* r[k]: what becomes of L when the first k instructions of t have been executed.
Execution(L, t, fee, r) ==
    /\ r[0] = [ok |-> Accepted(t, fee), ledger |-> L]
    /\ \A k \in 1 .. Len(t.ixs) : r[k] = Onward(L, r[k - 1], t.ixs[k], fee)
    /\ Executed(L, t, fee) = r[Len(t.ixs)]

\* The recursion by which a transaction is executed has a solution.
LEMMA ExecutedSteps ==
    ASSUME NEW L, NEW t, NEW fee, Len(t.ixs) \in Nat
    PROVE  \E r : Execution(L, t, fee, r)
<1> DEFINE N == Len(t.ixs)
           base == [ok |-> Accepted(t, fee), ledger |-> L]
           F(b, k) == Onward(L, b, t.ixs[k], fee)
           Solves(g, n) == g = [k \in 0 .. n |-> IF k = 0 THEN base ELSE F(g[k - 1], k)]
           T == {n \in Nat : ~ \E g : Solves(g, n)}
<1> HIDE DEF base, F
<1>1. T = {}
  <2> SUFFICES ASSUME T # {} PROVE FALSE
    OBVIOUS
  <2>1. PICK n \in T : \A m \in T : n <= m
    BY LeastNat
  <2>2. n # 0
    <3>1. Solves([k \in 0 .. 0 |-> base], 0)
      OBVIOUS
    <3> QED
      BY <2>1, <3>1
  <2>3. n \in Nat /\ n - 1 \in Nat /\ n - 1 \notin T
    <3>1. n \in Nat
      BY <2>1
    <3>2. n - 1 \in Nat /\ ~(n <= n - 1)
      BY <2>2, <3>1
    <3> HIDE DEF T
    <3> QED
      BY <2>1, <3>1, <3>2
  <2>4. PICK g : Solves(g, n - 1)
    BY <2>3
  <2> DEFINE h == [k \in 0 .. n |-> IF k = n THEN F(g[n - 1], n) ELSE g[k]]
  <2>5. \A k \in 0 .. n : h[k] = IF k = 0 THEN base ELSE F(h[k - 1], k)
    <3> SUFFICES ASSUME NEW k \in 0 .. n PROVE h[k] = IF k = 0 THEN base ELSE F(h[k - 1], k)
      OBVIOUS
    <3>1. CASE k = n
      <4>1. h[k] = F(g[n - 1], n) /\ h[k - 1] = g[n - 1]
        BY <2>3, <3>1
      <4> QED
        BY <2>2, <3>1, <4>1
    <3>2. CASE k # n
      <4>1. k \in 0 .. n - 1 /\ h[k] = g[k] /\ (k # 0 => h[k - 1] = g[k - 1])
        BY <2>3, <3>2
      <4>2. g[k] = IF k = 0 THEN base ELSE F(g[k - 1], k)
        BY <2>4, <4>1
      <4> QED
        BY <4>1, <4>2
    <3> QED
      BY <3>1, <3>2
  <2>6. Solves(h, n)
    BY <2>5
  <2> QED
    BY <2>1, <2>6
<1>2. \E g : Solves(g, N)
  BY <1>1
<1>3. \E f : f = [k \in 0 .. Len(t.ixs) |->
               IF k = 0 THEN [ok |-> Accepted(t, fee), ledger |-> L]
               ELSE IF f[k - 1].ok /\ Allowed(f[k - 1].ledger, t.ixs[k], fee)
                    THEN [ok |-> TRUE, ledger |-> After(f[k - 1].ledger, t.ixs[k], fee)]
                    ELSE [ok |-> FALSE, ledger |-> L]]
  BY <1>2 DEF base, F, Onward
<1> DEFINE run[k \in 0 .. Len(t.ixs)] ==
             IF k = 0 THEN [ok |-> Accepted(t, fee), ledger |-> L]
             ELSE LET before == run[k - 1]
                  IN  IF before.ok /\ Allowed(before.ledger, t.ixs[k], fee)
                      THEN [ok |-> TRUE, ledger |-> After(before.ledger, t.ixs[k], fee)]
                      ELSE [ok |-> FALSE, ledger |-> L]
<1>4. Executed(L, t, fee) = run[N]
  BY DEF Executed
<1>5. run = [k \in 0 .. Len(t.ixs) |->
               IF k = 0 THEN [ok |-> Accepted(t, fee), ledger |-> L]
               ELSE IF run[k - 1].ok /\ Allowed(run[k - 1].ledger, t.ixs[k], fee)
                    THEN [ok |-> TRUE, ledger |-> After(run[k - 1].ledger, t.ixs[k], fee)]
                    ELSE [ok |-> FALSE, ledger |-> L]]
  BY <1>3, Zenon DEF run
<1> HIDE DEF run
<1>6. Solves(run, N)
  BY <1>5 DEF base, F, Onward
<1>7. N \in Nat
  OBVIOUS
<1> HIDE DEF N
<1>8. run[0] = base /\ \A k \in 1 .. N : run[k] = F(run[k - 1], k)
  <2>1. \A k \in 0 .. N : run[k] = IF k = 0 THEN base ELSE F(run[k - 1], k)
    BY <1>6
  <2> QED
    BY <1>7, <2>1
<1> QED
  BY <1>4, <1>8 DEF base, F, N, Execution

\* A transaction that is executed is accepted, and its instructions run one after the other.
LEMMA ExecutedRuns ==
    ASSUME NEW L, NEW t, NEW fee, Len(t.ixs) \in Nat, Executed(L, t, fee).ok
    PROVE  Accepted(t, fee) /\ Runs(L, t.ixs, fee, Executed(L, t, fee).ledger)
<1> DEFINE N == Len(t.ixs)
<1>0. PICK run : Execution(L, t, fee, run)
  BY ExecutedSteps
<1>1. /\ run[0] = [ok |-> Accepted(t, fee), ledger |-> L]
      /\ \A k \in 1 .. N : run[k] = Onward(L, run[k - 1], t.ixs[k], fee)
      /\ Executed(L, t, fee) = run[N]
  BY <1>0 DEF Execution
<1>2. N \in Nat
  OBVIOUS
<1> HIDE DEF N
<1>3. run[0].ok = Accepted(t, fee) /\ run[0].ledger = L
  BY <1>1
<1>4. ASSUME NEW b, NEW ix, Onward(L, b, ix, fee).ok
      PROVE  b.ok /\ Allowed(b.ledger, ix, fee)
             /\ Onward(L, b, ix, fee).ledger = After(b.ledger, ix, fee)
  BY <1>4, Zenon DEF Onward
<1> DEFINE U == {k \in 0 .. N : ~run[N - k].ok}
<1>5. U = {}
  <2> SUFFICES ASSUME U # {} PROVE FALSE
    OBVIOUS
  <2>1. U \subseteq Nat
    BY <1>2
  <2>2. PICK k \in U : \A j \in U : k <= j
    BY <2>1, LeastNat
  <2>3. k # 0
    BY <1>1, <1>2, <2>2
  <2>4. N - (k - 1) \in 1 .. N /\ (N - (k - 1)) - 1 = N - k /\ k - 1 \in 0 .. N /\ ~(k <= k - 1)
    BY <1>2, <2>2, <2>3
  <2>5. run[N - (k - 1)].ok
    BY <2>2, <2>4
  <2>6. run[N - (k - 1)] = Onward(L, run[N - k], t.ixs[N - (k - 1)], fee)
    BY <1>1, <2>4
  <2>7. run[N - k].ok
    BY <1>4, <2>5, <2>6
  <2> QED
    BY <2>2, <2>7
<1>6. \A k \in 0 .. N : run[k].ok
  <2> SUFFICES ASSUME NEW k \in 0 .. N PROVE run[k].ok
    OBVIOUS
  <2>1. N - k \in 0 .. N /\ N - (N - k) = k
    BY <1>2
  <2> QED
    BY <1>5, <2>1
<1>7. Accepted(t, fee)
  BY <1>2, <1>3, <1>6
<1> DEFINE l == [k \in 0 .. N |-> run[k].ledger]
<1>8. l[0] = L /\ l[N] = Executed(L, t, fee).ledger
  BY <1>1, <1>2, <1>3
<1>9. ASSUME NEW k \in 1 .. N
      PROVE  Allowed(l[k - 1], t.ixs[k], fee) /\ l[k] = After(l[k - 1], t.ixs[k], fee)
  <2>1. k - 1 \in 0 .. N /\ k \in 0 .. N
    BY <1>2
  <2>2. run[k] = Onward(L, run[k - 1], t.ixs[k], fee) /\ run[k].ok
    BY <1>1, <1>6, <2>1
  <2>3. Allowed(run[k - 1].ledger, t.ixs[k], fee)
        /\ run[k].ledger = After(run[k - 1].ledger, t.ixs[k], fee)
    BY <1>4, <2>2
  <2> QED
    BY <2>1, <2>3
<1> HIDE DEF l
<1> QED
  BY <1>7, <1>8, <1>9 DEF Runs, N

\* A transaction that is accepted and whose instructions run one after the other is executed.
LEMMA RunsExecuted ==
    ASSUME NEW L, NEW M, NEW t, NEW fee, Len(t.ixs) \in Nat, Accepted(t, fee),
           Runs(L, t.ixs, fee, M)
    PROVE  Executed(L, t, fee).ok
<1> DEFINE N == Len(t.ixs)
<1>0. PICK run : Execution(L, t, fee, run)
  BY ExecutedSteps
<1>1. /\ run[0] = [ok |-> Accepted(t, fee), ledger |-> L]
      /\ \A k \in 1 .. N : run[k] = Onward(L, run[k - 1], t.ixs[k], fee)
      /\ Executed(L, t, fee) = run[N]
  BY <1>0 DEF Execution
<1>2. PICK l : /\ l[0] = L /\ l[N] = M
               /\ \A k \in 1 .. N : /\ Allowed(l[k - 1], t.ixs[k], fee)
                                    /\ l[k] = After(l[k - 1], t.ixs[k], fee)
  BY DEF Runs
<1>3. N \in Nat
  OBVIOUS
<1> HIDE DEF N
<1> DEFINE Ran(k) == run[k].ok /\ run[k].ledger = l[k]
           T == {k \in 0 .. N : ~Ran(k)}
<1>4. Ran(0)
  BY <1>1, <1>2
<1>5. ASSUME NEW b, NEW ix, b.ok, Allowed(b.ledger, ix, fee)
      PROVE  /\ Onward(L, b, ix, fee).ok
             /\ Onward(L, b, ix, fee).ledger = After(b.ledger, ix, fee)
  <2>1. Onward(L, b, ix, fee) = [ok |-> TRUE, ledger |-> After(b.ledger, ix, fee)]
    BY <1>5, Zenon DEF Onward
  <2> QED
    BY <2>1
<1>6. T = {}
  <2> SUFFICES ASSUME T # {} PROVE FALSE
    OBVIOUS
  <2>1. T \subseteq Nat
    BY <1>3
  <2>2. PICK k \in T : \A j \in T : k <= j
    BY <2>1, LeastNat
  <2>3. k # 0
    BY <1>4, <2>2
  <2>4. k \in 1 .. N /\ k - 1 \in 0 .. N /\ ~(k <= k - 1)
    BY <1>3, <2>2, <2>3
  <2>5. Ran(k - 1)
    <3> HIDE DEF Ran
    <3> QED
      BY <2>2, <2>4
  <2>6. /\ Allowed(run[k - 1].ledger, t.ixs[k], fee)
        /\ After(run[k - 1].ledger, t.ixs[k], fee) = l[k]
    BY <1>2, <2>4, <2>5
  <2>7. run[k] = Onward(L, run[k - 1], t.ixs[k], fee)
    BY <1>1, <2>4
  <2>8. Ran(k)
    BY <1>5, <2>5, <2>6, <2>7
  <2> QED
    BY <2>2, <2>8
<1>7. N \in 0 .. N
  BY <1>3
<1> QED
  BY <1>1, <1>6, <1>7

\* What runs in two parts runs first the one, then the other.
LEMMA RunsSplit ==
    ASSUME NEW L, NEW M, NEW fee, NEW S, NEW s \in Seq(S), NEW u \in Seq(S),
           Runs(L, s \o u, fee, M)
    PROVE  \E K : Runs(L, s, fee, K) /\ Runs(K, u, fee, M)
<1> DEFINE n == Len(s)
           m == Len(u)
<1>1. /\ n \in Nat /\ m \in Nat /\ Len(s \o u) = n + m
      /\ \A i \in 1 .. n + m : (s \o u)[i] = IF i <= n THEN s[i] ELSE u[i - n]
  BY LenProperties, ConcatProperties
<1>2. PICK l : /\ l[0] = L /\ l[n + m] = M
               /\ \A k \in 1 .. n + m : /\ Allowed(l[k - 1], (s \o u)[k], fee)
                                        /\ l[k] = After(l[k - 1], (s \o u)[k], fee)
  BY <1>1 DEF Runs
<1> HIDE DEF n, m
<1>3. \A k \in 1 .. n : /\ Allowed(l[k - 1], s[k], fee)
                        /\ l[k] = After(l[k - 1], s[k], fee)
  <2> SUFFICES ASSUME NEW k \in 1 .. n
               PROVE  Allowed(l[k - 1], s[k], fee) /\ l[k] = After(l[k - 1], s[k], fee)
    OBVIOUS
  <2>1. k \in 1 .. n + m /\ k <= n
    BY <1>1
  <2>2. (s \o u)[k] = s[k]
    BY <1>1, <2>1
  <2> QED
    BY <1>2, <2>1, <2>2
<1>4. Runs(L, s, fee, l[n])
  BY <1>2, <1>3 DEF Runs, n
<1> DEFINE h == [k \in 0 .. m |-> l[n + k]]
<1>5. h[0] = l[n] /\ h[m] = M
  BY <1>1, <1>2
<1>6. ASSUME NEW k \in 1 .. m
      PROVE  Allowed(h[k - 1], u[k], fee) /\ h[k] = After(h[k - 1], u[k], fee)
  <2>1. n + k \in 1 .. n + m /\ ~(n + k <= n) /\ (n + k) - n = k
        /\ (n + k) - 1 = n + (k - 1) /\ k - 1 \in 0 .. m /\ k \in 0 .. m
    BY <1>1
  <2>2. (s \o u)[n + k] = u[k]
    BY <1>1, <2>1
  <2>3. Allowed(l[(n + k) - 1], u[k], fee) /\ l[n + k] = After(l[(n + k) - 1], u[k], fee)
    BY <1>2, <2>1, <2>2
  <2>4. h[k - 1] = l[(n + k) - 1] /\ h[k] = l[n + k]
    BY <2>1
  <2> QED
    BY <2>3, <2>4
<1> HIDE DEF h
<1>7. Runs(l[n], u, fee, M)
  BY <1>5, <1>6 DEF Runs, m
<1> QED
  BY <1>4, <1>7

\* One instruction.
LEMMA RunsOne ==
    ASSUME NEW L, NEW M, NEW fee, NEW ix, Runs(L, <<ix>>, fee, M)
    PROVE  Allowed(L, ix, fee) /\ M = After(L, ix, fee)
<1>1. PICK l : /\ l[0] = L /\ l[1] = M
               /\ \A k \in 1 .. 1 : /\ Allowed(l[k - 1], <<ix>>[k], fee)
                                    /\ l[k] = After(l[k - 1], <<ix>>[k], fee)
  BY DEF Runs
<1>2. 1 \in 1 .. 1 /\ 1 - 1 = 0 /\ <<ix>>[1] = ix
  OBVIOUS
<1>3. Allowed(l[1 - 1], <<ix>>[1], fee) /\ l[1] = After(l[1 - 1], <<ix>>[1], fee)
  BY <1>1, <1>2
<1> QED
  BY <1>1, <1>2, <1>3

\* No instruction.
LEMMA RunsNone ==
    ASSUME NEW L, NEW M, NEW fee, Runs(L, <<>>, fee, M)
    PROVE  M = L
<1>1. Len(<<>>) = 0
  OBVIOUS
<1> QED
  BY <1>1 DEF Runs

\* What every instruction of S preserves, a sequence of them preserves.
LEMMA RunsKeep ==
    ASSUME NEW L, NEW M, NEW fee, NEW S, NEW s \in Seq(S), NEW I, L \in I,
           \A K \in I : \A ix \in S : Allowed(K, ix, fee) => After(K, ix, fee) \in I,
           Runs(L, s, fee, M)
    PROVE  M \in I
<1> DEFINE n == Len(s)
<1>1. n \in Nat /\ \A k \in 1 .. n : s[k] \in S
  BY LenProperties, ElementOfSeq
<1>2. PICK l : /\ l[0] = L /\ l[n] = M
               /\ \A k \in 1 .. n : /\ Allowed(l[k - 1], s[k], fee)
                                    /\ l[k] = After(l[k - 1], s[k], fee)
  BY DEF Runs
<1> HIDE DEF n
<1> DEFINE T == {k \in 0 .. n : l[k] \notin I}
<1>3. T = {}
  <2> SUFFICES ASSUME T # {} PROVE FALSE
    OBVIOUS
  <2>1. T \subseteq Nat
    BY <1>1
  <2>2. PICK k \in T : \A j \in T : k <= j
    BY <2>1, LeastNat
  <2>3. k # 0
    BY <1>2, <2>2
  <2>4. k \in 1 .. n /\ k - 1 \in 0 .. n /\ ~(k <= k - 1)
    BY <1>1, <2>2, <2>3
  <2>5. l[k - 1] \in I
    BY <2>2, <2>4
  <2>6. s[k] \in S /\ Allowed(l[k - 1], s[k], fee) /\ l[k] = After(l[k - 1], s[k], fee)
    BY <1>1, <1>2, <2>4
  <2>7. l[k] \in I
    BY <2>5, <2>6
  <2> QED
    BY <2>2, <2>7
<1> QED
  BY <1>1, <1>2, <1>3

(***************************************************************************)
(* The instructions.                                                       *)
(***************************************************************************)

\* What Bind makes of the roles of the IDL and the caller's own accounts.
LEMMA BindFields ==
    ASSUME NEW op, NEW own, NEW n, NEW remaining, NEW w,
           NEW writable, NEW readonly, NEW signer \in writable \cup readonly,
           Idl!AmmInstructions[op] = Idl!Instruction(writable, readonly, {signer}),
           signer \in DOMAIN own, own[signer] = w,
           NEW ix, ix = Bind(op, own, n, remaining)
    PROVE  /\ ix.op = op /\ ix.n = n /\ ix.remaining = remaining /\ ix.signers = {w}
           /\ \A r \in (writable \cup readonly) \cap DOMAIN own : ix.acc[r] = own[r]
<1> DEFINE i == Idl!Instruction(writable, readonly, {signer})
           acc == [r \in writable \cup readonly |-> IF r \in DOMAIN own THEN own[r] ELSE <<r>>]
<1>1. i.writable = writable /\ i.readonly = readonly /\ i.signers = {signer}
      /\ Idl!Roles(i) = writable \cup readonly
  BY DEF Idl!Instruction, Idl!Roles
<1>2. Idl!Bound(op, own).acc = acc /\ Idl!Bound(op, own).signers = {acc[r] : r \in {signer}}
  <2>1. Idl!AmmInstructions[op] = i
    OBVIOUS
  <2> HIDE DEF i
  <2> QED
    BY <1>1, <2>1 DEF Idl!Bound
<1>3. ix.op = op /\ ix.n = n /\ ix.remaining = remaining
      /\ ix.acc = Idl!Bound(op, own).acc /\ ix.signers = Idl!Bound(op, own).signers
  BY DEF Bind
<1>4. \A r \in (writable \cup readonly) \cap DOMAIN own : acc[r] = own[r]
  OBVIOUS
<1>5. acc[signer] = w
  BY <1>4
<1> HIDE DEF acc
<1>6. ix.signers = {w} /\ ix.acc = acc
  BY <1>2, <1>3, <1>5
<1> QED
  BY <1>3, <1>4, <1>6

\* The instruction of AmmImpl.swap.
LEMMA SwapBound ==
    ASSUME NEW w, NEW s, NEW d, NEW p, NEW n, NEW remaining
    PROVE  LET ix == Bind("swap", [userSourceToken |-> s, userDestinationToken |-> d,
                                   protocolTokenFee |-> p, user |-> w], n, remaining)
           IN  /\ ix.op = "swap" /\ ix.n = n /\ ix.remaining = remaining /\ ix.signers = {w}
               /\ ix.acc.userSourceToken = s /\ ix.acc.userDestinationToken = d
<1> DEFINE own == [userSourceToken |-> s, userDestinationToken |-> d,
                   protocolTokenFee |-> p, user |-> w]
           W == {"pool", "userSourceToken", "userDestinationToken", "protocolTokenFee"}
                    \cup Idl!VaultRoles
           R == {"user"} \cup Idl!Programs
           ix == Bind("swap", own, n, remaining)
<1>1. Idl!AmmInstructions["swap"] = Idl!Instruction(W, R, {"user"})
  BY DEF Idl!AmmInstructions, Idl!Swap
<1>2. /\ DOMAIN own = {"userSourceToken", "userDestinationToken", "protocolTokenFee", "user"}
      /\ own["userSourceToken"] = s /\ own["userDestinationToken"] = d /\ own["user"] = w
  OBVIOUS
<1>3. {"userSourceToken", "userDestinationToken", "user"} \subseteq W \cup R
  OBVIOUS
<1>4. "user" \in W \cup R /\ "user" \in DOMAIN own /\ own["user"] = w
  BY <1>2
<1>5. ix = Bind("swap", own, n, remaining)
  OBVIOUS
<1> DEFINE g == "user"
           o == "swap"
<1> HIDE DEF own, W, R, ix
<1>6. /\ ix.op = "swap" /\ ix.n = n /\ ix.remaining = remaining /\ ix.signers = {w}
      /\ \A r \in (W \cup R) \cap DOMAIN own : ix.acc[r] = own[r]
  <2>1. ix = Bind(o, own, n, remaining)
    BY <1>5
  <2>2. g \in W \cup R /\ g \in DOMAIN own /\ own[g] = w
        /\ Idl!AmmInstructions[o] = Idl!Instruction(W, R, {g})
    BY <1>1, <1>4
  <2> HIDE DEF g, o
  <2>3. /\ ix.op = o /\ ix.n = n /\ ix.remaining = remaining /\ ix.signers = {w}
        /\ \A r \in (W \cup R) \cap DOMAIN own : ix.acc[r] = own[r]
    BY <2>1, <2>2, BindFields
  <2> QED
    BY <2>3 DEF o
<1>7. ix.acc["userSourceToken"] = s /\ ix.acc["userDestinationToken"] = d
  BY <1>2, <1>3, <1>6
<1> QED
  BY <1>6, <1>7 DEF ix, own

BothOps == {"bootstrapLiquidity", "addImbalanceLiquidity", "addBalanceLiquidity",
            "removeBalanceLiquidity"}

\* The instructions that take or give both tokens.
LEMMA BothBound ==
    ASSUME NEW w, NEW op \in BothOps, NEW n
    PROVE  LET ix == Bind(op, UserRoles(w), n, {})
           IN  /\ ix.op = op /\ ix.n = n /\ ix.remaining = {} /\ ix.signers = {w}
               /\ ix.acc.userAToken = Ata(w, "A") /\ ix.acc.userBToken = Ata(w, "SOL")
               /\ ix.acc.userPoolLp = Ata(w, "LP")
<1> DEFINE own == UserRoles(w)
           W == {"pool", "lpMint", "userPoolLp", "userAToken", "userBToken"} \cup Idl!VaultRoles
           R == {"user"} \cup Idl!Programs
           ix == Bind(op, own, n, {})
<1>1. Idl!AmmInstructions[op] = Idl!Instruction(W, R, {"user"})
  BY DEF BothOps, Idl!AmmInstructions, Idl!AddBalanceLiquidity, Idl!AddImbalanceLiquidity,
         Idl!BootstrapLiquidity, Idl!RemoveBalanceLiquidity, Idl!BothTokens
<1>2. /\ DOMAIN own = {"userAToken", "userBToken", "userPoolLp", "user"}
      /\ own["userAToken"] = Ata(w, "A") /\ own["userBToken"] = Ata(w, "SOL")
      /\ own["userPoolLp"] = Ata(w, "LP") /\ own["user"] = w
  BY DEF UserRoles
<1>3. {"userAToken", "userBToken", "userPoolLp", "user"} \subseteq W \cup R
  OBVIOUS
<1>4. "user" \in W \cup R /\ "user" \in DOMAIN own /\ own["user"] = w
  BY <1>2
<1>5. ix = Bind(op, own, n, {})
  OBVIOUS
<1> DEFINE g == "user"
           e == {}
<1> HIDE DEF own, W, R, ix
<1>6. /\ ix.op = op /\ ix.n = n /\ ix.remaining = {} /\ ix.signers = {w}
      /\ \A r \in (W \cup R) \cap DOMAIN own : ix.acc[r] = own[r]
  <2>1. ix = Bind(op, own, n, e)
    BY <1>5
  <2>2. g \in W \cup R /\ g \in DOMAIN own /\ own[g] = w
        /\ Idl!AmmInstructions[op] = Idl!Instruction(W, R, {g})
    BY <1>1, <1>4
  <2> HIDE DEF g, e
  <2>3. /\ ix.op = op /\ ix.n = n /\ ix.remaining = e /\ ix.signers = {w}
        /\ \A r \in (W \cup R) \cap DOMAIN own : ix.acc[r] = own[r]
    BY <2>1, <2>2, BindFields
  <2> QED
    BY <2>3 DEF e
<1>7. /\ ix.acc["userAToken"] = Ata(w, "A") /\ ix.acc["userBToken"] = Ata(w, "SOL")
      /\ ix.acc["userPoolLp"] = Ata(w, "LP")
  BY <1>2, <1>3, <1>6
<1> QED
  BY <1>6, <1>7 DEF ix, own

\* The instruction of a withdrawal of one side.
LEMMA SingleBound ==
    ASSUME NEW w, NEW d, NEW n
    PROVE  LET ix == Bind("removeLiquiditySingleSide",
                          [userDestinationToken |-> d, userPoolLp |-> Ata(w, "LP"), user |-> w], n, {})
           IN  /\ ix.op = "removeLiquiditySingleSide" /\ ix.n = n /\ ix.remaining = {}
               /\ ix.signers = {w}
               /\ ix.acc.userDestinationToken = d /\ ix.acc.userPoolLp = Ata(w, "LP")
<1> DEFINE own == [userDestinationToken |-> d, userPoolLp |-> Ata(w, "LP"), user |-> w]
           W == {"pool", "lpMint", "userPoolLp", "userDestinationToken"} \cup Idl!VaultRoles
           R == {"user"} \cup Idl!Programs
           ix == Bind("removeLiquiditySingleSide", own, n, {})
<1>1. Idl!AmmInstructions["removeLiquiditySingleSide"] = Idl!Instruction(W, R, {"user"})
  BY DEF Idl!AmmInstructions, Idl!RemoveLiquiditySingleSide
<1>2. /\ DOMAIN own = {"userDestinationToken", "userPoolLp", "user"}
      /\ own["userDestinationToken"] = d /\ own["userPoolLp"] = Ata(w, "LP") /\ own["user"] = w
  OBVIOUS
<1>3. {"userDestinationToken", "userPoolLp", "user"} \subseteq W \cup R
  OBVIOUS
<1>4. "user" \in W \cup R /\ "user" \in DOMAIN own /\ own["user"] = w
  BY <1>2
<1>5. ix = Bind("removeLiquiditySingleSide", own, n, {})
  OBVIOUS
<1> DEFINE g == "user"
           o == "removeLiquiditySingleSide"
           e == {}
<1> HIDE DEF own, W, R, ix
<1>6. /\ ix.op = "removeLiquiditySingleSide" /\ ix.n = n /\ ix.remaining = {} /\ ix.signers = {w}
      /\ \A r \in (W \cup R) \cap DOMAIN own : ix.acc[r] = own[r]
  <2>1. ix = Bind(o, own, n, e)
    BY <1>5
  <2>2. g \in W \cup R /\ g \in DOMAIN own /\ own[g] = w
        /\ Idl!AmmInstructions[o] = Idl!Instruction(W, R, {g})
    BY <1>1, <1>4
  <2> HIDE DEF g, o, e
  <2>3. /\ ix.op = o /\ ix.n = n /\ ix.remaining = e /\ ix.signers = {w}
        /\ \A r \in (W \cup R) \cap DOMAIN own : ix.acc[r] = own[r]
    BY <2>1, <2>2, BindFields
  <2> QED
    BY <2>3 DEF o, e
<1>7. ix.acc["userDestinationToken"] = d /\ ix.acc["userPoolLp"] = Ata(w, "LP")
  BY <1>2, <1>3, <1>6
<1> QED
  BY <1>6, <1>7 DEF ix, own

\* The instruction that creates a lock escrow; anybody may pay for it.
LEMMA EscrowBound ==
    ASSUME NEW w, NEW v
    PROVE  LET ix == Bind("createLockEscrow",
                          [lockEscrow |-> EscrowOf(v), owner |-> v, payer |-> w], 0, {})
           IN  /\ ix.op = "createLockEscrow" /\ ix.n = 0 /\ ix.remaining = {} /\ ix.signers = {w}
               /\ ix.acc.lockEscrow = EscrowOf(v)
<1> DEFINE own == [lockEscrow |-> EscrowOf(v), owner |-> v, payer |-> w]
           W == {"lockEscrow", "payer"}
           R == {"pool", "owner", "lpMint", "systemProgram"}
           ix == Bind("createLockEscrow", own, 0, {})
<1>1. Idl!AmmInstructions["createLockEscrow"] = Idl!Instruction(W, R, {"payer"})
  BY DEF Idl!AmmInstructions, Idl!CreateLockEscrow
<1>2. /\ DOMAIN own = {"lockEscrow", "owner", "payer"}
      /\ own["lockEscrow"] = EscrowOf(v) /\ own["payer"] = w
  OBVIOUS
<1>3. {"lockEscrow", "payer"} \subseteq W \cup R
  OBVIOUS
<1>4. "payer" \in W \cup R /\ "payer" \in DOMAIN own /\ own["payer"] = w
  BY <1>2
<1>5. ix = Bind("createLockEscrow", own, 0, {})
  OBVIOUS
<1> DEFINE g == "payer"
           o == "createLockEscrow"
           m == 0
           e == {}
<1> HIDE DEF own, W, R, ix
<1>6. /\ ix.op = "createLockEscrow" /\ ix.n = 0 /\ ix.remaining = {} /\ ix.signers = {w}
      /\ \A r \in (W \cup R) \cap DOMAIN own : ix.acc[r] = own[r]
  <2>1. ix = Bind(o, own, m, e)
    BY <1>5
  <2>2. g \in W \cup R /\ g \in DOMAIN own /\ own[g] = w
        /\ Idl!AmmInstructions[o] = Idl!Instruction(W, R, {g})
    BY <1>1, <1>4
  <2> HIDE DEF g, o, m, e
  <2>3. /\ ix.op = o /\ ix.n = m /\ ix.remaining = e /\ ix.signers = {w}
        /\ \A r \in (W \cup R) \cap DOMAIN own : ix.acc[r] = own[r]
    BY <2>1, <2>2, BindFields
  <2> QED
    BY <2>3 DEF o, m, e
<1>7. ix.acc["lockEscrow"] = EscrowOf(v)
  BY <1>2, <1>3, <1>6
<1> QED
  BY <1>6, <1>7 DEF ix, own

\* The instruction that locks LP tokens of w in the escrow of v.
LEMMA LockBound ==
    ASSUME NEW w, NEW v, NEW n
    PROVE  LET ix == Bind("lock", [lockEscrow |-> EscrowOf(v), owner |-> w,
                                   sourceTokens |-> Ata(w, "LP"),
                                   escrowVault |-> Ata(EscrowOf(v), "LP")], n, {})
           IN  /\ ix.op = "lock" /\ ix.n = n /\ ix.remaining = {} /\ ix.signers = {w}
               /\ ix.acc.lockEscrow = EscrowOf(v) /\ ix.acc.sourceTokens = Ata(w, "LP")
               /\ ix.acc.escrowVault = Ata(EscrowOf(v), "LP")
<1> DEFINE own == [lockEscrow |-> EscrowOf(v), owner |-> w, sourceTokens |-> Ata(w, "LP"),
                   escrowVault |-> Ata(EscrowOf(v), "LP")]
           W == {"pool", "lockEscrow", "owner", "sourceTokens", "escrowVault"}
           R == {"lpMint", "tokenProgram"} \cup (Idl!VaultRoles \ {"aTokenVault", "bTokenVault"})
           ix == Bind("lock", own, n, {})
<1>1. Idl!AmmInstructions["lock"] = Idl!Instruction(W, R, {"owner"})
  BY DEF Idl!AmmInstructions, Idl!Lock
<1>2. /\ DOMAIN own = {"lockEscrow", "owner", "sourceTokens", "escrowVault"}
      /\ own["lockEscrow"] = EscrowOf(v) /\ own["owner"] = w
      /\ own["sourceTokens"] = Ata(w, "LP") /\ own["escrowVault"] = Ata(EscrowOf(v), "LP")
  OBVIOUS
<1>3. {"lockEscrow", "owner", "sourceTokens", "escrowVault"} \subseteq W \cup R
  OBVIOUS
<1>4. "owner" \in W \cup R /\ "owner" \in DOMAIN own /\ own["owner"] = w
  BY <1>2
<1>5. ix = Bind("lock", own, n, {})
  OBVIOUS
<1> DEFINE g == "owner"
           o == "lock"
           e == {}
<1> HIDE DEF own, W, R, ix
<1>6. /\ ix.op = "lock" /\ ix.n = n /\ ix.remaining = {} /\ ix.signers = {w}
      /\ \A r \in (W \cup R) \cap DOMAIN own : ix.acc[r] = own[r]
  <2>1. ix = Bind(o, own, n, e)
    BY <1>5
  <2>2. g \in W \cup R /\ g \in DOMAIN own /\ own[g] = w
        /\ Idl!AmmInstructions[o] = Idl!Instruction(W, R, {g})
    BY <1>1, <1>4
  <2> HIDE DEF g, o, e
  <2>3. /\ ix.op = o /\ ix.n = n /\ ix.remaining = e /\ ix.signers = {w}
        /\ \A r \in (W \cup R) \cap DOMAIN own : ix.acc[r] = own[r]
    BY <2>1, <2>2, BindFields
  <2> QED
    BY <2>3 DEF o, e
<1>7. /\ ix.acc["lockEscrow"] = EscrowOf(v) /\ ix.acc["sourceTokens"] = Ata(w, "LP")
      /\ ix.acc["escrowVault"] = Ata(EscrowOf(v), "LP")
  BY <1>2, <1>3, <1>6
<1> QED
  BY <1>6, <1>7 DEF ix, own

\* The instruction that claims the fees of an escrow.
LEMMA ClaimBound ==
    ASSUME NEW w, NEW n
    PROVE  LET ix == Bind("claimFee", [lockEscrow |-> EscrowOf(w), owner |-> w,
                                       sourceTokens |-> Ata(w, "LP"),
                                       escrowVault |-> Ata(EscrowOf(w), "LP"),
                                       userAToken |-> Ata(w, "A"), userBToken |-> Ata(w, "SOL")], n, {})
           IN  /\ ix.op = "claimFee" /\ ix.n = n /\ ix.remaining = {} /\ ix.signers = {w}
               /\ ix.acc.lockEscrow = EscrowOf(w) /\ ix.acc.escrowVault = Ata(EscrowOf(w), "LP")
               /\ ix.acc.userAToken = Ata(w, "A") /\ ix.acc.userBToken = Ata(w, "SOL")
<1> DEFINE own == [lockEscrow |-> EscrowOf(w), owner |-> w, sourceTokens |-> Ata(w, "LP"),
                   escrowVault |-> Ata(EscrowOf(w), "LP"),
                   userAToken |-> Ata(w, "A"), userBToken |-> Ata(w, "SOL")]
           W == {"pool", "lpMint", "lockEscrow", "owner", "sourceTokens", "escrowVault",
                 "userAToken", "userBToken"} \cup Idl!VaultRoles
           R == Idl!Programs
           ix == Bind("claimFee", own, n, {})
<1>1. Idl!AmmInstructions["claimFee"] = Idl!Instruction(W, R, {"owner"})
  BY DEF Idl!AmmInstructions, Idl!ClaimFee
<1>2. /\ DOMAIN own = {"lockEscrow", "owner", "sourceTokens", "escrowVault", "userAToken",
                       "userBToken"}
      /\ own["lockEscrow"] = EscrowOf(w) /\ own["owner"] = w
      /\ own["escrowVault"] = Ata(EscrowOf(w), "LP")
      /\ own["userAToken"] = Ata(w, "A") /\ own["userBToken"] = Ata(w, "SOL")
  OBVIOUS
<1>3. {"lockEscrow", "owner", "escrowVault", "userAToken", "userBToken"} \subseteq W \cup R
  OBVIOUS
<1>4. "owner" \in W \cup R /\ "owner" \in DOMAIN own /\ own["owner"] = w
  BY <1>2
<1>5. ix = Bind("claimFee", own, n, {})
  OBVIOUS
<1> DEFINE g == "owner"
           o == "claimFee"
           e == {}
<1> HIDE DEF own, W, R, ix
<1>6. /\ ix.op = "claimFee" /\ ix.n = n /\ ix.remaining = {} /\ ix.signers = {w}
      /\ \A r \in (W \cup R) \cap DOMAIN own : ix.acc[r] = own[r]
  <2>1. ix = Bind(o, own, n, e)
    BY <1>5
  <2>2. g \in W \cup R /\ g \in DOMAIN own /\ own[g] = w
        /\ Idl!AmmInstructions[o] = Idl!Instruction(W, R, {g})
    BY <1>1, <1>4
  <2> HIDE DEF g, o, e
  <2>3. /\ ix.op = o /\ ix.n = n /\ ix.remaining = e /\ ix.signers = {w}
        /\ \A r \in (W \cup R) \cap DOMAIN own : ix.acc[r] = own[r]
    BY <2>1, <2>2, BindFields
  <2> QED
    BY <2>3 DEF o, e
<1>7. /\ ix.acc["lockEscrow"] = EscrowOf(w) /\ ix.acc["escrowVault"] = Ata(EscrowOf(w), "LP")
      /\ ix.acc["userAToken"] = Ata(w, "A") /\ ix.acc["userBToken"] = Ata(w, "SOL")
  BY <1>2, <1>3, <1>6
<1> QED
  BY <1>6, <1>7 DEF ix, own

\* The instruction that creates a config.
LEMMA ConfigBound ==
    ASSUME NEW w, NEW a
    PROVE  LET ix == Bind("createConfig", [config |-> a, admin |-> w], 0, {})
           IN  /\ ix.op = "createConfig" /\ ix.n = 0 /\ ix.remaining = {} /\ ix.signers = {w}
               /\ ix.acc.config = a
<1> DEFINE own == [config |-> a, admin |-> w]
           W == {"config", "admin"}
           R == {"systemProgram"}
           ix == Bind("createConfig", own, 0, {})
<1>1. Idl!AmmInstructions["createConfig"] = Idl!Instruction(W, R, {"admin"})
  BY DEF Idl!AmmInstructions, Idl!CreateConfig
<1>2. DOMAIN own = {"config", "admin"} /\ own["config"] = a /\ own["admin"] = w
  OBVIOUS
<1>3. {"config", "admin"} \subseteq W \cup R
  OBVIOUS
<1>4. "admin" \in W \cup R /\ "admin" \in DOMAIN own /\ own["admin"] = w
  BY <1>2
<1>5. ix = Bind("createConfig", own, 0, {})
  OBVIOUS
<1> DEFINE g == "admin"
           o == "createConfig"
           m == 0
           e == {}
<1> HIDE DEF own, W, R, ix
<1>6. /\ ix.op = "createConfig" /\ ix.n = 0 /\ ix.remaining = {} /\ ix.signers = {w}
      /\ \A r \in (W \cup R) \cap DOMAIN own : ix.acc[r] = own[r]
  <2>1. ix = Bind(o, own, m, e)
    BY <1>5
  <2>2. g \in W \cup R /\ g \in DOMAIN own /\ own[g] = w
        /\ Idl!AmmInstructions[o] = Idl!Instruction(W, R, {g})
    BY <1>1, <1>4
  <2> HIDE DEF g, o, m, e
  <2>3. /\ ix.op = o /\ ix.n = m /\ ix.remaining = e /\ ix.signers = {w}
        /\ \A r \in (W \cup R) \cap DOMAIN own : ix.acc[r] = own[r]
    BY <2>1, <2>2, BindFields
  <2> QED
    BY <2>3 DEF o, m, e
<1>7. ix.acc["config"] = a
  BY <1>2, <1>3, <1>6
<1> QED
  BY <1>6, <1>7 DEF ix, own

\* The instructions of other programs.
LEMMA NativeFields ==
    ASSUME NEW op, NEW acc, NEW n, NEW w, NEW ix, ix = Native(op, acc, n, w)
    PROVE  ix.op = op /\ ix.acc = acc /\ ix.n = n /\ ix.remaining = {} /\ ix.signers = {w}
BY DEF Native

\* What changes no balance by itself: what creates an account, wraps or unwraps.
QuietOps == {"createAta", "createLockEscrow", "createConfig"}
NoMoveOps == QuietOps \cup {"wrap", "closeAta"}

\* They take and give nothing.
LEMMA NoMoves ==
    ASSUME NEW ix, NEW fee, ix.op \in NoMoveOps
    PROVE  Takes(ix, fee) = <<>> /\ Gives(ix, fee) = <<>>
<1>1. CASE ix.op = "createAta"
  BY <1>1, Zenon DEF Takes, Gives
<1>2. CASE ix.op = "createLockEscrow"
  BY <1>2, Zenon DEF Takes, Gives
<1>3. CASE ix.op = "createConfig"
  BY <1>3, Zenon DEF Takes, Gives
<1>4. CASE ix.op = "wrap"
  BY <1>4, Zenon DEF Takes, Gives
<1>5. CASE ix.op = "closeAta"
  BY <1>5, Zenon DEF Takes, Gives
<1> QED
  BY <1>1, <1>2, <1>3, <1>4, <1>5 DEF NoMoveOps, QuietOps

\* What the program's instructions take and give.
LEMMA Moves ==
    ASSUME NEW ix, NEW fee
    PROVE  /\ ix.op = "swap" =>
                /\ Takes(ix, fee) = Of(ix.acc.userSourceToken, ix.n)
                /\ Gives(ix, fee) =
                     [a \in {ix.acc.userDestinationToken} \cup ix.remaining |->
                         IF a = ix.acc.userDestinationToken THEN AmountIn - HostFee ELSE HostFee]
           /\ ix.op \in {"bootstrapLiquidity", "addImbalanceLiquidity"} =>
                /\ Takes(ix, fee) = OfBoth(ix.acc.userAToken, ix.n.A, ix.acc.userBToken, ix.n.SOL)
                /\ Gives(ix, fee) = Of(ix.acc.userPoolLp, LpAmount)
           /\ ix.op = "addBalanceLiquidity" =>
                /\ Takes(ix, fee) = OfBoth(ix.acc.userAToken, 1, ix.acc.userBToken, 1)
                /\ Gives(ix, fee) = Of(ix.acc.userPoolLp, LpAmount)
           /\ ix.op = "removeBalanceLiquidity" =>
                /\ Takes(ix, fee) = Of(ix.acc.userPoolLp, ix.n)
                /\ Gives(ix, fee) = OfBoth(ix.acc.userAToken, 1, ix.acc.userBToken, 1)
           /\ ix.op = "removeLiquiditySingleSide" =>
                /\ Takes(ix, fee) = Of(ix.acc.userPoolLp, ix.n)
                /\ Gives(ix, fee) = Of(ix.acc.userDestinationToken, 2)
           /\ ix.op = "lock" =>
                /\ Takes(ix, fee) = Of(ix.acc.sourceTokens, ix.n)
                /\ Gives(ix, fee) = Of(ix.acc.escrowVault, ix.n)
           /\ ix.op = "claimFee" =>
                /\ Takes(ix, fee) = Of(ix.acc.escrowVault, fee)
                /\ Gives(ix, fee) = OfBoth(ix.acc.userAToken, fee, ix.acc.userBToken, fee)
<1>1. ASSUME ix.op = "swap"
      PROVE  /\ Takes(ix, fee) = Of(ix.acc.userSourceToken, ix.n)
             /\ Gives(ix, fee) =
                  [a \in {ix.acc.userDestinationToken} \cup ix.remaining |->
                      IF a = ix.acc.userDestinationToken THEN AmountIn - HostFee ELSE HostFee]
  BY <1>1, Zenon DEF Takes, Gives
<1>2. ASSUME ix.op = "bootstrapLiquidity"
      PROVE  /\ Takes(ix, fee) = OfBoth(ix.acc.userAToken, ix.n.A, ix.acc.userBToken, ix.n.SOL)
             /\ Gives(ix, fee) = Of(ix.acc.userPoolLp, LpAmount)
  BY <1>2, Zenon DEF Takes, Gives
<1>3. ASSUME ix.op = "addImbalanceLiquidity"
      PROVE  /\ Takes(ix, fee) = OfBoth(ix.acc.userAToken, ix.n.A, ix.acc.userBToken, ix.n.SOL)
             /\ Gives(ix, fee) = Of(ix.acc.userPoolLp, LpAmount)
  BY <1>3, Zenon DEF Takes, Gives
<1>4. ASSUME ix.op = "addBalanceLiquidity"
      PROVE  /\ Takes(ix, fee) = OfBoth(ix.acc.userAToken, 1, ix.acc.userBToken, 1)
             /\ Gives(ix, fee) = Of(ix.acc.userPoolLp, LpAmount)
  BY <1>4, Zenon DEF Takes, Gives
<1>5. ASSUME ix.op = "removeBalanceLiquidity"
      PROVE  /\ Takes(ix, fee) = Of(ix.acc.userPoolLp, ix.n)
             /\ Gives(ix, fee) = OfBoth(ix.acc.userAToken, 1, ix.acc.userBToken, 1)
  BY <1>5, Zenon DEF Takes, Gives
<1>6. ASSUME ix.op = "removeLiquiditySingleSide"
      PROVE  /\ Takes(ix, fee) = Of(ix.acc.userPoolLp, ix.n)
             /\ Gives(ix, fee) = Of(ix.acc.userDestinationToken, 2)
  BY <1>6, Zenon DEF Takes, Gives
<1>7. ASSUME ix.op = "lock"
      PROVE  /\ Takes(ix, fee) = Of(ix.acc.sourceTokens, ix.n)
             /\ Gives(ix, fee) = Of(ix.acc.escrowVault, ix.n)
  BY <1>7, Zenon DEF Takes, Gives
<1>8. ASSUME ix.op = "claimFee"
      PROVE  /\ Takes(ix, fee) = Of(ix.acc.escrowVault, fee)
             /\ Gives(ix, fee) = OfBoth(ix.acc.userAToken, fee, ix.acc.userBToken, fee)
  BY <1>8, Zenon DEF Takes, Gives
<1> QED
  BY <1>1, <1>2, <1>3, <1>4, <1>5, <1>6, <1>7, <1>8

(***************************************************************************)
(* Ledgers.                                                                *)
(***************************************************************************)

\* A ledger as it should be: amounts are natural, and only open accounts hold any.
Sound(K) ==
    /\ K \in [open : {K.open}, holds : [TokenAccounts -> Nat], lamports : [Wallets -> Nat],
              locked : [Wallets -> Nat]]
    /\ \A a \in TokenAccounts : K.holds[a] > 0 => a \in K.open

\* The ledger after an instruction, field by field.
LEMMA AfterFields ==
    ASSUME NEW K, NEW ix, NEW fee, NEW M, M = After(K, ix, fee)
    PROVE  /\ M \in [open : {M.open}, holds : {M.holds}, lamports : {M.lamports}, locked : {M.locked}]
           /\ M.open = (K.open \cup Opens(ix)) \ Closes(ix)
           /\ M.holds = [a \in TokenAccounts |->
                           IF a \in Closes(ix) THEN 0
                           ELSE K.holds[a] - Delta(Takes(ix, fee), a) + Delta(Gives(ix, fee), a)
                                + (IF ix.op = "wrap" /\ a = ix.acc.ata THEN ix.n ELSE 0)]
           /\ M.lamports = [w \in Wallets |->
                              K.lamports[w]
                              - (IF ix.op = "wrap" /\ ix.acc.payer = w THEN ix.n ELSE 0)
                              + (IF ix.op = "closeAta" /\ ix.acc.payer = w
                                 THEN K.holds[ix.acc.ata] ELSE 0)]
           /\ M.locked = [w \in Wallets |->
                            K.locked[w] + (IF ix.op = "lock" /\ ix.acc.lockEscrow = EscrowOf(w)
                                           THEN ix.n ELSE 0)]
<1> DEFINE wraps == [w \in Wallets |-> IF ix.op = "wrap" /\ ix.acc.payer = w THEN ix.n ELSE 0]
           unwraps == [w \in Wallets |->
                         IF ix.op = "closeAta" /\ ix.acc.payer = w THEN K.holds[ix.acc.ata] ELSE 0]
           o == (K.open \cup Opens(ix)) \ Closes(ix)
           h == [a \in TokenAccounts |->
                   IF a \in Closes(ix) THEN 0
                   ELSE K.holds[a] - Delta(Takes(ix, fee), a) + Delta(Gives(ix, fee), a)
                        + (IF ix.op = "wrap" /\ a = ix.acc.ata THEN ix.n ELSE 0)]
           p == [w \in Wallets |-> K.lamports[w] - wraps[w] + unwraps[w]]
           q == [w \in Wallets |->
                   K.locked[w] + (IF ix.op = "lock" /\ ix.acc.lockEscrow = EscrowOf(w)
                                  THEN ix.n ELSE 0)]
<1>1. M = [open |-> o, holds |-> h, lamports |-> p, locked |-> q]
  BY DEF After
<1>2. p = [w \in Wallets |->
             K.lamports[w] - (IF ix.op = "wrap" /\ ix.acc.payer = w THEN ix.n ELSE 0)
             + (IF ix.op = "closeAta" /\ ix.acc.payer = w THEN K.holds[ix.acc.ata] ELSE 0)]
  OBVIOUS
<1> HIDE DEF o, h, p, q
<1>3. /\ M.open = o /\ M.holds = h /\ M.lamports = p /\ M.locked = q
      /\ M \in [open : {M.open}, holds : {M.holds}, lamports : {M.lamports}, locked : {M.locked}]
  BY <1>1
<1> QED
  BY <1>2, <1>3 DEF o, h, q

\* An instruction whose amounts are natural.
Proper(ix, fee) ==
    /\ \A a \in DOMAIN Takes(ix, fee) : Takes(ix, fee)[a] \in Nat
    /\ \A a \in DOMAIN Gives(ix, fee) : Gives(ix, fee)[a] \in Nat
    /\ ix.op \in {"wrap", "lock"} => ix.n \in Nat
    /\ ix.op \in {"wrap", "closeAta"} => ix.acc.ata \in TokenAccounts

\* An instruction that is allowed leaves the ledger sound.
LEMMA AfterSound ==
    ASSUME NEW K, NEW ix, NEW fee, Sound(K), Proper(ix, fee), Allowed(K, ix, fee)
    PROVE  Sound(After(K, ix, fee))
<1> DEFINE M == After(K, ix, fee)
           T == Takes(ix, fee)
           G == Gives(ix, fee)
           r == ix.acc.ata
           e(a) == IF ix.op = "wrap" /\ a = r THEN ix.n ELSE 0
<1>1. /\ K.holds \in [TokenAccounts -> Nat] /\ K.lamports \in [Wallets -> Nat]
      /\ K.locked \in [Wallets -> Nat]
      /\ \A a \in TokenAccounts : K.holds[a] > 0 => a \in K.open
  BY DEF Sound
<1>2. /\ \A a \in DOMAIN T : T[a] \in Nat /\ K.holds[a] >= T[a]
      /\ \A a \in DOMAIN G : G[a] \in Nat /\ a \in K.open
      /\ ix.op \in {"wrap", "lock"} => ix.n \in Nat
      /\ ix.op \in {"wrap", "closeAta"} => r \in TokenAccounts
      /\ ix.op = "wrap" => r \in K.open /\ K.lamports[ix.acc.payer] >= ix.n
  BY DEF Proper, Allowed, Covers
<1>3. \A a \in TokenAccounts : /\ Delta(T, a) \in Nat /\ K.holds[a] >= Delta(T, a)
                               /\ Delta(G, a) \in Nat /\ (Delta(G, a) > 0 => a \in K.open)
                               /\ e(a) \in Nat /\ (e(a) > 0 => a \in K.open)
  BY <1>1, <1>2 DEF Delta
<1>4. /\ M \in [open : {M.open}, holds : {M.holds}, lamports : {M.lamports}, locked : {M.locked}]
      /\ M.open = (K.open \cup Opens(ix)) \ Closes(ix)
      /\ M.holds = [a \in TokenAccounts |->
                      IF a \in Closes(ix) THEN 0
                      ELSE K.holds[a] - Delta(T, a) + Delta(G, a) + e(a)]
      /\ M.lamports = [w \in Wallets |->
                         K.lamports[w] - (IF ix.op = "wrap" /\ ix.acc.payer = w THEN ix.n ELSE 0)
                         + (IF ix.op = "closeAta" /\ ix.acc.payer = w THEN K.holds[r] ELSE 0)]
      /\ M.locked = [w \in Wallets |->
                       K.locked[w] + (IF ix.op = "lock" /\ ix.acc.lockEscrow = EscrowOf(w)
                                      THEN ix.n ELSE 0)]
  BY AfterFields
<1>5. \A w \in Wallets :
         /\ K.lamports[w] - (IF ix.op = "wrap" /\ ix.acc.payer = w THEN ix.n ELSE 0)
            + (IF ix.op = "closeAta" /\ ix.acc.payer = w THEN K.holds[r] ELSE 0) \in Nat
         /\ K.locked[w] + (IF ix.op = "lock" /\ ix.acc.lockEscrow = EscrowOf(w)
                           THEN ix.n ELSE 0) \in Nat
  BY <1>1, <1>2
<1> HIDE DEF M, T, G, r, e
<1>6. \A a \in TokenAccounts :
         /\ K.holds[a] - Delta(T, a) + Delta(G, a) + e(a) \in Nat
         /\ K.holds[a] - Delta(T, a) + Delta(G, a) + e(a) > 0 => a \in K.open
  BY <1>1, <1>3
<1>7. M.holds \in [TokenAccounts -> Nat] /\ \A a \in TokenAccounts : M.holds[a] > 0 => a \in M.open
  BY <1>4, <1>6
<1>8. M.lamports \in [Wallets -> Nat] /\ M.locked \in [Wallets -> Nat]
  BY <1>4, <1>5
<1>9. M \in [open : {M.open}, holds : [TokenAccounts -> Nat], lamports : [Wallets -> Nat],
             locked : [Wallets -> Nat]]
  BY <1>4, <1>7, <1>8
<1> QED
  BY <1>7, <1>9 DEF Sound, M

\* What only creates an account changes no amount.
LEMMA QuietEffect ==
    ASSUME NEW K, NEW ix, NEW fee, Sound(K), ix.op \in QuietOps, NEW M, M = After(K, ix, fee)
    PROVE  /\ M.holds = K.holds /\ M.lamports = K.lamports /\ M.locked = K.locked
           /\ M.open = K.open \cup Opens(ix)
<1>1. Takes(ix, fee) = <<>> /\ Gives(ix, fee) = <<>> /\ Closes(ix) = {}
      /\ ix.op # "wrap" /\ ix.op # "closeAta" /\ ix.op # "lock"
  BY NoMoves DEF NoMoveOps, QuietOps, Closes
<1>2. \A a : Delta(<<>>, a) = 0
  BY DEF Delta
<1>3. /\ K.holds \in [TokenAccounts -> Nat] /\ K.lamports \in [Wallets -> Nat]
      /\ K.locked \in [Wallets -> Nat]
  BY DEF Sound
<1>4. /\ M.open = (K.open \cup Opens(ix)) \ Closes(ix)
      /\ M.holds = [a \in TokenAccounts |-> K.holds[a] - 0 + 0 + 0]
      /\ M.lamports = [w \in Wallets |-> K.lamports[w] - 0 + 0]
      /\ M.locked = [w \in Wallets |-> K.locked[w] + 0]
  BY <1>1, <1>2, AfterFields
<1>5. M.open = K.open \cup Opens(ix)
  BY <1>1, <1>4
<1>6. /\ \A a \in TokenAccounts : K.holds[a] - 0 + 0 + 0 = K.holds[a]
      /\ \A w \in Wallets : K.lamports[w] - 0 + 0 = K.lamports[w] /\ K.locked[w] + 0 = K.locked[w]
  BY <1>3
<1> QED
  BY <1>3, <1>4, <1>5, <1>6

WrapIx(w, n) == Native("wrap", [payer |-> w, ata |-> Ata(w, "SOL")], n, w)
UnwrapIx(w) == Native("closeAta", [payer |-> w, ata |-> Ata(w, "SOL")], 0, w)

\* n lamports of w are wrapped from K to M.
Wrapped(K, M, w, n) ==
    /\ M.open = K.open
    /\ M.holds[Ata(w, "SOL")] = K.holds[Ata(w, "SOL")] + n
    /\ \A a \in TokenAccounts \ {Ata(w, "SOL")} : M.holds[a] = K.holds[a]
    /\ M.lamports[w] = K.lamports[w] - n
    /\ \A v \in Wallets \ {w} : M.lamports[v] = K.lamports[v]
    /\ M.locked = K.locked

\* The account of w for wrapped SOL is closed.
Unwrapped(K, M, w) ==
    /\ M.open = K.open \ {Ata(w, "SOL")}
    /\ M.holds[Ata(w, "SOL")] = 0
    /\ \A a \in TokenAccounts \ {Ata(w, "SOL")} : M.holds[a] = K.holds[a]
    /\ M.lamports[w] = K.lamports[w] + K.holds[Ata(w, "SOL")]
    /\ \A v \in Wallets \ {w} : M.lamports[v] = K.lamports[v]
    /\ M.locked = K.locked

\* Wrapping turns lamports into wrapped SOL.
LEMMA WrapEffect ==
    ASSUME NEW K, NEW fee, Sound(K), NEW w \in Wallets, NEW n \in Nat, NEW ix,
           ix = WrapIx(w, n),
           NEW M, M = After(K, ix, fee)
    PROVE  Wrapped(K, M, w, n)
<1>1. /\ ix.op = "wrap" /\ ix.acc = [payer |-> w, ata |-> Ata(w, "SOL")] /\ ix.n = n
  BY NativeFields DEF WrapIx
<1>2. ix.acc.payer = w /\ ix.acc.ata = Ata(w, "SOL")
  BY <1>1
<1>3. /\ Takes(ix, fee) = <<>> /\ Gives(ix, fee) = <<>> /\ Closes(ix) = {}
  BY <1>1, NoMoves DEF NoMoveOps, Closes
<1>4. Opens(ix) = {}
  BY <1>1, Zenon DEF Opens
<1>5. \A a : Delta(<<>>, a) = 0
  BY DEF Delta
<1>6. /\ K.holds \in [TokenAccounts -> Nat] /\ K.lamports \in [Wallets -> Nat]
      /\ K.locked \in [Wallets -> Nat]
  BY DEF Sound
<1>7. /\ M.open = (K.open \cup Opens(ix)) \ Closes(ix)
      /\ M.holds = [a \in TokenAccounts |->
                      K.holds[a] - 0 + 0 + (IF a = Ata(w, "SOL") THEN n ELSE 0)]
      /\ M.lamports = [v \in Wallets |-> K.lamports[v] - (IF w = v THEN n ELSE 0) + 0]
      /\ M.locked = [v \in Wallets |-> K.locked[v] + 0]
  <2>1. ix.op # "closeAta" /\ ix.op # "lock"
    BY <1>1
  <2> QED
    BY <1>1, <1>2, <1>3, <1>5, <2>1, AfterFields
<1>8. M.open = K.open
  BY <1>3, <1>4, <1>7
<1> DEFINE a0 == Ata(w, "SOL")
<1> HIDE DEF a0
<1>9. \A a \in TokenAccounts : M.holds[a] = K.holds[a] - 0 + 0 + (IF a = a0 THEN n ELSE 0)
  BY <1>7 DEF a0
<1>10. a0 \in TokenAccounts
  BY DEF a0, TokenAccounts
<1>11. M.holds[a0] = K.holds[a0] + n
  BY <1>6, <1>9, <1>10
<1>12. \A a \in TokenAccounts \ {a0} : M.holds[a] = K.holds[a]
  BY <1>6, <1>9
<1>13. M.lamports[w] = K.lamports[w] - n /\ \A v \in Wallets \ {w} : M.lamports[v] = K.lamports[v]
  BY <1>6, <1>7
<1>14. M.locked = K.locked
  BY <1>6, <1>7
<1> QED
  BY <1>8, <1>11, <1>12, <1>13, <1>14 DEF a0, Wrapped

\* Unwrapping turns all wrapped SOL of a wallet into lamports.
LEMMA UnwrapEffect ==
    ASSUME NEW K, NEW fee, Sound(K), NEW w \in Wallets, NEW ix,
           ix = UnwrapIx(w),
           NEW M, M = After(K, ix, fee)
    PROVE  Unwrapped(K, M, w)
<1>1. /\ ix.op = "closeAta" /\ ix.acc = [payer |-> w, ata |-> Ata(w, "SOL")] /\ ix.n = 0
  BY NativeFields DEF UnwrapIx
<1>2. ix.acc.payer = w /\ ix.acc.ata = Ata(w, "SOL")
  BY <1>1
<1>3. /\ Takes(ix, fee) = <<>> /\ Gives(ix, fee) = <<>> /\ Closes(ix) = {Ata(w, "SOL")}
  BY <1>1, <1>2, NoMoves DEF NoMoveOps, Closes
<1>4. Opens(ix) = {}
  BY <1>1, Zenon DEF Opens
<1>5. \A a : Delta(<<>>, a) = 0
  BY DEF Delta
<1>6. /\ K.holds \in [TokenAccounts -> Nat] /\ K.lamports \in [Wallets -> Nat]
      /\ K.locked \in [Wallets -> Nat] /\ Ata(w, "SOL") \in TokenAccounts
  BY DEF Sound, TokenAccounts
<1>7. /\ M.open = (K.open \cup Opens(ix)) \ Closes(ix)
      /\ M.holds = [a \in TokenAccounts |->
                      IF a \in Closes(ix) THEN 0 ELSE K.holds[a] - 0 + 0 + 0]
      /\ M.lamports = [v \in Wallets |->
                         K.lamports[v] - 0 + (IF w = v THEN K.holds[Ata(w, "SOL")] ELSE 0)]
      /\ M.locked = [v \in Wallets |-> K.locked[v] + 0]
  <2>1. ix.op # "wrap" /\ ix.op # "lock"
    BY <1>1
  <2> QED
    BY <1>1, <1>2, <1>3, <1>5, <2>1, AfterFields
<1>8. M.open = K.open \ {Ata(w, "SOL")}
  BY <1>3, <1>4, <1>7
<1> DEFINE a0 == Ata(w, "SOL")
<1> HIDE DEF a0
<1>9. \A a \in TokenAccounts : M.holds[a] = IF a = a0 THEN 0 ELSE K.holds[a]
  BY <1>3, <1>6, <1>7 DEF a0
<1>10. K.holds[a0] \in Nat
  BY <1>6 DEF a0
<1>11. \A v \in Wallets : M.lamports[v] = K.lamports[v] - 0 + (IF w = v THEN K.holds[a0] ELSE 0)
  BY <1>7 DEF a0
<1>12. M.holds[a0] = 0 /\ \A a \in TokenAccounts \ {a0} : M.holds[a] = K.holds[a]
  BY <1>6, <1>9 DEF a0
<1>13. M.lamports[w] = K.lamports[w] + K.holds[a0]
       /\ \A v \in Wallets \ {w} : M.lamports[v] = K.lamports[v]
  BY <1>6, <1>10, <1>11
<1>14. M.locked = K.locked
  BY <1>6, <1>7
<1> QED
  BY <1>8, <1>12, <1>13, <1>14 DEF a0, Unwrapped

\* An instruction of the program moves what it takes and gives.
LEMMA MainEffect ==
    ASSUME NEW K, NEW ix, NEW fee, Sound(K), ix.op \notin NoMoveOps, NEW M, M = After(K, ix, fee)
    PROVE  /\ M.open = K.open /\ M.lamports = K.lamports
           /\ \A a \in TokenAccounts :
                 M.holds[a] = K.holds[a] - Delta(Takes(ix, fee), a) + Delta(Gives(ix, fee), a) + 0
           /\ ix.op # "lock" => M.locked = K.locked
           /\ ix.op = "lock" =>
                \A v \in Wallets :
                    M.locked[v] = K.locked[v] + (IF ix.acc.lockEscrow = EscrowOf(v) THEN ix.n ELSE 0)
<1>1. /\ ix.op # "wrap" /\ ix.op # "closeAta" /\ ix.op # "createAta"
      /\ ix.op # "createLockEscrow" /\ ix.op # "createConfig"
  BY DEF NoMoveOps, QuietOps
<1>2. Opens(ix) = {}
  BY <1>1, Zenon DEF Opens
<1>3. Closes(ix) = {}
  BY <1>1 DEF Closes
<1>4. /\ K.lamports \in [Wallets -> Nat] /\ K.locked \in [Wallets -> Nat]
  BY DEF Sound
<1>5. /\ M.open = (K.open \cup Opens(ix)) \ Closes(ix)
      /\ M.holds = [a \in TokenAccounts |->
                      K.holds[a] - Delta(Takes(ix, fee), a) + Delta(Gives(ix, fee), a) + 0]
      /\ M.lamports = [v \in Wallets |-> K.lamports[v] - 0 + 0]
      /\ M.locked = [v \in Wallets |->
                       K.locked[v] + (IF ix.op = "lock" /\ ix.acc.lockEscrow = EscrowOf(v)
                                      THEN ix.n ELSE 0)]
  BY <1>1, <1>3, AfterFields
<1>6. M.open = K.open
  BY <1>2, <1>3, <1>5
<1>7. M.lamports = K.lamports
  BY <1>4, <1>5
<1>8. ix.op # "lock" => M.locked = K.locked
  BY <1>4, <1>5
<1> QED
  BY <1>5, <1>6, <1>7, <1>8

(***************************************************************************)
(* What is done to a ledger, seen from its wallets.                        *)
(***************************************************************************)

\* Token accounts are told apart by owner and mint.
LEMMA AtaEqual ==
    ASSUME NEW o, NEW m, NEW p, NEW n
    PROVE  Ata(o, m) = Ata(p, n) <=> o = p /\ m = n
BY DEF Ata

\* Escrows are told apart by owner, and are neither wallets, token accounts nor configs.
LEMMA EscrowsApart ==
    ASSUME NEW v \in Wallets, NEW u \in Wallets
    PROVE  /\ EscrowOf(v) = EscrowOf(u) <=> v = u
           /\ EscrowOf(v) # u
           /\ EscrowOf(v) \notin TokenAccounts
           /\ \A i : EscrowOf(v) # ConfigAt(i)
           /\ \A o, m : EscrowOf(v) # Ata(o, m)
<1>1. EscrowOf(v) # u
  BY UserAssumption
<1>2. EscrowOf(v)[1] = "escrow" /\ \A o, m : Ata(o, m)[1] = "ata"
  BY DEF EscrowOf, Ata
<1>3. \A o, m : EscrowOf(v) # Ata(o, m)
  BY <1>2
<1>4. EscrowOf(v) \notin TokenAccounts
  BY <1>3 DEF TokenAccounts
<1>5. \A i : ConfigAt(i)[1] = "config"
  BY DEF ConfigAt
<1>6. \A i : EscrowOf(v) # ConfigAt(i)
  BY <1>2, <1>5
<1>7. EscrowOf(v) = EscrowOf(u) <=> v = u
  BY DEF EscrowOf
<1> QED
  BY <1>1, <1>3, <1>4, <1>6, <1>7

\* The token accounts of a wallet and of its escrow.
LEMMA TokenAtas ==
    ASSUME NEW v \in Wallets
    PROVE  /\ Ata(v, "A") \in TokenAccounts /\ Ata(v, "SOL") \in TokenAccounts
           /\ Ata(v, "LP") \in TokenAccounts /\ Ata(EscrowOf(v), "LP") \in TokenAccounts
<1>1. \A m \in {"A", "SOL", "LP"} : Ata(v, m) \in TokenAccounts
  BY DEF TokenAccounts
<1>2. Ata(EscrowOf(v), "LP") \in TokenAccounts
  BY DEF TokenAccounts
<1> QED
  BY <1>1, <1>2

\* From L to M the token accounts move by d and what the escrows record by e, but for what w
\* wraps and unwraps; no vault is closed, and no escrow is opened but those of E.
Moved(L, M, w, E, d, e) ==
    \A v \in Wallets :
        /\ M.holds[Ata(v, "A")] = L.holds[Ata(v, "A")] + d[Ata(v, "A")]
        /\ M.holds[Ata(v, "LP")] = L.holds[Ata(v, "LP")] + d[Ata(v, "LP")]
        /\ M.holds[Ata(v, "SOL")] + M.lamports[v]
              = L.holds[Ata(v, "SOL")] + L.lamports[v] + d[Ata(v, "SOL")]
        /\ v # w => M.holds[Ata(v, "SOL")] = L.holds[Ata(v, "SOL")] + d[Ata(v, "SOL")]
        /\ M.locked[v] = L.locked[v] + e[v]
        /\ Ata(EscrowOf(v), "LP") \in L.open => Ata(EscrowOf(v), "LP") \in M.open
        /\ EscrowOf(v) \in M.open => EscrowOf(v) \in L.open \/ v \in E

Still == [a \in TokenAccounts |-> 0]
NoLock == [v \in Wallets |-> 0]

\* The amounts of a sound ledger that a wallet has to do with.
LEMMA Amounts ==
    ASSUME NEW K, Sound(K), NEW v \in Wallets
    PROVE  /\ K.holds[Ata(v, "A")] \in Nat /\ K.holds[Ata(v, "SOL")] \in Nat
           /\ K.holds[Ata(v, "LP")] \in Nat /\ K.lamports[v] \in Nat /\ K.locked[v] \in Nat
<1>1. K.holds \in [TokenAccounts -> Nat] /\ K.lamports \in [Wallets -> Nat]
      /\ K.locked \in [Wallets -> Nat]
  BY DEF Sound
<1> QED
  BY <1>1, TokenAtas

\* A move and one after it.
LEMMA MovedTwice ==
    ASSUME NEW L, NEW K, NEW M, Sound(L), Sound(K), Sound(M), NEW w,
           NEW d \in [TokenAccounts -> Int], NEW f \in [TokenAccounts -> Int],
           NEW g \in [TokenAccounts -> Int], \A a \in TokenAccounts : g[a] = d[a] + f[a],
           NEW e \in [Wallets -> Int], NEW h \in [Wallets -> Int], NEW k \in [Wallets -> Int],
           \A v \in Wallets : k[v] = e[v] + h[v],
           NEW E, NEW F \in SUBSET E, NEW G \in SUBSET E,
           Moved(L, K, w, F, d, e), Moved(K, M, w, G, f, h)
    PROVE  Moved(L, M, w, E, g, k)
<1> SUFFICES ASSUME NEW v \in Wallets
             PROVE  /\ M.holds[Ata(v, "A")] = L.holds[Ata(v, "A")] + g[Ata(v, "A")]
                    /\ M.holds[Ata(v, "LP")] = L.holds[Ata(v, "LP")] + g[Ata(v, "LP")]
                    /\ M.holds[Ata(v, "SOL")] + M.lamports[v]
                          = L.holds[Ata(v, "SOL")] + L.lamports[v] + g[Ata(v, "SOL")]
                    /\ v # w => M.holds[Ata(v, "SOL")] = L.holds[Ata(v, "SOL")] + g[Ata(v, "SOL")]
                    /\ M.locked[v] = L.locked[v] + k[v]
                    /\ Ata(EscrowOf(v), "LP") \in L.open => Ata(EscrowOf(v), "LP") \in M.open
                    /\ EscrowOf(v) \in M.open => EscrowOf(v) \in L.open \/ v \in E
  BY DEF Moved
<1> DEFINE a == Ata(v, "A")
           s == Ata(v, "SOL")
           l == Ata(v, "LP")
           x == Ata(EscrowOf(v), "LP")
<1>1. /\ K.holds[a] = L.holds[a] + d[a] /\ K.holds[l] = L.holds[l] + d[l]
      /\ K.holds[s] + K.lamports[v] = L.holds[s] + L.lamports[v] + d[s]
      /\ v # w => K.holds[s] = L.holds[s] + d[s]
      /\ K.locked[v] = L.locked[v] + e[v]
      /\ x \in L.open => x \in K.open
      /\ EscrowOf(v) \in K.open => EscrowOf(v) \in L.open \/ v \in F
  BY DEF Moved
<1>2. /\ M.holds[a] = K.holds[a] + f[a] /\ M.holds[l] = K.holds[l] + f[l]
      /\ M.holds[s] + M.lamports[v] = K.holds[s] + K.lamports[v] + f[s]
      /\ v # w => M.holds[s] = K.holds[s] + f[s]
      /\ M.locked[v] = K.locked[v] + h[v]
      /\ x \in K.open => x \in M.open
      /\ EscrowOf(v) \in M.open => EscrowOf(v) \in K.open \/ v \in G
  BY DEF Moved
<1>3. a \in TokenAccounts /\ s \in TokenAccounts /\ l \in TokenAccounts
  BY TokenAtas
<1> HIDE DEF a, s, l, x
<1>4. /\ g[a] = d[a] + f[a] /\ g[s] = d[s] + f[s] /\ g[l] = d[l] + f[l] /\ k[v] = e[v] + h[v]
      /\ d[a] \in Int /\ d[s] \in Int /\ d[l] \in Int /\ e[v] \in Int
      /\ f[a] \in Int /\ f[s] \in Int /\ f[l] \in Int /\ h[v] \in Int
  BY <1>3
<1>5. /\ L.holds[a] \in Nat /\ L.holds[s] \in Nat /\ L.holds[l] \in Nat /\ L.lamports[v] \in Nat
      /\ K.holds[a] \in Nat /\ K.holds[s] \in Nat /\ K.holds[l] \in Nat /\ K.lamports[v] \in Nat
      /\ M.holds[a] \in Nat /\ M.holds[s] \in Nat /\ M.holds[l] \in Nat /\ M.lamports[v] \in Nat
      /\ L.locked[v] \in Nat /\ K.locked[v] \in Nat /\ M.locked[v] \in Nat
  BY Amounts DEF a, s, l
<1>6. /\ M.holds[a] = L.holds[a] + g[a] /\ M.holds[l] = L.holds[l] + g[l]
      /\ M.holds[s] + M.lamports[v] = L.holds[s] + L.lamports[v] + g[s]
      /\ v # w => M.holds[s] = L.holds[s] + g[s]
      /\ M.locked[v] = L.locked[v] + k[v]
  BY <1>1, <1>2, <1>4, <1>5
<1>7. /\ x \in L.open => x \in M.open
      /\ EscrowOf(v) \in M.open => EscrowOf(v) \in L.open \/ v \in E
  BY <1>1, <1>2
<1> QED
  BY <1>6, <1>7 DEF a, s, l, x

\* What an instruction gives to an account of what it takes, and records in escrows.
NetMove(ix, fee) ==
    [a \in TokenAccounts |-> Delta(Gives(ix, fee), a) - Delta(Takes(ix, fee), a)]
Recorded(ix) ==
    [v \in Wallets |-> IF ix.op = "lock" /\ ix.acc.lockEscrow = EscrowOf(v) THEN ix.n ELSE 0]

\* Amounts of proper instructions are integers.
LEMMA ProperMoves ==
    ASSUME NEW ix, NEW fee, Proper(ix, fee)
    PROVE  /\ \A a \in TokenAccounts :
                 Delta(Gives(ix, fee), a) \in Nat /\ Delta(Takes(ix, fee), a) \in Nat
           /\ NetMove(ix, fee) \in [TokenAccounts -> Int] /\ Recorded(ix) \in [Wallets -> Int]
<1>1. \A a \in TokenAccounts : Delta(Gives(ix, fee), a) \in Nat /\ Delta(Takes(ix, fee), a) \in Nat
  BY DEF Proper, Delta
<1>2. NetMove(ix, fee) \in [TokenAccounts -> Int]
  BY <1>1 DEF NetMove
<1>3. Recorded(ix) \in [Wallets -> Int]
  BY DEF Recorded, Proper
<1> QED
  BY <1>1, <1>2, <1>3

\* An instruction of the program moves its net amounts.
LEMMA MainMoved ==
    ASSUME NEW K, NEW ix, NEW fee, Sound(K), ix.op \notin NoMoveOps, Proper(ix, fee),
           NEW M, M = After(K, ix, fee), NEW w
    PROVE  Moved(K, M, w, {}, NetMove(ix, fee), Recorded(ix)) /\ M.open = K.open
           /\ \A a \in TokenAccounts : M.holds[a] = K.holds[a] + NetMove(ix, fee)[a]
<1>1. /\ M.open = K.open /\ M.lamports = K.lamports
      /\ \A a \in TokenAccounts :
            M.holds[a] = K.holds[a] - Delta(Takes(ix, fee), a) + Delta(Gives(ix, fee), a) + 0
      /\ ix.op # "lock" => M.locked = K.locked
      /\ ix.op = "lock" =>
            \A v \in Wallets :
               M.locked[v] = K.locked[v] + (IF ix.acc.lockEscrow = EscrowOf(v) THEN ix.n ELSE 0)
  BY MainEffect
<1>2. /\ K.holds \in [TokenAccounts -> Nat] /\ K.lamports \in [Wallets -> Nat]
      /\ K.locked \in [Wallets -> Nat]
  BY DEF Sound
<1> DEFINE d == NetMove(ix, fee)
           T == Takes(ix, fee)
           G == Gives(ix, fee)
<1>3. \A a \in TokenAccounts : Delta(G, a) \in Nat /\ Delta(T, a) \in Nat
                               /\ d[a] = Delta(G, a) - Delta(T, a)
  BY ProperMoves DEF NetMove
<1> HIDE DEF d, T, G
<1>4. \A a \in TokenAccounts : M.holds[a] = K.holds[a] + d[a] /\ d[a] \in Int
  BY <1>1, <1>2, <1>3 DEF T, G
<1>5. \A v \in Wallets : M.locked[v] = K.locked[v] + Recorded(ix)[v]
  BY <1>1, <1>2 DEF Recorded
<1>6. Moved(K, M, w, {}, d, Recorded(ix))
  <2> SUFFICES ASSUME NEW v \in Wallets
               PROVE  /\ M.holds[Ata(v, "A")] = K.holds[Ata(v, "A")] + d[Ata(v, "A")]
                      /\ M.holds[Ata(v, "LP")] = K.holds[Ata(v, "LP")] + d[Ata(v, "LP")]
                      /\ M.holds[Ata(v, "SOL")] + M.lamports[v]
                            = K.holds[Ata(v, "SOL")] + K.lamports[v] + d[Ata(v, "SOL")]
                      /\ M.holds[Ata(v, "SOL")] = K.holds[Ata(v, "SOL")] + d[Ata(v, "SOL")]
    BY <1>1, <1>5 DEF Moved
  <2>1. Ata(v, "A") \in TokenAccounts /\ Ata(v, "SOL") \in TokenAccounts
        /\ Ata(v, "LP") \in TokenAccounts
    BY TokenAtas
  <2>2. K.holds[Ata(v, "SOL")] \in Nat /\ K.lamports[v] \in Nat /\ M.lamports[v] = K.lamports[v]
    BY <1>1, Amounts
  <2> QED
    BY <1>4, <2>1, <2>2
<1> QED
  BY <1>1, <1>4, <1>6 DEF d

\* Closing w's account for wrapped SOL shows in nothing else, and empties it.
LEMMA UnwrapMoved ==
    ASSUME NEW K, NEW fee, Sound(K), NEW w \in Wallets, NEW ix,
           ix = UnwrapIx(w),
           NEW M, M = After(K, ix, fee)
    PROVE  Moved(K, M, w, {}, Still, NoLock) /\ M.holds[Ata(w, "SOL")] = 0
<1> DEFINE a0 == Ata(w, "SOL")
<1>1. /\ M.open = K.open \ {a0}
      /\ M.holds[a0] = 0 /\ \A a \in TokenAccounts \ {a0} : M.holds[a] = K.holds[a]
      /\ M.lamports[w] = K.lamports[w] + K.holds[a0]
      /\ \A v \in Wallets \ {w} : M.lamports[v] = K.lamports[v]
      /\ M.locked = K.locked
  <2>1. Unwrapped(K, M, w)
    BY UnwrapEffect
  <2> QED
    BY <2>1 DEF Unwrapped
<1>2. a0 \in TokenAccounts
  BY TokenAtas
<1>3. ASSUME NEW v \in Wallets
      PROVE  /\ M.holds[Ata(v, "A")] = K.holds[Ata(v, "A")] + Still[Ata(v, "A")]
             /\ M.holds[Ata(v, "LP")] = K.holds[Ata(v, "LP")] + Still[Ata(v, "LP")]
             /\ M.holds[Ata(v, "SOL")] + M.lamports[v]
                   = K.holds[Ata(v, "SOL")] + K.lamports[v] + Still[Ata(v, "SOL")]
             /\ v # w => M.holds[Ata(v, "SOL")] = K.holds[Ata(v, "SOL")] + Still[Ata(v, "SOL")]
             /\ M.locked[v] = K.locked[v] + NoLock[v]
             /\ Ata(EscrowOf(v), "LP") \in K.open => Ata(EscrowOf(v), "LP") \in M.open
             /\ EscrowOf(v) \in M.open => EscrowOf(v) \in K.open \/ v \in {}
  <2>1. /\ Ata(v, "A") # a0 /\ Ata(v, "LP") # a0 /\ Ata(EscrowOf(v), "LP") # a0
        /\ Ata(v, "SOL") = a0 <=> v = w
    BY AtaEqual
  <2>2. /\ Ata(v, "A") \in TokenAccounts /\ Ata(v, "SOL") \in TokenAccounts
        /\ Ata(v, "LP") \in TokenAccounts
    BY TokenAtas
  <2>3. /\ K.holds[Ata(v, "A")] \in Nat /\ K.holds[Ata(v, "SOL")] \in Nat
        /\ K.holds[Ata(v, "LP")] \in Nat /\ K.lamports[v] \in Nat /\ K.locked[v] \in Nat
    BY Amounts
  <2>4. Still[Ata(v, "A")] = 0 /\ Still[Ata(v, "SOL")] = 0 /\ Still[Ata(v, "LP")] = 0
        /\ NoLock[v] = 0
    BY <2>2 DEF Still, NoLock
  <2> DEFINE a == Ata(v, "A")
             s == Ata(v, "SOL")
             l == Ata(v, "LP")
  <2> HIDE DEF a0, a, s, l
  <2>5. M.holds[a] = K.holds[a] + Still[a] /\ M.holds[l] = K.holds[l] + Still[l]
    BY <1>1, <2>1, <2>2, <2>3, <2>4 DEF a, l
  <2>6. /\ M.holds[s] + M.lamports[v] = K.holds[s] + K.lamports[v] + Still[s]
        /\ v # w => M.holds[s] = K.holds[s] + Still[s]
    <3>1. CASE v = w
      <4>1. s = a0 /\ M.holds[a0] = 0 /\ M.lamports[v] = K.lamports[v] + K.holds[a0]
        BY <1>1, <1>2, <2>1, <3>1 DEF s
      <4> QED
        BY <2>3, <2>4, <3>1, <4>1 DEF s
    <3>2. CASE v # w
      <4>1. s # a0 /\ M.holds[s] = K.holds[s] /\ M.lamports[v] = K.lamports[v]
        BY <1>1, <2>1, <2>2, <3>2 DEF s
      <4> QED
        BY <2>3, <2>4, <3>2, <4>1 DEF s
    <3> QED
      BY <3>1, <3>2
  <2>7. M.locked[v] = K.locked[v] + NoLock[v]
    BY <1>1, <2>3, <2>4
  <2>8. /\ Ata(EscrowOf(v), "LP") \in K.open => Ata(EscrowOf(v), "LP") \in M.open
        /\ EscrowOf(v) \in M.open => EscrowOf(v) \in K.open
    BY <1>1, <2>1
  <2> QED
    BY <2>5, <2>6, <2>7, <2>8 DEF a, s, l
<1>4. Moved(K, M, w, {}, Still, NoLock)
  BY <1>3 DEF Moved
<1> QED
  BY <1>1, <1>2, <1>4

\* Opening accounts, of the escrows those of E at most, moves nothing.
LEMMA QuietMoved ==
    ASSUME NEW K, NEW M, Sound(K), NEW w, NEW E, NEW X,
           M.holds = K.holds, M.lamports = K.lamports, M.locked = K.locked,
           M.open = K.open \cup X, \A v \in Wallets : EscrowOf(v) \in X => v \in E
    PROVE  Moved(K, M, w, E, Still, NoLock)
<1> SUFFICES ASSUME NEW v \in Wallets
             PROVE  /\ K.holds[Ata(v, "A")] = K.holds[Ata(v, "A")] + Still[Ata(v, "A")]
                    /\ K.holds[Ata(v, "LP")] = K.holds[Ata(v, "LP")] + Still[Ata(v, "LP")]
                    /\ K.holds[Ata(v, "SOL")] + K.lamports[v]
                          = K.holds[Ata(v, "SOL")] + K.lamports[v] + Still[Ata(v, "SOL")]
                    /\ K.holds[Ata(v, "SOL")] = K.holds[Ata(v, "SOL")] + Still[Ata(v, "SOL")]
                    /\ K.locked[v] = K.locked[v] + NoLock[v]
  BY DEF Moved
<1>1. Still[Ata(v, "A")] = 0 /\ Still[Ata(v, "SOL")] = 0 /\ Still[Ata(v, "LP")] = 0
      /\ NoLock[v] = 0
  BY TokenAtas DEF Still, NoLock
<1>2. /\ K.holds[Ata(v, "A")] \in Nat /\ K.holds[Ata(v, "SOL")] \in Nat
      /\ K.holds[Ata(v, "LP")] \in Nat /\ K.lamports[v] \in Nat /\ K.locked[v] \in Nat
  BY Amounts
<1> QED
  BY <1>1, <1>2

\* Wrapping moves nothing that is not w's own SOL.
LEMMA WrapMoved ==
    ASSUME NEW K, NEW fee, Sound(K), NEW w \in Wallets, NEW n \in Nat, NEW ix,
           ix = WrapIx(w, n),
           NEW M, M = After(K, ix, fee), NEW E
    PROVE  /\ M.open = K.open /\ Moved(K, M, w, E, Still, NoLock)
           /\ M.holds[Ata(w, "SOL")] = K.holds[Ata(w, "SOL")] + n
<1> DEFINE a0 == Ata(w, "SOL")
<1>1. /\ M.open = K.open
      /\ M.holds[a0] = K.holds[a0] + n
      /\ \A a \in TokenAccounts \ {a0} : M.holds[a] = K.holds[a]
      /\ M.lamports[w] = K.lamports[w] - n
      /\ \A v \in Wallets \ {w} : M.lamports[v] = K.lamports[v]
      /\ M.locked = K.locked
  <2>1. Wrapped(K, M, w, n)
    BY WrapEffect
  <2> QED
    BY <2>1 DEF Wrapped
<1>2. a0 \in TokenAccounts
  BY TokenAtas
<1>3. ASSUME NEW v \in Wallets
      PROVE  /\ M.holds[Ata(v, "A")] = K.holds[Ata(v, "A")] + Still[Ata(v, "A")]
             /\ M.holds[Ata(v, "LP")] = K.holds[Ata(v, "LP")] + Still[Ata(v, "LP")]
             /\ M.holds[Ata(v, "SOL")] + M.lamports[v]
                   = K.holds[Ata(v, "SOL")] + K.lamports[v] + Still[Ata(v, "SOL")]
             /\ v # w => M.holds[Ata(v, "SOL")] = K.holds[Ata(v, "SOL")] + Still[Ata(v, "SOL")]
             /\ M.locked[v] = K.locked[v] + NoLock[v]
  <2>1. /\ Ata(v, "A") # a0 /\ Ata(v, "LP") # a0
        /\ Ata(v, "SOL") = a0 <=> v = w
    BY AtaEqual
  <2>2. /\ Ata(v, "A") \in TokenAccounts /\ Ata(v, "SOL") \in TokenAccounts
        /\ Ata(v, "LP") \in TokenAccounts
    BY TokenAtas
  <2>3. /\ K.holds[Ata(v, "A")] \in Nat /\ K.holds[Ata(v, "SOL")] \in Nat
        /\ K.holds[Ata(v, "LP")] \in Nat /\ K.lamports[v] \in Nat /\ K.locked[v] \in Nat
    BY Amounts
  <2>4. Still[Ata(v, "A")] = 0 /\ Still[Ata(v, "SOL")] = 0 /\ Still[Ata(v, "LP")] = 0
        /\ NoLock[v] = 0
    BY <2>2 DEF Still, NoLock
  <2> DEFINE a == Ata(v, "A")
             s == Ata(v, "SOL")
             l == Ata(v, "LP")
  <2> HIDE DEF a0, a, s, l
  <2>5. M.holds[a] = K.holds[a] + Still[a] /\ M.holds[l] = K.holds[l] + Still[l]
    BY <1>1, <2>1, <2>2, <2>3, <2>4 DEF a, l
  <2>6. /\ M.holds[s] + M.lamports[v] = K.holds[s] + K.lamports[v] + Still[s]
        /\ v # w => M.holds[s] = K.holds[s] + Still[s]
    <3>1. CASE v = w
      <4>1. s = a0 /\ M.holds[a0] = K.holds[a0] + n /\ M.lamports[v] = K.lamports[v] - n
        BY <1>1, <1>2, <2>1, <3>1 DEF s
      <4> QED
        BY <2>3, <2>4, <3>1, <4>1 DEF s
    <3>2. CASE v # w
      <4>1. s # a0 /\ M.holds[s] = K.holds[s] /\ M.lamports[v] = K.lamports[v]
        BY <1>1, <2>1, <2>2, <3>2 DEF s
      <4> QED
        BY <2>3, <2>4, <3>2, <4>1 DEF s
    <3> QED
      BY <3>1, <3>2
  <2>7. M.locked[v] = K.locked[v] + NoLock[v]
    BY <1>1, <2>3, <2>4
  <2> QED
    BY <2>5, <2>6, <2>7 DEF a, s, l
<1>4. Moved(K, M, w, E, Still, NoLock)
  BY <1>1, <1>3 DEF Moved
<1>5. M.holds[a0] = K.holds[a0] + n
  BY <1>1, <1>2
<1> QED
  BY <1>1, <1>4, <1>5

(***************************************************************************)
(* What precedes the program's instruction.                                *)
(***************************************************************************)

Creates(w) == {CreateAta(w, a) : a \in TokenAccounts}
Wraps(w, W) == {WrapIx(w, n) : n \in W}
NewEscrow(w, v) ==
    Bind("createLockEscrow", [lockEscrow |-> EscrowOf(v), owner |-> v, payer |-> w], 0, {})
Setup(w, W, E) == Creates(w) \cup Wraps(w, W) \cup {NewEscrow(w, v) : v \in E}

\* From K to M, a setup.
SetUp(K, M, w, W, E) ==
    /\ Sound(M) /\ Moved(K, M, w, E, Still, NoLock)
    /\ M.open \in SUBSET (K.open \cup TokenAccounts \cup {EscrowOf(v) : v \in E})
    /\ W = {} => M.holds = K.holds

\* One instruction of a setup only wraps and opens accounts.
LEMMA SetupStep ==
    ASSUME NEW K, NEW fee, Sound(K), NEW w \in Wallets, NEW W \in SUBSET Nat,
           NEW E \in SUBSET Wallets, NEW ix \in Setup(w, W, E), Allowed(K, ix, fee),
           NEW M, M = After(K, ix, fee)
    PROVE  SetUp(K, M, w, W, E)
<1>1. CASE ix \in Creates(w)
  <2>1. PICK a \in TokenAccounts : ix = CreateAta(w, a)
    BY <1>1 DEF Creates
  <2>2. ix.op = "createAta" /\ ix.acc.ata = a
    BY <2>1, NativeFields DEF CreateAta
  <2>3. Opens(ix) = {a}
    BY <2>2, Zenon DEF Opens
  <2>4. Takes(ix, fee) = <<>> /\ Gives(ix, fee) = <<>>
    BY <2>2, NoMoves DEF NoMoveOps, QuietOps
  <2>5. Proper(ix, fee)
    BY <2>2, <2>4 DEF Proper
  <2>6. Sound(M)
    BY <2>5, AfterSound
  <2>7. /\ M.holds = K.holds /\ M.lamports = K.lamports /\ M.locked = K.locked
        /\ M.open = K.open \cup {a}
    BY <2>2, <2>3, QuietEffect DEF QuietOps
  <2>8. \A v \in Wallets : EscrowOf(v) \in {a} => v \in E
    BY EscrowsApart
  <2>9. Moved(K, M, w, E, Still, NoLock)
    BY <2>7, <2>8, QuietMoved
  <2> QED
    BY <2>6, <2>7, <2>9 DEF SetUp
<1>2. CASE ix \in Wraps(w, W)
  <2>1. PICK n \in W : ix = WrapIx(w, n)
    BY <1>2 DEF Wraps
  <2>2. n \in Nat /\ W # {}
    OBVIOUS
  <2>3. ix.op = "wrap" /\ ix.n = n /\ ix.acc.ata = Ata(w, "SOL")
    BY <2>1, NativeFields DEF WrapIx
  <2>4. Takes(ix, fee) = <<>> /\ Gives(ix, fee) = <<>>
    BY <2>3, NoMoves DEF NoMoveOps
  <2>5. Ata(w, "SOL") \in TokenAccounts
    BY TokenAtas
  <2>6. Proper(ix, fee)
    BY <2>2, <2>3, <2>4, <2>5 DEF Proper
  <2>7. Sound(M)
    BY <2>6, AfterSound
  <2>8. M.open = K.open /\ Moved(K, M, w, E, Still, NoLock)
    BY <2>1, <2>2, WrapMoved
  <2> QED
    BY <2>2, <2>7, <2>8 DEF SetUp
<1>3. CASE ix \in {NewEscrow(w, v) : v \in E}
  <2>1. PICK u \in E : ix = NewEscrow(w, u)
    BY <1>3
  <2>2. ix.op = "createLockEscrow" /\ ix.acc.lockEscrow = EscrowOf(u)
    BY <2>1, EscrowBound DEF NewEscrow
  <2>3. Opens(ix) = {EscrowOf(u)}
    BY <2>2, Zenon DEF Opens
  <2>4. Takes(ix, fee) = <<>> /\ Gives(ix, fee) = <<>>
    BY <2>2, NoMoves DEF NoMoveOps, QuietOps
  <2>5. Proper(ix, fee)
    BY <2>2, <2>4 DEF Proper
  <2>6. Sound(M)
    BY <2>5, AfterSound
  <2>7. /\ M.holds = K.holds /\ M.lamports = K.lamports /\ M.locked = K.locked
        /\ M.open = K.open \cup {EscrowOf(u)}
    BY <2>2, <2>3, QuietEffect DEF QuietOps
  <2>8. \A v \in Wallets : EscrowOf(v) \in {EscrowOf(u)} => v \in E
    BY EscrowsApart
  <2>9. Moved(K, M, w, E, Still, NoLock)
    BY <2>7, <2>8, QuietMoved
  <2> QED
    BY <2>6, <2>7, <2>9 DEF SetUp
<1> QED
  BY <1>1, <1>2, <1>3 DEF Setup

\* A sequence is one over any larger set.
LEMMA SeqWider ==
    ASSUME NEW S, NEW T, S \subseteq T, NEW s \in Seq(S)
    PROVE  s \in Seq(T)
<1>1. s \in [1 .. Len(s) -> S] /\ Len(s) \in Nat
  BY LenProperties
<1>2. s \in [1 .. Len(s) -> T]
  BY <1>1
<1> QED
  BY <1>1, <1>2, IsASeq

\* Integers without effect.
LEMMA StillTypes ==
    Still \in [TokenAccounts -> Int] /\ NoLock \in [Wallets -> Int]
BY DEF Still, NoLock

\* A setup moves nothing but w's own SOL, and without wrapping not even that.
LEMMA SetupEffect ==
    ASSUME NEW L, Sound(L), NEW w \in Wallets, NEW W \in SUBSET Nat, NEW E \in SUBSET Wallets,
           NEW s \in Seq(Setup(w, W, E)), NEW fee, NEW M, Runs(L, s, fee, M)
    PROVE  /\ Sound(M) /\ Moved(L, M, w, E, Still, NoLock)
           /\ W = {} => M.holds = L.holds
<1> DEFINE U == L.open \cup TokenAccounts \cup {EscrowOf(v) : v \in E}
           Ledgers == [open : SUBSET U, holds : [TokenAccounts -> Nat],
                       lamports : [Wallets -> Nat], locked : [Wallets -> Nat]]
           I == {K \in Ledgers : /\ Sound(K) /\ Moved(L, K, w, E, Still, NoLock)
                                 /\ W = {} => K.holds = L.holds}
<1>1. \A K : Sound(K) /\ K.open \in SUBSET U => K \in Ledgers
  BY DEF Sound
<1>2. Moved(L, L, w, E, Still, NoLock)
  <2> DEFINE X == {}
  <2>1. L.open = L.open \cup X /\ \A v \in Wallets : EscrowOf(v) \in X => v \in E
    OBVIOUS
  <2>2. L.holds = L.holds /\ L.lamports = L.lamports /\ L.locked = L.locked
    OBVIOUS
  <2> HIDE DEF X
  <2> QED
    BY <2>1, <2>2, QuietMoved
<1>3. L \in I
  BY <1>1, <1>2
<1>4. ASSUME NEW K \in I, NEW ix \in Setup(w, W, E), Allowed(K, ix, fee)
      PROVE  After(K, ix, fee) \in I
  <2> DEFINE N == After(K, ix, fee)
  <2>1. /\ Sound(K) /\ Moved(L, K, w, E, Still, NoLock) /\ K.open \in SUBSET U
        /\ W = {} => K.holds = L.holds
    OBVIOUS
  <2> HIDE DEF I, Ledgers
  <2>2. /\ Sound(N) /\ Moved(K, N, w, E, Still, NoLock)
        /\ N.open \in SUBSET (K.open \cup TokenAccounts \cup {EscrowOf(v) : v \in E})
        /\ W = {} => N.holds = K.holds
    <3>1. SetUp(K, N, w, W, E)
      BY <1>4, <2>1, SetupStep
    <3> QED
      BY <3>1 DEF SetUp
  <2>3. N.open \in SUBSET U
    BY <2>1, <2>2
  <2> HIDE DEF N
  <2>4. /\ \A a \in TokenAccounts : Still[a] = Still[a] + Still[a]
        /\ \A v \in Wallets : NoLock[v] = NoLock[v] + NoLock[v]
    BY DEF Still, NoLock
  <2>5. Moved(L, N, w, E, Still, NoLock)
    <3>1. E \in SUBSET E
      OBVIOUS
    <3> QED
      BY <2>1, <2>2, <2>4, <3>1, StillTypes, MovedTwice
  <2>6. N \in Ledgers
    BY <1>1, <2>2, <2>3
  <2> QED
    BY <2>1, <2>2, <2>5, <2>6 DEF I, N
<1> HIDE DEF I
<1>5. M \in I
  BY <1>3, <1>4, RunsKeep
<1> QED
  BY <1>5 DEF I

\* From L to M, a setup and an instruction of the program.
BodyDone(L, M, w, W, E, ix, fee) ==
    /\ Sound(M) /\ Moved(L, M, w, E, NetMove(ix, fee), Recorded(ix))
    /\ DOMAIN Gives(ix, fee) \subseteq M.open
    /\ W = {} => \A a \in TokenAccounts : M.holds[a] = L.holds[a] + NetMove(ix, fee)[a]

\* A setup and an instruction of the program.
LEMMA BodyEffect ==
    ASSUME NEW L, Sound(L), NEW w \in Wallets, NEW W \in SUBSET Nat, NEW E \in SUBSET Wallets,
           NEW pre \in Seq(Setup(w, W, E)), NEW ix, NEW fee, ix.op \notin NoMoveOps,
           Proper(ix, fee), NEW M, Runs(L, pre \o <<ix>>, fee, M)
    PROVE  BodyDone(L, M, w, W, E, ix, fee)
<1> DEFINE S == Setup(w, W, E) \cup {ix}
<1>1. pre \in Seq(S) /\ <<ix>> \in Seq(S)
  BY SeqWider
<1> HIDE DEF S
<1>2. PICK K : Runs(L, pre, fee, K) /\ Runs(K, <<ix>>, fee, M)
  BY <1>1, RunsSplit
<1>3. Sound(K) /\ Moved(L, K, w, E, Still, NoLock) /\ (W = {} => K.holds = L.holds)
  BY <1>2, SetupEffect
<1>4. Allowed(K, ix, fee) /\ M = After(K, ix, fee)
  BY <1>2, RunsOne
<1>5. Sound(M)
  BY <1>3, <1>4, AfterSound
<1>6. /\ Moved(K, M, w, {}, NetMove(ix, fee), Recorded(ix)) /\ M.open = K.open
      /\ \A a \in TokenAccounts : M.holds[a] = K.holds[a] + NetMove(ix, fee)[a]
  BY <1>3, <1>4, MainMoved
<1>7. DOMAIN Gives(ix, fee) \subseteq K.open
  BY <1>4 DEF Allowed
<1>8. NetMove(ix, fee) \in [TokenAccounts -> Int] /\ Recorded(ix) \in [Wallets -> Int]
  BY ProperMoves
<1>9. /\ \A a \in TokenAccounts : NetMove(ix, fee)[a] = Still[a] + NetMove(ix, fee)[a]
      /\ \A v \in Wallets : Recorded(ix)[v] = NoLock[v] + Recorded(ix)[v]
  BY <1>8 DEF Still, NoLock
<1>10. Moved(L, M, w, E, NetMove(ix, fee), Recorded(ix))
  <2>1. E \in SUBSET E /\ {} \in SUBSET E
    OBVIOUS
  <2> QED
    BY <1>3, <1>5, <1>6, <1>8, <1>9, <2>1, StillTypes, MovedTwice
<1> QED
  BY <1>3, <1>5, <1>6, <1>7, <1>10 DEF BodyDone

\* A setup, an instruction of the program, and the closing of the payer's wrapped SOL.
LEMMA WholeEffect ==
    ASSUME NEW L, Sound(L), NEW w \in Wallets, NEW W \in SUBSET Nat, NEW E \in SUBSET Wallets,
           NEW pre \in Seq(Setup(w, W, E)), NEW ix, NEW fee, ix.op \notin NoMoveOps,
           Proper(ix, fee), NEW M, Runs(L, (pre \o <<ix>>) \o UnwrapSol(w), fee, M)
    PROVE  /\ Sound(M) /\ Moved(L, M, w, E, NetMove(ix, fee), Recorded(ix))
           /\ M.holds[Ata(w, "SOL")] = 0
<1> DEFINE S == Setup(w, W, E) \cup {ix, UnwrapIx(w)}
<1>1. UnwrapSol(w) = <<UnwrapIx(w)>>
  BY DEF UnwrapSol, UnwrapIx
<1>2. pre \in Seq(S) /\ <<ix>> \in Seq(S) /\ <<UnwrapIx(w)>> \in Seq(S)
  BY SeqWider
<1> HIDE DEF S
<1>3. pre \o <<ix>> \in Seq(S)
  BY <1>2, ConcatProperties
<1>4. PICK K : Runs(L, pre \o <<ix>>, fee, K) /\ Runs(K, <<UnwrapIx(w)>>, fee, M)
  BY <1>1, <1>2, <1>3, RunsSplit
<1>5. Sound(K) /\ Moved(L, K, w, E, NetMove(ix, fee), Recorded(ix))
  BY <1>4, BodyEffect DEF BodyDone
<1>6. Allowed(K, UnwrapIx(w), fee) /\ M = After(K, UnwrapIx(w), fee)
  BY <1>4, RunsOne
<1>7. Moved(K, M, w, {}, Still, NoLock) /\ M.holds[Ata(w, "SOL")] = 0
  BY <1>5, <1>6, UnwrapMoved
<1>8. Sound(M)
  <2> DEFINE c == UnwrapIx(w)
  <2>1. c.op = "closeAta" /\ c.acc.ata = Ata(w, "SOL")
    BY NativeFields DEF UnwrapIx
  <2>2. Ata(w, "SOL") \in TokenAccounts
    BY TokenAtas
  <2>3. Takes(c, fee) = <<>> /\ Gives(c, fee) = <<>>
    BY <2>1, NoMoves DEF NoMoveOps
  <2> HIDE DEF c
  <2>4. Proper(c, fee)
    BY <2>1, <2>2, <2>3 DEF Proper
  <2> QED
    BY <1>5, <1>6, <2>4, AfterSound DEF c
<1>9. NetMove(ix, fee) \in [TokenAccounts -> Int] /\ Recorded(ix) \in [Wallets -> Int]
  BY ProperMoves
<1>10. /\ \A a \in TokenAccounts : NetMove(ix, fee)[a] = NetMove(ix, fee)[a] + Still[a]
       /\ \A v \in Wallets : Recorded(ix)[v] = Recorded(ix)[v] + NoLock[v]
  BY <1>9 DEF Still, NoLock
<1>11. Moved(L, M, w, E, NetMove(ix, fee), Recorded(ix))
  <2>1. E \in SUBSET E /\ {} \in SUBSET E
    OBVIOUS
  <2> QED
    BY <1>5, <1>7, <1>8, <1>9, <1>10, <2>1, StillTypes, MovedTwice
<1> QED
  BY <1>7, <1>8, <1>11

\* A setup that wraps n lamports leaves n more in w's account for wrapped SOL than the
\* program's instruction alone would.
LEMMA WrapBetween ==
    ASSUME NEW L, Sound(L), NEW w \in Wallets, NEW n \in Nat,
           NEW p \in Seq(Creates(w)), NEW q \in Seq(Creates(w)),
           NEW ix, NEW fee, ix.op \notin NoMoveOps, Proper(ix, fee), NEW M,
           Runs(L, ((p \o WrapSol(w, n)) \o q) \o <<ix>>, fee, M)
    PROVE  M.holds[Ata(w, "SOL")]
              = L.holds[Ata(w, "SOL")] + n + NetMove(ix, fee)[Ata(w, "SOL")]
<1> DEFINE S == Creates(w) \cup {WrapIx(w, n), ix}
           W0 == {}
           E0 == {}
<1>1. WrapSol(w, n) = <<WrapIx(w, n)>>
  BY DEF WrapSol, WrapIx
<1>2. /\ p \in Seq(S) /\ q \in Seq(S) /\ <<ix>> \in Seq(S) /\ <<WrapIx(w, n)>> \in Seq(S)
  BY SeqWider
<1>3. /\ Creates(w) \subseteq Setup(w, W0, E0) /\ W0 \in SUBSET Nat /\ E0 \in SUBSET Wallets
  BY DEF Setup
<1>4. p \in Seq(Setup(w, W0, E0)) /\ q \in Seq(Setup(w, W0, E0)) /\ W0 = {}
  BY <1>3, SeqWider
<1> HIDE DEF S, W0, E0
<1>5. /\ p \o <<WrapIx(w, n)>> \in Seq(S)
      /\ (p \o <<WrapIx(w, n)>>) \o q \in Seq(S)
  BY <1>2, ConcatProperties
<1>6. PICK K : Runs(L, (p \o <<WrapIx(w, n)>>) \o q, fee, K) /\ Runs(K, <<ix>>, fee, M)
  BY <1>1, <1>2, <1>5, RunsSplit
<1>7. PICK J : Runs(L, p \o <<WrapIx(w, n)>>, fee, J) /\ Runs(J, q, fee, K)
  BY <1>2, <1>5, <1>6, RunsSplit
<1>8. PICK H : Runs(L, p, fee, H) /\ Runs(H, <<WrapIx(w, n)>>, fee, J)
  BY <1>2, <1>7, RunsSplit
<1>9. Sound(H) /\ H.holds = L.holds
  BY <1>3, <1>4, <1>8, SetupEffect
<1>10. Allowed(H, WrapIx(w, n), fee) /\ J = After(H, WrapIx(w, n), fee)
  BY <1>8, RunsOne
<1> DEFINE c == WrapIx(w, n)
<1>11. J.holds[Ata(w, "SOL")] = H.holds[Ata(w, "SOL")] + n
  <2>1. c = WrapIx(w, n)
    OBVIOUS
  <2> HIDE DEF c
  <2>2. J = After(H, c, fee)
    BY <1>10 DEF c
  <2>3. Wrapped(H, J, w, n)
    BY <1>9, <2>1, <2>2, WrapEffect
  <2> QED
    BY <2>3 DEF Wrapped
<1>12. Sound(J)
  <2>1. c.op = "wrap" /\ c.n = n /\ c.acc.ata = Ata(w, "SOL")
    BY NativeFields DEF WrapIx
  <2>2. Ata(w, "SOL") \in TokenAccounts
    BY TokenAtas
  <2>3. Takes(c, fee) = <<>> /\ Gives(c, fee) = <<>>
    BY <2>1, NoMoves DEF NoMoveOps
  <2> HIDE DEF c
  <2>4. Proper(c, fee)
    BY <2>1, <2>2, <2>3 DEF Proper
  <2> QED
    BY <1>9, <1>10, <2>4, AfterSound DEF c
<1>13. Sound(K) /\ K.holds = J.holds
  BY <1>3, <1>4, <1>7, <1>12, SetupEffect
<1>14. Allowed(K, ix, fee) /\ M = After(K, ix, fee)
  BY <1>6, RunsOne
<1>15. \A a \in TokenAccounts : M.holds[a] = K.holds[a] + NetMove(ix, fee)[a]
  BY <1>13, <1>14, MainMoved
<1>16. M.holds[Ata(w, "SOL")] = K.holds[Ata(w, "SOL")] + NetMove(ix, fee)[Ata(w, "SOL")]
  BY <1>15, TokenAtas
<1> QED
  BY <1>9, <1>11, <1>13, <1>16

(***************************************************************************)
(* What each builder's instruction moves, and what was asked of it.        *)
(***************************************************************************)

\* The program's instruction of a swap, as the builder binds it.
SwapIx(w, side, who) ==
    Bind("swap", [userSourceToken |-> Ata(w, side), userDestinationToken |-> Ata(w, Other(side)),
                  protocolTokenFee |-> <<"protocolTokenFee", side>>, user |-> w],
         AmountIn, IF who = NoCall THEN {} ELSE {Ata(who, side)})

\* A swap by w, referred by who: w pays and receives, who gets the host fee.
SwapMoves(ix, fee, w, side, who) ==
    /\ ix.op = "swap" /\ ix.signers = {w} /\ Proper(ix, fee)
    /\ NetMove(ix, fee)[Ata(w, side)] = -AmountIn
    /\ NetMove(ix, fee)[Ata(w, Other(side))] = AmountIn - HostFee
    /\ NetMove(ix, fee)[Ata(w, "LP")] = 0
    /\ who \in Wallets => NetMove(ix, fee)[Ata(who, side)] = HostFee
    /\ \A v \in Wallets \ {w}, m \in {"A", "SOL", "LP"} :
          v # who \/ m # side => NetMove(ix, fee)[Ata(v, m)] = 0
    /\ \A v \in Wallets : Recorded(ix)[v] = 0

\* What a swap moves.
LEMMA SwapNet ==
    ASSUME NEW w \in Wallets, NEW side \in {"A", "SOL"},
           NEW who \in Wallets \cup {NoCall}, who # w, NEW fee,
           NEW ix, ix = SwapIx(w, side, who)
    PROVE  SwapMoves(ix, fee, w, side, who)
<1> DEFINE s == Ata(w, side)
           d == Ata(w, Other(side))
           r == IF who = NoCall THEN {} ELSE {Ata(who, side)}
<1>1. /\ ix.op = "swap" /\ ix.n = AmountIn /\ ix.remaining = r /\ ix.signers = {w}
      /\ ix.acc.userSourceToken = s /\ ix.acc.userDestinationToken = d
  BY SwapBound DEF SwapIx
<1>2. AmountIn = 2 /\ HostFee = 1
  BY DEF AmountIn, HostFee
<1>3. Other(side) \in {"A", "SOL"} /\ Other(side) # side
  BY DEF Other
<1>4. s # d /\ s \notin r /\ d \notin r /\ s # Ata(w, "LP") /\ d # Ata(w, "LP")
      /\ Ata(w, "LP") \notin r
  BY <1>3, AtaEqual
<1>5. Takes(ix, fee) = Of(s, AmountIn)
      /\ Gives(ix, fee) = [a \in {d} \cup r |-> IF a = d THEN AmountIn - HostFee ELSE HostFee]
  BY <1>1, Moves
<1>6. \A v \in Wallets \ {w}, m \in {"A", "SOL", "LP"} :
         Ata(v, m) # s /\ Ata(v, m) # d /\ (v # who \/ m # side => Ata(v, m) \notin r)
  BY AtaEqual
<1>7. who \in Wallets => who # NoCall /\ Ata(who, side) \in r /\ Ata(who, side) # s
                         /\ Ata(who, side) # d
  BY <1>3, AtaEqual, UserAssumption
<1>8. /\ \A v \in Wallets, m \in {"A", "SOL", "LP"} : Ata(v, m) \in TokenAccounts
      /\ s \in TokenAccounts /\ d \in TokenAccounts /\ Ata(w, "LP") \in TokenAccounts
      /\ who \in Wallets => Ata(who, side) \in TokenAccounts
  BY <1>3 DEF TokenAccounts
<1>9. /\ \A a : Delta(Takes(ix, fee), a) = IF a = s THEN 2 ELSE 0
      /\ \A a \in DOMAIN Takes(ix, fee) : Takes(ix, fee)[a] = 2
  BY <1>2, <1>5 DEF Delta, Of
<1> HIDE DEF r, s, d
<1>10. /\ \A a : Delta(Gives(ix, fee), a) = IF a \in {d} \cup r THEN 1 ELSE 0
       /\ \A a \in DOMAIN Gives(ix, fee) : Gives(ix, fee)[a] = 1
  BY <1>2, <1>5 DEF Delta
<1>11. Proper(ix, fee)
  BY <1>1, <1>9, <1>10 DEF Proper
<1>12. \A a \in TokenAccounts :
          NetMove(ix, fee)[a] = Delta(Gives(ix, fee), a) - Delta(Takes(ix, fee), a)
  BY DEF NetMove
<1>13. \A a \in TokenAccounts :
          /\ a = s => NetMove(ix, fee)[a] = -2
          /\ a # s /\ a \in {d} \cup r => NetMove(ix, fee)[a] = 1
          /\ a # s /\ a \notin {d} \cup r => NetMove(ix, fee)[a] = 0
  BY <1>4, <1>9, <1>10, <1>12
<1>14. \A v \in Wallets : Recorded(ix)[v] = 0
  BY <1>1 DEF Recorded
<1>15. NetMove(ix, fee)[s] = -AmountIn /\ NetMove(ix, fee)[d] = AmountIn - HostFee
       /\ NetMove(ix, fee)[Ata(w, "LP")] = 0
       /\ (who \in Wallets => NetMove(ix, fee)[Ata(who, side)] = HostFee)
  BY <1>2, <1>4, <1>7, <1>8, <1>13
<1>16. \A v \in Wallets \ {w}, m \in {"A", "SOL", "LP"} :
          v # who \/ m # side => NetMove(ix, fee)[Ata(v, m)] = 0
  BY <1>6, <1>8, <1>13
<1> QED
  BY <1>1, <1>11, <1>14, <1>15, <1>16 DEF s, d, SwapMoves

\* Nobody but w is moved anything, and no escrow records anything.
OnlyMoves(ix, fee, w) ==
    /\ \A v \in Wallets \ {w}, m \in {"A", "SOL", "LP"} : NetMove(ix, fee)[Ata(v, m)] = 0
    /\ \A v \in Wallets : Recorded(ix)[v] = 0

\* A deposit by w of at most a and b.
DepositMoves(ix, fee, w, a, b, op) ==
    /\ ix.op = op /\ ix.signers = {w} /\ Proper(ix, fee)
    /\ NetMove(ix, fee)[Ata(w, "A")] \in -a .. 0
    /\ NetMove(ix, fee)[Ata(w, "SOL")] \in -b .. 0
    /\ NetMove(ix, fee)[Ata(w, "LP")] = LpAmount
    /\ OnlyMoves(ix, fee, w)

\* A withdrawal by w of the sides it asks for.
WithdrawMoves(ix, fee, w, sides, op) ==
    /\ ix.op = op /\ ix.signers = {w} /\ Proper(ix, fee)
    /\ \A m \in {"A", "SOL"} :
          NetMove(ix, fee)[Ata(w, m)] \in IF sides \in {"both", m} THEN 1 .. 2 ELSE {0}
    /\ NetMove(ix, fee)[Ata(w, "LP")] = -LpAmount
    /\ OnlyMoves(ix, fee, w)

\* A lock by w for the escrow of u.
LockMoves(ix, fee, w, u) ==
    /\ ix.op = "lock" /\ ix.signers = {w} /\ Proper(ix, fee)
    /\ NetMove(ix, fee)[Ata(w, "LP")] = -LpAmount
    /\ NetMove(ix, fee)[Ata(w, "A")] = 0 /\ NetMove(ix, fee)[Ata(w, "SOL")] = 0
    /\ \A v \in Wallets \ {w}, m \in {"A", "SOL", "LP"} : NetMove(ix, fee)[Ata(v, m)] = 0
    /\ Recorded(ix)[u] = LpAmount /\ \A v \in Wallets \ {u} : Recorded(ix)[v] = 0
    /\ DOMAIN Gives(ix, fee) = {Ata(EscrowOf(u), "LP")}

\* A claim by w of a fee.
ClaimMoves(ix, fee, w) ==
    /\ ix.op = "claimFee" /\ ix.signers = {w} /\ Proper(ix, fee)
    /\ NetMove(ix, fee)[Ata(w, "A")] = fee /\ NetMove(ix, fee)[Ata(w, "SOL")] = fee
    /\ NetMove(ix, fee)[Ata(w, "LP")] = 0
    /\ OnlyMoves(ix, fee, w)

\* What a deposit moves, by any of the methods that take both tokens.
LEMMA DepositNet ==
    ASSUME NEW w \in Wallets, NEW a \in 0 .. AmountIn, NEW b \in 0 .. AmountIn, NEW fee,
           NEW op \in {"bootstrapLiquidity", "addImbalanceLiquidity", "addBalanceLiquidity"},
           op = "addBalanceLiquidity" => a = AmountIn /\ b = AmountIn,
           NEW ix, ix = Bind(op, UserRoles(w), [A |-> a, SOL |-> b], {})
    PROVE  DepositMoves(ix, fee, w, a, b, op)
<1> DEFINE s == Ata(w, "A")
           d == Ata(w, "SOL")
           l == Ata(w, "LP")
           n == [A |-> a, SOL |-> b]
<1>1. /\ ix.op = op /\ ix.n = n /\ ix.signers = {w}
      /\ ix.acc.userAToken = s /\ ix.acc.userBToken = d /\ ix.acc.userPoolLp = l
  <2>1. op \in BothOps /\ ix = Bind(op, UserRoles(w), n, {})
    BY DEF BothOps
  <2> HIDE DEF n, s, d, l
  <2> QED
    BY <2>1, BothBound DEF s, d, l
<1>2. ix.n.A = a /\ ix.n.SOL = b /\ a \in Nat /\ b \in Nat /\ AmountIn = 2 /\ LpAmount = 1
  BY <1>1 DEF AmountIn, LpAmount
<1>3. s # d /\ l # s /\ l # d
      /\ \A v \in Wallets \ {w}, m \in {"A", "SOL", "LP"} :
            Ata(v, m) # s /\ Ata(v, m) # d /\ Ata(v, m) # l
  BY AtaEqual
<1>4. /\ \A v \in Wallets, m \in {"A", "SOL", "LP"} : Ata(v, m) \in TokenAccounts
      /\ s \in TokenAccounts /\ d \in TokenAccounts /\ l \in TokenAccounts
  BY DEF TokenAccounts
<1> HIDE DEF s, d, l, n
<1>5. PICK x \in 0 .. a, y \in 0 .. b :
         Takes(ix, fee) = OfBoth(s, x, d, y) /\ Gives(ix, fee) = Of(l, LpAmount)
  <2>1. CASE op = "addBalanceLiquidity"
    <3>1. Takes(ix, fee) = OfBoth(s, 1, d, 1) /\ Gives(ix, fee) = Of(l, LpAmount)
      BY <1>1, <1>2, <2>1, Moves
    <3> QED
      BY <1>2, <2>1, <3>1
  <2>2. CASE op # "addBalanceLiquidity"
    <3>1. ix.op \in {"bootstrapLiquidity", "addImbalanceLiquidity"}
      BY <1>1, <2>2
    <3>2. /\ Takes(ix, fee) = OfBoth(ix.acc.userAToken, ix.n.A, ix.acc.userBToken, ix.n.SOL)
          /\ Gives(ix, fee) = Of(ix.acc.userPoolLp, LpAmount)
      BY <3>1, Moves
    <3> QED
      BY <1>1, <1>2, <3>2
  <2> QED
    BY <2>1, <2>2
<1>6. /\ Delta(Takes(ix, fee), s) = x /\ Delta(Takes(ix, fee), d) = y
      /\ \A c : c # s /\ c # d => Delta(Takes(ix, fee), c) = 0
      /\ DOMAIN Takes(ix, fee) = {s, d} /\ Takes(ix, fee)[s] = x /\ Takes(ix, fee)[d] = y
  BY <1>3, <1>5 DEF Delta, OfBoth
<1>7. /\ Delta(Gives(ix, fee), l) = 1 /\ \A c : c # l => Delta(Gives(ix, fee), c) = 0
      /\ DOMAIN Gives(ix, fee) = {l} /\ Gives(ix, fee)[l] = 1
  BY <1>2, <1>5 DEF Delta, Of
<1>8. Proper(ix, fee)
  BY <1>1, <1>2, <1>6, <1>7 DEF Proper
<1>9. \A c \in TokenAccounts :
          NetMove(ix, fee)[c] = Delta(Gives(ix, fee), c) - Delta(Takes(ix, fee), c)
  BY DEF NetMove
<1>10. /\ NetMove(ix, fee)[s] = -x /\ NetMove(ix, fee)[d] = -y /\ NetMove(ix, fee)[l] = 1
  BY <1>2, <1>3, <1>4, <1>6, <1>7, <1>9
<1>11. \A v \in Wallets \ {w}, m \in {"A", "SOL", "LP"} : NetMove(ix, fee)[Ata(v, m)] = 0
  BY <1>3, <1>4, <1>6, <1>7, <1>9
<1>12. \A v \in Wallets : Recorded(ix)[v] = 0
  BY <1>1 DEF Recorded
<1>13. -x \in -a .. 0 /\ -y \in -b .. 0
  BY <1>2
<1>14. OnlyMoves(ix, fee, w)
  BY <1>11, <1>12 DEF OnlyMoves
<1> QED
  BY <1>1, <1>2, <1>8, <1>10, <1>13, <1>14 DEF s, d, l, DepositMoves

\* What a withdrawal of both sides moves.
LEMMA WithdrawBothNet ==
    ASSUME NEW w \in Wallets, NEW fee,
           NEW ix, ix = Bind("removeBalanceLiquidity", UserRoles(w), LpAmount, {})
    PROVE  WithdrawMoves(ix, fee, w, "both", "removeBalanceLiquidity")
<1> DEFINE s == Ata(w, "A")
           d == Ata(w, "SOL")
           l == Ata(w, "LP")
           o == "removeBalanceLiquidity"
<1>1. /\ ix.op = o /\ ix.n = LpAmount /\ ix.signers = {w}
      /\ ix.acc.userAToken = s /\ ix.acc.userBToken = d /\ ix.acc.userPoolLp = l
  <2>1. o \in BothOps /\ ix = Bind(o, UserRoles(w), LpAmount, {})
    BY DEF BothOps
  <2> HIDE DEF o, s, d, l
  <2> QED
    BY <2>1, BothBound DEF s, d, l
<1>2. LpAmount = 1
  BY DEF LpAmount
<1>3. s # d /\ l # s /\ l # d
      /\ \A v \in Wallets \ {w}, m \in {"A", "SOL", "LP"} :
            Ata(v, m) # s /\ Ata(v, m) # d /\ Ata(v, m) # l
  BY AtaEqual
<1>4. /\ \A v \in Wallets, m \in {"A", "SOL", "LP"} : Ata(v, m) \in TokenAccounts
      /\ s \in TokenAccounts /\ d \in TokenAccounts /\ l \in TokenAccounts
  BY DEF TokenAccounts
<1> HIDE DEF s, d, l
<1>5. Takes(ix, fee) = Of(l, LpAmount) /\ Gives(ix, fee) = OfBoth(s, 1, d, 1)
  <2>1. ix.op = "removeBalanceLiquidity"
    BY <1>1
  <2>2. /\ Takes(ix, fee) = Of(ix.acc.userPoolLp, ix.n)
        /\ Gives(ix, fee) = OfBoth(ix.acc.userAToken, 1, ix.acc.userBToken, 1)
    BY <2>1, Moves
  <2> QED
    BY <1>1, <2>2
<1>6. /\ Delta(Gives(ix, fee), s) = 1 /\ Delta(Gives(ix, fee), d) = 1
      /\ \A c : c # s /\ c # d => Delta(Gives(ix, fee), c) = 0
      /\ DOMAIN Gives(ix, fee) = {s, d} /\ Gives(ix, fee)[s] = 1 /\ Gives(ix, fee)[d] = 1
  BY <1>3, <1>5 DEF Delta, OfBoth
<1>7. /\ Delta(Takes(ix, fee), l) = 1 /\ \A c : c # l => Delta(Takes(ix, fee), c) = 0
      /\ DOMAIN Takes(ix, fee) = {l} /\ Takes(ix, fee)[l] = 1
  BY <1>2, <1>5 DEF Delta, Of
<1>8. Proper(ix, fee)
  BY <1>1, <1>2, <1>6, <1>7 DEF Proper
<1>9. \A c \in TokenAccounts :
          NetMove(ix, fee)[c] = Delta(Gives(ix, fee), c) - Delta(Takes(ix, fee), c)
  BY DEF NetMove
<1>10. /\ NetMove(ix, fee)[s] = 1 /\ NetMove(ix, fee)[d] = 1 /\ NetMove(ix, fee)[l] = -LpAmount
  BY <1>2, <1>3, <1>4, <1>6, <1>7, <1>9
<1>11. \A v \in Wallets \ {w}, m \in {"A", "SOL", "LP"} : NetMove(ix, fee)[Ata(v, m)] = 0
  BY <1>3, <1>4, <1>6, <1>7, <1>9
<1>12. \A v \in Wallets : Recorded(ix)[v] = 0
  BY <1>1 DEF Recorded
<1>13. OnlyMoves(ix, fee, w)
  BY <1>11, <1>12 DEF OnlyMoves
<1>14. \A m \in {"A", "SOL"} :
          NetMove(ix, fee)[Ata(w, m)] \in IF "both" \in {"both", m} THEN 1 .. 2 ELSE {0}
  BY <1>10 DEF s, d
<1> QED
  BY <1>1, <1>8, <1>10, <1>13, <1>14 DEF l, WithdrawMoves

\* What a withdrawal of one side moves.
LEMMA WithdrawOneNet ==
    ASSUME NEW w \in Wallets, NEW side \in {"A", "SOL"}, NEW fee,
           NEW ix, ix = Bind("removeLiquiditySingleSide",
                             [userDestinationToken |-> Ata(w, side),
                              userPoolLp |-> Ata(w, "LP"), user |-> w], LpAmount, {})
    PROVE  WithdrawMoves(ix, fee, w, side, "removeLiquiditySingleSide")
<1> DEFINE s == Ata(w, side)
           d == Ata(w, Other(side))
           l == Ata(w, "LP")
<1>1. /\ ix.op = "removeLiquiditySingleSide" /\ ix.n = LpAmount /\ ix.signers = {w}
      /\ ix.acc.userDestinationToken = s /\ ix.acc.userPoolLp = l
  BY SingleBound
<1>2. LpAmount = 1
  BY DEF LpAmount
<1>3. Other(side) \in {"A", "SOL"} /\ Other(side) # side
  BY DEF Other
<1>4. s # d /\ l # s /\ l # d
      /\ \A v \in Wallets \ {w}, m \in {"A", "SOL", "LP"} :
            Ata(v, m) # s /\ Ata(v, m) # d /\ Ata(v, m) # l
  BY <1>3, AtaEqual
<1>5. /\ \A v \in Wallets, m \in {"A", "SOL", "LP"} : Ata(v, m) \in TokenAccounts
      /\ s \in TokenAccounts /\ d \in TokenAccounts /\ l \in TokenAccounts
  BY <1>3 DEF TokenAccounts
<1> HIDE DEF s, d, l
<1>6. Takes(ix, fee) = Of(l, LpAmount) /\ Gives(ix, fee) = Of(s, 2)
  <2>1. ix.op = "removeLiquiditySingleSide"
    BY <1>1
  <2>2. /\ Takes(ix, fee) = Of(ix.acc.userPoolLp, ix.n)
        /\ Gives(ix, fee) = Of(ix.acc.userDestinationToken, 2)
    BY <2>1, Moves
  <2> QED
    BY <1>1, <2>2
<1>7. /\ Delta(Gives(ix, fee), s) = 2 /\ \A c : c # s => Delta(Gives(ix, fee), c) = 0
      /\ DOMAIN Gives(ix, fee) = {s} /\ Gives(ix, fee)[s] = 2
  BY <1>6 DEF Delta, Of
<1>8. /\ Delta(Takes(ix, fee), l) = 1 /\ \A c : c # l => Delta(Takes(ix, fee), c) = 0
      /\ DOMAIN Takes(ix, fee) = {l} /\ Takes(ix, fee)[l] = 1
  BY <1>2, <1>6 DEF Delta, Of
<1>9. Proper(ix, fee)
  BY <1>1, <1>2, <1>7, <1>8 DEF Proper
<1>10. \A c \in TokenAccounts :
          NetMove(ix, fee)[c] = Delta(Gives(ix, fee), c) - Delta(Takes(ix, fee), c)
  BY DEF NetMove
<1>11. /\ NetMove(ix, fee)[s] = 2 /\ NetMove(ix, fee)[d] = 0 /\ NetMove(ix, fee)[l] = -LpAmount
  BY <1>2, <1>4, <1>5, <1>7, <1>8, <1>10
<1>12. \A v \in Wallets \ {w}, m \in {"A", "SOL", "LP"} : NetMove(ix, fee)[Ata(v, m)] = 0
  BY <1>4, <1>5, <1>7, <1>8, <1>10
<1>13. \A v \in Wallets : Recorded(ix)[v] = 0
  BY <1>1 DEF Recorded
<1>14. OnlyMoves(ix, fee, w)
  BY <1>12, <1>13 DEF OnlyMoves
<1>15. \A m \in {"A", "SOL"} :
          NetMove(ix, fee)[Ata(w, m)] \in IF side \in {"both", m} THEN 1 .. 2 ELSE {0}
  <2>1. \A m \in {"A", "SOL"} : m = side \/ (m = Other(side) /\ side \notin {"both", m})
    BY <1>3
  <2> QED
    BY <1>11, <2>1 DEF s, d
<1> QED
  BY <1>1, <1>9, <1>11, <1>14, <1>15 DEF l, WithdrawMoves

\* What a lock by w for the escrow of u moves and records.
LEMMA LockNet ==
    ASSUME NEW w \in Wallets, NEW u \in Wallets, NEW fee,
           NEW ix, ix = Bind("lock", [lockEscrow |-> EscrowOf(u), owner |-> w,
                                      sourceTokens |-> Ata(w, "LP"),
                                      escrowVault |-> Ata(EscrowOf(u), "LP")], LpAmount, {})
    PROVE  LockMoves(ix, fee, w, u)
<1> DEFINE l == Ata(w, "LP")
           x == Ata(EscrowOf(u), "LP")
<1>1. /\ ix.op = "lock" /\ ix.n = LpAmount /\ ix.signers = {w}
      /\ ix.acc.lockEscrow = EscrowOf(u) /\ ix.acc.sourceTokens = l /\ ix.acc.escrowVault = x
  BY LockBound
<1>2. LpAmount = 1
  BY DEF LpAmount
<1>3. \A v \in Wallets : v # EscrowOf(u)
  BY UserAssumption
<1>4. /\ l # x
      /\ \A v \in Wallets, m \in {"A", "SOL", "LP"} :
            Ata(v, m) # x /\ (v # w \/ m # "LP" => Ata(v, m) # l)
  BY <1>3, AtaEqual
<1>5. /\ \A v \in Wallets, m \in {"A", "SOL", "LP"} : Ata(v, m) \in TokenAccounts
      /\ l \in TokenAccounts
  BY DEF TokenAccounts
<1> HIDE DEF l, x
<1>6. Takes(ix, fee) = Of(l, LpAmount) /\ Gives(ix, fee) = Of(x, LpAmount)
  <2>1. ix.op = "lock"
    BY <1>1
  <2>2. Takes(ix, fee) = Of(ix.acc.sourceTokens, ix.n)
        /\ Gives(ix, fee) = Of(ix.acc.escrowVault, ix.n)
    BY <2>1, Moves
  <2> QED
    BY <1>1, <2>2
<1>7. /\ Delta(Gives(ix, fee), x) = 1 /\ \A c : c # x => Delta(Gives(ix, fee), c) = 0
      /\ DOMAIN Gives(ix, fee) = {x} /\ Gives(ix, fee)[x] = 1
  BY <1>2, <1>6 DEF Delta, Of
<1>8. /\ Delta(Takes(ix, fee), l) = 1 /\ \A c : c # l => Delta(Takes(ix, fee), c) = 0
      /\ DOMAIN Takes(ix, fee) = {l} /\ Takes(ix, fee)[l] = 1
  BY <1>2, <1>6 DEF Delta, Of
<1>9. Proper(ix, fee)
  BY <1>1, <1>2, <1>7, <1>8 DEF Proper
<1>10. \A c \in TokenAccounts :
          NetMove(ix, fee)[c] = Delta(Gives(ix, fee), c) - Delta(Takes(ix, fee), c)
  BY DEF NetMove
<1>11. NetMove(ix, fee)[l] = -LpAmount
  BY <1>2, <1>4, <1>5, <1>7, <1>8, <1>10
<1>12. \A v \in Wallets, m \in {"A", "SOL", "LP"} :
          v # w \/ m # "LP" => NetMove(ix, fee)[Ata(v, m)] = 0
  BY <1>4, <1>5, <1>7, <1>8, <1>10
<1>13. Recorded(ix)[u] = LpAmount /\ \A v \in Wallets \ {u} : Recorded(ix)[v] = 0
  BY <1>1, EscrowsApart DEF Recorded
<1> QED
  BY <1>1, <1>7, <1>9, <1>11, <1>12, <1>13 DEF l, x, LockMoves

\* What a claim of the fees of w's escrow moves.
LEMMA ClaimNet ==
    ASSUME NEW w \in Wallets, NEW fee \in 0 .. LpAmount,
           NEW ix, ix = Bind("claimFee", [lockEscrow |-> EscrowOf(w), owner |-> w,
                                          sourceTokens |-> Ata(w, "LP"),
                                          escrowVault |-> Ata(EscrowOf(w), "LP"),
                                          userAToken |-> Ata(w, "A"),
                                          userBToken |-> Ata(w, "SOL")], LpAmount, {})
    PROVE  ClaimMoves(ix, fee, w)
<1> DEFINE s == Ata(w, "A")
           d == Ata(w, "SOL")
           x == Ata(EscrowOf(w), "LP")
<1>1. /\ ix.op = "claimFee" /\ ix.n = LpAmount /\ ix.signers = {w}
      /\ ix.acc.userAToken = s /\ ix.acc.userBToken = d /\ ix.acc.escrowVault = x
  BY ClaimBound
<1>2. LpAmount = 1 /\ fee \in Nat
  BY DEF LpAmount
<1>3. \A v \in Wallets : v # EscrowOf(w)
  BY UserAssumption
<1>4. /\ s # d /\ s # x /\ d # x /\ Ata(w, "LP") # s /\ Ata(w, "LP") # d /\ Ata(w, "LP") # x
      /\ \A v \in Wallets \ {w}, m \in {"A", "SOL", "LP"} :
            Ata(v, m) # s /\ Ata(v, m) # d /\ Ata(v, m) # x
  BY <1>3, AtaEqual
<1>5. /\ \A v \in Wallets, m \in {"A", "SOL", "LP"} : Ata(v, m) \in TokenAccounts
      /\ s \in TokenAccounts /\ d \in TokenAccounts /\ Ata(w, "LP") \in TokenAccounts
  BY DEF TokenAccounts
<1> HIDE DEF s, d, x
<1>6. Takes(ix, fee) = Of(x, fee) /\ Gives(ix, fee) = OfBoth(s, fee, d, fee)
  <2>1. ix.op = "claimFee"
    BY <1>1
  <2>2. Takes(ix, fee) = Of(ix.acc.escrowVault, fee)
        /\ Gives(ix, fee) = OfBoth(ix.acc.userAToken, fee, ix.acc.userBToken, fee)
    BY <2>1, Zenon DEF Takes, Gives
  <2> QED
    BY <1>1, <2>2
<1>7. /\ Delta(Gives(ix, fee), s) = fee /\ Delta(Gives(ix, fee), d) = fee
      /\ \A c : c # s /\ c # d => Delta(Gives(ix, fee), c) = 0
      /\ DOMAIN Gives(ix, fee) = {s, d} /\ Gives(ix, fee)[s] = fee /\ Gives(ix, fee)[d] = fee
  BY <1>4, <1>6 DEF Delta, OfBoth
<1>8. /\ \A c : c # x => Delta(Takes(ix, fee), c) = 0
      /\ DOMAIN Takes(ix, fee) = {x} /\ Takes(ix, fee)[x] = fee
  BY <1>6 DEF Delta, Of
<1>9. Proper(ix, fee)
  BY <1>1, <1>2, <1>7, <1>8 DEF Proper
<1>10. \A c \in TokenAccounts :
          NetMove(ix, fee)[c] = Delta(Gives(ix, fee), c) - Delta(Takes(ix, fee), c)
  BY DEF NetMove
<1>11. /\ NetMove(ix, fee)[s] = fee /\ NetMove(ix, fee)[d] = fee
       /\ NetMove(ix, fee)[Ata(w, "LP")] = 0
  BY <1>2, <1>4, <1>5, <1>7, <1>8, <1>10
<1>12. \A v \in Wallets \ {w}, m \in {"A", "SOL", "LP"} : NetMove(ix, fee)[Ata(v, m)] = 0
  BY <1>4, <1>5, <1>7, <1>8, <1>10
<1>13. \A v \in Wallets : Recorded(ix)[v] = 0
  BY <1>1 DEF Recorded
<1> QED
  BY <1>1, <1>9, <1>11, <1>12, <1>13 DEF s, d, OnlyMoves, ClaimMoves

Kinds == {"A", "SOL", "LP", "locked"}
Same == [k \in Kinds |-> <<0, 0>>]

\* What was asked of a swap.
LEMMA AskedSwap ==
    ASSUME NEW t, NEW v, t.call.op = "swap", NEW side \in {"A", "SOL"}, t.call.sides = side
    PROVE  /\ v = t.payer =>
                /\ Asked(t, v)[side] = <<-AmountIn, -AmountIn>>
                /\ Asked(t, v)[Other(side)] = <<AmountIn - HostFee, AmountIn - HostFee>>
                /\ Asked(t, v)["LP"] = <<0, 0>> /\ Asked(t, v)["locked"] = <<0, 0>>
           /\ v # t.payer /\ t.call.who = v =>
                /\ Asked(t, v)[side] = <<HostFee, HostFee>>
                /\ \A k \in Kinds \ {side} : Asked(t, v)[k] = <<0, 0>>
           /\ v # t.payer /\ t.call.who # v => \A k \in Kinds : Asked(t, v)[k] = <<0, 0>>
<1> DEFINE x == <<-AmountIn, -AmountIn>>
           y == <<AmountIn - HostFee, AmountIn - HostFee>>
           z == <<HostFee, HostFee>>
<1>1. Other(side) \in {"A", "SOL"} /\ Other(side) # side
  BY DEF Other
<1>2. v = t.payer => Asked(t, v) = [Same EXCEPT ![side] = x, ![Other(side)] = y]
  BY Zenon DEF Asked, Same, Kinds
<1>3. v # t.payer /\ t.call.who = v => Asked(t, v) = [Same EXCEPT ![side] = z]
  BY Zenon DEF Asked, Same, Kinds
<1>4. v # t.payer /\ t.call.who # v => Asked(t, v) = Same
  BY Zenon DEF Asked, Same, Kinds
<1> HIDE DEF x, y, z
<1>5. Same \in [Kinds -> {<<0, 0>>}] /\ side \in Kinds /\ Other(side) \in Kinds
      /\ side # "LP" /\ side # "locked" /\ Other(side) # "LP" /\ Other(side) # "locked"
      /\ "LP" \in Kinds /\ "locked" \in Kinds
  BY <1>1 DEF Same, Kinds
<1>6. v = t.payer => /\ Asked(t, v)[side] = x /\ Asked(t, v)[Other(side)] = y
                     /\ Asked(t, v)["LP"] = <<0, 0>> /\ Asked(t, v)["locked"] = <<0, 0>>
  BY <1>1, <1>2, <1>5
<1>7. v # t.payer /\ t.call.who = v =>
         /\ Asked(t, v)[side] = z /\ \A k \in Kinds \ {side} : Asked(t, v)[k] = <<0, 0>>
  BY <1>3, <1>5
<1>8. v # t.payer /\ t.call.who # v => \A k \in Kinds : Asked(t, v)[k] = <<0, 0>>
  BY <1>4, <1>5
<1> QED
  BY <1>6, <1>7, <1>8 DEF x, y, z

\* What was asked of a deposit.
LEMMA AskedDeposit ==
    ASSUME NEW t, NEW v, t.call.op = "deposit"
    PROVE  /\ v = t.payer =>
                /\ Asked(t, v)["A"] = <<-AskedIn(t.call, "A"), 0>>
                /\ Asked(t, v)["SOL"] = <<-AskedIn(t.call, "SOL"), 0>>
                /\ Asked(t, v)["LP"] = <<LpAmount, LpAmount>>
                /\ Asked(t, v)["locked"] = <<0, 0>>
           /\ v # t.payer => \A k \in Kinds : Asked(t, v)[k] = <<0, 0>>
<1> DEFINE x == <<-AskedIn(t.call, "A"), 0>>
           y == <<-AskedIn(t.call, "SOL"), 0>>
           z == <<LpAmount, LpAmount>>
<1>1. v = t.payer => Asked(t, v) = [Same EXCEPT !["A"] = x, !["SOL"] = y, !["LP"] = z]
  BY Zenon DEF Asked, Same, Kinds
<1>2. v # t.payer => Asked(t, v) = Same
  BY Zenon DEF Asked, Same, Kinds
<1> HIDE DEF x, y, z
<1>3. Same \in [Kinds -> {<<0, 0>>}] /\ Kinds = {"A", "SOL", "LP", "locked"}
  BY DEF Same, Kinds
<1>4. v = t.payer => /\ Asked(t, v)["A"] = x /\ Asked(t, v)["SOL"] = y
                     /\ Asked(t, v)["LP"] = z /\ Asked(t, v)["locked"] = <<0, 0>>
  BY <1>1, <1>3
<1>5. v # t.payer => \A k \in Kinds : Asked(t, v)[k] = <<0, 0>>
  BY <1>2, <1>3
<1> QED
  BY <1>4, <1>5 DEF x, y, z

\* What was asked of a withdrawal.
LEMMA AskedWithdraw ==
    ASSUME NEW t, NEW v, t.call.op = "withdraw"
    PROVE  /\ v = t.payer =>
                /\ Asked(t, v)["A"] = IF t.call.sides \in {"both", "A"} THEN <<1, 2>> ELSE <<0, 0>>
                /\ Asked(t, v)["SOL"] = IF t.call.sides \in {"both", "SOL"} THEN <<1, 2>>
                                        ELSE <<0, 0>>
                /\ Asked(t, v)["LP"] = <<-LpAmount, -LpAmount>>
                /\ Asked(t, v)["locked"] = <<0, 0>>
           /\ v # t.payer => \A k \in Kinds : Asked(t, v)[k] = <<0, 0>>
<1> DEFINE x == IF t.call.sides \in {"both", "A"} THEN <<1, 2>> ELSE <<0, 0>>
           y == IF t.call.sides \in {"both", "SOL"} THEN <<1, 2>> ELSE <<0, 0>>
           z == <<-LpAmount, -LpAmount>>
<1>1. v = t.payer => Asked(t, v) = [Same EXCEPT !["A"] = x, !["SOL"] = y, !["LP"] = z]
  BY Zenon DEF Asked, Same, Kinds
<1>2. v # t.payer => Asked(t, v) = Same
  BY Zenon DEF Asked, Same, Kinds
<1> HIDE DEF x, y, z
<1>3. Same \in [Kinds -> {<<0, 0>>}] /\ Kinds = {"A", "SOL", "LP", "locked"}
  BY DEF Same, Kinds
<1>4. v = t.payer => /\ Asked(t, v)["A"] = x /\ Asked(t, v)["SOL"] = y
                     /\ Asked(t, v)["LP"] = z /\ Asked(t, v)["locked"] = <<0, 0>>
  BY <1>1, <1>3
<1>5. v # t.payer => \A k \in Kinds : Asked(t, v)[k] = <<0, 0>>
  BY <1>2, <1>3
<1> QED
  BY <1>4, <1>5 DEF x, y, z

\* What was asked of a lock.
LEMMA AskedLock ==
    ASSUME NEW t, NEW v, t.call.op = "lockLiquidity"
    PROVE  /\ Asked(t, v)["A"] = <<0, 0>> /\ Asked(t, v)["SOL"] = <<0, 0>>
           /\ v = t.payer => Asked(t, v)["LP"] = <<-LpAmount, -LpAmount>>
           /\ v # t.payer => Asked(t, v)["LP"] = <<0, 0>>
           /\ v = t.call.who => Asked(t, v)["locked"] = <<LpAmount, LpAmount>>
           /\ v # t.call.who => Asked(t, v)["locked"] = <<0, 0>>
<1> DEFINE x == IF v = t.payer THEN <<-LpAmount, -LpAmount>> ELSE <<0, 0>>
           y == IF t.call.who = v THEN <<LpAmount, LpAmount>> ELSE <<0, 0>>
<1>1. Asked(t, v) = [Same EXCEPT !["LP"] = x, !["locked"] = y]
  BY Zenon DEF Asked, Same, Kinds
<1>2. /\ v = t.payer => x = <<-LpAmount, -LpAmount>>
      /\ v # t.payer => x = <<0, 0>>
      /\ v = t.call.who => y = <<LpAmount, LpAmount>>
      /\ v # t.call.who => y = <<0, 0>>
  OBVIOUS
<1> HIDE DEF x, y
<1>3. Same \in [Kinds -> {<<0, 0>>}] /\ Kinds = {"A", "SOL", "LP", "locked"}
  BY DEF Same, Kinds
<1>4. /\ Asked(t, v)["A"] = <<0, 0>> /\ Asked(t, v)["SOL"] = <<0, 0>>
      /\ Asked(t, v)["LP"] = x /\ Asked(t, v)["locked"] = y
  BY <1>1, <1>3
<1> QED
  BY <1>2, <1>4

\* What was asked of a claim.
LEMMA AskedClaim ==
    ASSUME NEW t, NEW v, t.call.op = "claimLockFee"
    PROVE  /\ v = t.payer => /\ Asked(t, v)["A"] = <<0, LpAmount>>
                             /\ Asked(t, v)["SOL"] = <<0, LpAmount>>
                             /\ Asked(t, v)["LP"] = <<0, 0>> /\ Asked(t, v)["locked"] = <<0, 0>>
           /\ v # t.payer => \A k \in Kinds : Asked(t, v)[k] = <<0, 0>>
<1> DEFINE x == <<0, LpAmount>>
<1>1. v = t.payer => Asked(t, v) = [Same EXCEPT !["A"] = x, !["SOL"] = x]
  BY Zenon DEF Asked, Same, Kinds
<1>2. v # t.payer => Asked(t, v) = Same
  BY Zenon DEF Asked, Same, Kinds
<1> HIDE DEF x
<1>3. Same \in [Kinds -> {<<0, 0>>}] /\ Kinds = {"A", "SOL", "LP", "locked"}
  BY DEF Same, Kinds
<1>4. v = t.payer => /\ Asked(t, v)["A"] = x /\ Asked(t, v)["SOL"] = x
                     /\ Asked(t, v)["LP"] = <<0, 0>> /\ Asked(t, v)["locked"] = <<0, 0>>
  BY <1>1, <1>3
<1>5. v # t.payer => \A k \in Kinds : Asked(t, v)[k] = <<0, 0>>
  BY <1>2, <1>3
<1> QED
  BY <1>4, <1>5 DEF x

\* Nothing was asked of a config.
LEMMA AskedConfig ==
    ASSUME NEW t, NEW v, t.call.op = "createConfig"
    PROVE  \A k \in Kinds : Asked(t, v)[k] = <<0, 0>>
<1>1. Asked(t, v) = Same
  BY Zenon DEF Asked, Same, Kinds
<1> QED
  BY <1>1 DEF Same

(***************************************************************************)
(* What a transaction that lands makes of a ledger.                        *)
(***************************************************************************)

\* The vault of an escrow is created with it.
VaultsOpen(L) == \A v \in Wallets : EscrowOf(v) \in L.open => Ata(EscrowOf(v), "LP") \in L.open

\* The wrapped SOL that a swap brings v as its referrer.
HostShare(t, v) ==
    IF t.call.op = "swap" /\ t.call.who = v /\ t.call.sides = "SOL" THEN HostFee ELSE 0

Outcome(L, M, t) ==
    /\ Sound(M) /\ VaultsOpen(M)
    /\ \A v \in Wallets, k \in Kinds :
          Holdings(M, v)[k] - Holdings(L, v)[k] \in Asked(t, v)[k][1] .. Asked(t, v)[k][2]
    /\ \A v \in Wallets :
          M.holds[Ata(v, "SOL")] <= L.holds[Ata(v, "SOL")] + HostShare(t, v)

\* Moves by d and e are what was asked.
Fits(t, d, e) ==
    \A v \in Wallets :
        /\ \A m \in {"A", "SOL", "LP"} : d[Ata(v, m)] \in Asked(t, v)[m][1] .. Asked(t, v)[m][2]
        /\ e[v] \in Asked(t, v)["locked"][1] .. Asked(t, v)["locked"][2]
        /\ v # t.payer => d[Ata(v, "SOL")] <= HostShare(t, v)

\* What is left to show of a transaction: that its moves are what was asked, that it leaves no
\* more wrapped SOL with the payer, and that it leaves a vault to each escrow it opens.
LEMMA OutcomeFrom ==
    ASSUME NEW L, NEW M, NEW t, Sound(L), Sound(M), VaultsOpen(L), t.payer \in Wallets,
           NEW d \in [TokenAccounts -> Int], NEW e \in [Wallets -> Int], NEW E,
           Moved(L, M, t.payer, E, d, e), Fits(t, d, e),
           \A v \in E : Ata(EscrowOf(v), "LP") \in M.open,
           M.holds[Ata(t.payer, "SOL")] <= L.holds[Ata(t.payer, "SOL")]
    PROVE  Outcome(L, M, t)
<1>1. VaultsOpen(M)
  BY DEF VaultsOpen, Moved
<1>2. ASSUME NEW v \in Wallets
      PROVE  /\ \A k \in Kinds :
                   Holdings(M, v)[k] - Holdings(L, v)[k] \in Asked(t, v)[k][1] .. Asked(t, v)[k][2]
             /\ v # t.payer => M.holds[Ata(v, "SOL")] <= L.holds[Ata(v, "SOL")] + HostShare(t, v)
  <2> DEFINE a == Ata(v, "A")
             s == Ata(v, "SOL")
             l == Ata(v, "LP")
             h == HostShare(t, v)
  <2>1. /\ M.holds[a] = L.holds[a] + d[a] /\ M.holds[l] = L.holds[l] + d[l]
        /\ M.holds[s] + M.lamports[v] = L.holds[s] + L.lamports[v] + d[s]
        /\ v # t.payer => M.holds[s] = L.holds[s] + d[s]
        /\ M.locked[v] = L.locked[v] + e[v]
    BY DEF Moved
  <2>2. /\ d[a] \in Asked(t, v)["A"][1] .. Asked(t, v)["A"][2]
        /\ d[s] \in Asked(t, v)["SOL"][1] .. Asked(t, v)["SOL"][2]
        /\ d[l] \in Asked(t, v)["LP"][1] .. Asked(t, v)["LP"][2]
        /\ e[v] \in Asked(t, v)["locked"][1] .. Asked(t, v)["locked"][2]
        /\ v # t.payer => d[s] <= h
    BY DEF Fits
  <2>3. a \in TokenAccounts /\ s \in TokenAccounts /\ l \in TokenAccounts
    BY TokenAtas
  <2>4. /\ L.holds[a] \in Nat /\ L.holds[s] \in Nat /\ L.holds[l] \in Nat /\ L.lamports[v] \in Nat
        /\ M.holds[a] \in Nat /\ M.holds[s] \in Nat /\ M.holds[l] \in Nat /\ M.lamports[v] \in Nat
        /\ L.locked[v] \in Nat /\ M.locked[v] \in Nat
    BY Amounts
  <2>5. \A K : /\ Holdings(K, v)["A"] = K.holds[a]
               /\ Holdings(K, v)["SOL"] = K.holds[s] + K.lamports[v]
               /\ Holdings(K, v)["LP"] = K.holds[l] /\ Holdings(K, v)["locked"] = K.locked[v]
    BY DEF Holdings
  <2>6. h \in Int
    BY DEF HostShare, HostFee
  <2> HIDE DEF a, s, l, h
  <2>7. d[a] \in Int /\ d[s] \in Int /\ d[l] \in Int /\ e[v] \in Int
    BY <2>3
  <2>8. /\ Holdings(M, v)["A"] - Holdings(L, v)["A"] = d[a]
        /\ Holdings(M, v)["SOL"] - Holdings(L, v)["SOL"] = d[s]
        /\ Holdings(M, v)["LP"] - Holdings(L, v)["LP"] = d[l]
        /\ Holdings(M, v)["locked"] - Holdings(L, v)["locked"] = e[v]
    <3>1. /\ Holdings(M, v)["A"] = M.holds[a] /\ Holdings(L, v)["A"] = L.holds[a]
          /\ Holdings(M, v)["SOL"] = M.holds[s] + M.lamports[v]
          /\ Holdings(L, v)["SOL"] = L.holds[s] + L.lamports[v]
          /\ Holdings(M, v)["LP"] = M.holds[l] /\ Holdings(L, v)["LP"] = L.holds[l]
          /\ Holdings(M, v)["locked"] = M.locked[v] /\ Holdings(L, v)["locked"] = L.locked[v]
      BY <2>5
    <3>2. /\ M.holds[a] - L.holds[a] = d[a] /\ M.holds[l] - L.holds[l] = d[l]
          /\ M.locked[v] - L.locked[v] = e[v]
      BY <2>1, <2>4, <2>7
    <3>3. (M.holds[s] + M.lamports[v]) - (L.holds[s] + L.lamports[v]) = d[s]
      BY <2>1, <2>4, <2>7
    <3> QED
      BY <3>1, <3>2, <3>3
  <2>9. \A k \in Kinds :
           Holdings(M, v)[k] - Holdings(L, v)[k] \in Asked(t, v)[k][1] .. Asked(t, v)[k][2]
    BY <2>2, <2>8 DEF Kinds
  <2>10. v # t.payer => M.holds[s] <= L.holds[s] + h
    BY <2>1, <2>2, <2>4, <2>6, <2>7
  <2> QED
    BY <2>9, <2>10 DEF s, h
<1>3. \A v \in Wallets : M.holds[Ata(v, "SOL")] <= L.holds[Ata(v, "SOL")] + HostShare(t, v)
  <2> SUFFICES ASSUME NEW v \in Wallets
               PROVE  M.holds[Ata(v, "SOL")] <= L.holds[Ata(v, "SOL")] + HostShare(t, v)
    OBVIOUS
  <2>1. HostShare(t, v) \in Nat
    BY DEF HostShare, HostFee
  <2>2. L.holds[Ata(v, "SOL")] \in Nat /\ M.holds[Ata(v, "SOL")] \in Nat
    BY Amounts
  <2>3. CASE v = t.payer
    BY <2>1, <2>2, <2>3
  <2>4. CASE v # t.payer
    BY <1>2, <2>4
  <2> QED
    BY <2>3, <2>4
<1> QED
  BY <1>1, <1>2, <1>3 DEF Outcome

(***************************************************************************)
(* What the builders return.                                               *)
(***************************************************************************)

LockIx(w, u) ==
    Bind("lock", [lockEscrow |-> EscrowOf(u), owner |-> w, sourceTokens |-> Ata(w, "LP"),
                  escrowVault |-> Ata(EscrowOf(u), "LP")], LpAmount, {})
ClaimIx(w) ==
    Bind("claimFee", [lockEscrow |-> EscrowOf(w), owner |-> w, sourceTokens |-> Ata(w, "LP"),
                      escrowVault |-> Ata(EscrowOf(w), "LP"), userAToken |-> Ata(w, "A"),
                      userBToken |-> Ata(w, "SOL")], LpAmount, {})
DepositIx(w, c, op) ==
    Bind(op, UserRoles(w), [A |-> AskedIn(c, "A"), SOL |-> AskedIn(c, "SOL")], {})
WithdrawBothIx(w) == Bind("removeBalanceLiquidity", UserRoles(w), LpAmount, {})
WithdrawOneIx(w, side) ==
    Bind("removeLiquiditySingleSide",
         [userDestinationToken |-> Ata(w, side), userPoolLp |-> Ata(w, "LP"), user |-> w],
         LpAmount, {})
ConfigIx(w, i) == Bind("createConfig", [config |-> ConfigAt(i), admin |-> w], 0, {})
DepositOps == {"bootstrapLiquidity", "addImbalanceLiquidity", "addBalanceLiquidity"}

\* The instructions of a transaction: a setup, one instruction of the program, and but for
\* swaps of SOL, locks and configs the closing of the payer's account for wrapped SOL.
Shaped(t) ==
    LET w == t.payer
        c == t.call
    IN  /\ w \in Wallets /\ c \in Calls
        /\ c.op = "swap" => c.who # w
        /\ c.op = "swap" /\ c.sides = "A" =>
              \E pre \in Seq(Creates(w)) :
                 t.ixs = (pre \o <<SwapIx(w, "A", c.who)>>) \o UnwrapSol(w)
        /\ c.op = "swap" /\ c.sides = "SOL" =>
              \E p, q \in Seq(Creates(w)) :
                 t.ixs = ((p \o WrapSol(w, AmountIn)) \o q) \o <<SwapIx(w, "SOL", c.who)>>
        /\ c.op = "deposit" =>
              \E pre \in Seq(Setup(w, Nat, {})), op \in DepositOps :
                 /\ op = "addBalanceLiquidity" => c.sides = "both"
                 /\ t.ixs = (pre \o <<DepositIx(w, c, op)>>) \o UnwrapSol(w)
        /\ c.op = "withdraw" /\ c.sides = "both" =>
              \E pre \in Seq(Creates(w)) :
                 t.ixs = (pre \o <<WithdrawBothIx(w)>>) \o UnwrapSol(w)
        /\ c.op = "withdraw" /\ c.sides # "both" =>
              \E pre \in Seq(Creates(w)) :
                 t.ixs = (pre \o <<WithdrawOneIx(w, c.sides)>>) \o UnwrapSol(w)
        /\ c.op = "lockLiquidity" =>
              \E pre \in Seq(Setup(w, {}, {c.who})) : t.ixs = pre \o <<LockIx(w, c.who)>>
        /\ c.op = "claimLockFee" =>
              \E pre \in Seq(Creates(w)) : t.ixs = (pre \o <<ClaimIx(w)>>) \o UnwrapSol(w)
        /\ c.op = "createConfig" => \E i : t.ixs = <<ConfigIx(w, i)>>

\* Nothing but the payer's account for missing accounts is created.
LEMMA MissingCreates ==
    ASSUME NEW w, NEW seen, NEW a \in TokenAccounts
    PROVE  IfMissing(seen, w, a) \in Seq(Creates(w))
<1>1. CreateAta(w, a) \in Creates(w)
  BY DEF Creates
<1> QED
  BY <1>1 DEF IfMissing

\* The accounts created for a call that needs all three of the wallet's.
LEMMA MissingThree ==
    ASSUME NEW w \in Wallets, NEW seen
    PROVE  CreateMissing(seen, w) \in Seq(Creates(w))
<1>1. /\ IfMissing(seen, w, Ata(w, "A")) \in Seq(Creates(w))
      /\ IfMissing(seen, w, Ata(w, "SOL")) \in Seq(Creates(w))
      /\ IfMissing(seen, w, Ata(w, "LP")) \in Seq(Creates(w))
  BY TokenAtas, MissingCreates
<1>2. IfMissing(seen, w, Ata(w, "A")) \o IfMissing(seen, w, Ata(w, "SOL")) \in Seq(Creates(w))
  BY <1>1, ConcatProperties
<1> QED
  BY <1>1, <1>2, ConcatProperties DEF CreateMissing

\* What the quotes and the first round of reads secure when a call is made.
Fair(w, c, seen) ==
    /\ w \in Wallets /\ c \in Calls
    /\ c.op = "swap" => c.who # w
    /\ c.op \in {"deposit", "withdraw"} /\ c.sides # "both" => stable
    /\ c.op = "claimLockFee" => Ata(EscrowOf(w), "LP") \in seen

\* A builder returns such transactions.
LEMMA BuiltShaped ==
    ASSUME NEW w, NEW c, NEW seen, NEW empty, Fair(w, c, seen),
           NEW t, t.payer = w, t.call = c, t.ixs = Built(w, c, seen, empty)
    PROVE  Shaped(t)
<1>1. /\ w \in Wallets /\ c \in Calls /\ (c.op = "swap" => c.who # w)
  BY DEF Fair
<1>2. c.op \in Ops /\ c.sides \in SidesOf(c.op) /\ c.who \in PartnersOf(c.op)
  BY <1>1, UserAssumption
<1>3. ASSUME c.op = "swap", c.sides = "A"
      PROVE  \E pre \in Seq(Creates(w)) :
                t.ixs = (pre \o <<SwapIx(w, "A", c.who)>>) \o UnwrapSol(w)
  <2> DEFINE i1 == IfMissing(seen, w, Ata(w, c.sides))
             i2 == IfMissing(seen, w, Ata(w, Other(c.sides)))
             i3 == IF c.who = NoCall THEN <<>> ELSE IfMissing(seen, w, Ata(c.who, c.sides))
             x == SwapIx(w, "A", c.who)
  <2>1. Built(w, c, seen, empty) = SwapTx(w, c, seen)
    BY <1>3, Zenon DEF Built
  <2>2. SwapTx(w, c, seen) = ((((i1 \o i2) \o <<>>) \o i3) \o <<x>>) \o UnwrapSol(w)
    BY <1>3 DEF SwapTx, SwapIx
  <2>3. i1 \in Seq(Creates(w)) /\ i2 \in Seq(Creates(w))
    BY <1>1, <1>3, TokenAtas, MissingCreates DEF Other
  <2>4. i3 \in Seq(Creates(w))
    <3>1. CASE c.who = NoCall
      BY <3>1
    <3>2. CASE c.who # NoCall
      <4>1. c.who \in Wallets
        BY <1>2, <1>3, <3>2, Zenon DEF PartnersOf
      <4> QED
        BY <1>3, <3>2, <4>1, TokenAtas, MissingCreates
    <3> QED
      BY <3>1, <3>2
  <2> HIDE DEF i1, i2, i3, x
  <2>5. ((i1 \o i2) \o <<>>) \o i3 \in Seq(Creates(w))
    <3>1. i1 \o i2 \in Seq(Creates(w)) /\ <<>> \in Seq(Creates(w))
      BY <2>3, ConcatProperties
    <3>2. (i1 \o i2) \o <<>> \in Seq(Creates(w))
      BY <3>1, ConcatProperties
    <3> QED
      BY <2>4, <3>2, ConcatProperties
  <2> QED
    BY <2>1, <2>2, <2>5 DEF x
<1>4. ASSUME c.op = "swap", c.sides = "SOL"
      PROVE  \E p, q \in Seq(Creates(w)) :
                t.ixs = ((p \o WrapSol(w, AmountIn)) \o q) \o <<SwapIx(w, "SOL", c.who)>>
  <2> DEFINE i1 == IfMissing(seen, w, Ata(w, c.sides))
             i2 == IfMissing(seen, w, Ata(w, Other(c.sides)))
             i3 == IF c.who = NoCall THEN <<>> ELSE IfMissing(seen, w, Ata(c.who, c.sides))
             x == SwapIx(w, "SOL", c.who)
             y == WrapIx(w, AmountIn)
             S == Creates(w) \cup {x, y}
  <2>1. Built(w, c, seen, empty) = SwapTx(w, c, seen)
    BY <1>4, Zenon DEF Built
  <2>2. SwapTx(w, c, seen)
           = ((((i1 \o i2) \o WrapSol(w, AmountIn)) \o i3) \o <<x>>) \o <<>>
    BY <1>4 DEF SwapTx, SwapIx
  <2>3. WrapSol(w, AmountIn) = <<y>>
    BY DEF WrapSol, WrapIx
  <2>4. i1 \in Seq(Creates(w)) /\ i2 \in Seq(Creates(w))
    BY <1>1, <1>4, TokenAtas, MissingCreates DEF Other
  <2>5. i3 \in Seq(Creates(w))
    <3>1. CASE c.who = NoCall
      BY <3>1
    <3>2. CASE c.who # NoCall
      <4>1. c.who \in Wallets
        BY <1>2, <1>4, <3>2, Zenon DEF PartnersOf
      <4> QED
        BY <1>4, <3>2, <4>1, TokenAtas, MissingCreates
    <3> QED
      BY <3>1, <3>2
  <2> HIDE DEF i1, i2, i3
  <2>6. i1 \o i2 \in Seq(Creates(w))
    BY <2>4, ConcatProperties
  <2>7. i1 \o i2 \in Seq(S) /\ i3 \in Seq(S) /\ <<x>> \in Seq(S) /\ <<y>> \in Seq(S)
    BY <2>5, <2>6, SeqWider
  <2> HIDE DEF S, x, y
  <2>8. (i1 \o i2) \o <<y>> \in Seq(S)
    BY <2>7, ConcatProperties
  <2>9. ((i1 \o i2) \o <<y>>) \o i3 \in Seq(S)
    BY <2>7, <2>8, ConcatProperties
  <2>10. (((i1 \o i2) \o <<y>>) \o i3) \o <<x>> \in Seq(S)
    BY <2>7, <2>9, ConcatProperties
  <2>11. t.ixs = (((i1 \o i2) \o <<y>>) \o i3) \o <<x>>
    BY <2>1, <2>2, <2>3, <2>10, ConcatEmptySeq
  <2> QED
    BY <2>3, <2>5, <2>6, <2>11 DEF x
<1>5. ASSUME c.op = "deposit"
      PROVE  \E pre \in Seq(Setup(w, Nat, {})), op \in DepositOps :
                /\ op = "addBalanceLiquidity" => c.sides = "both"
                /\ t.ixs = (pre \o <<DepositIx(w, c, op)>>) \o UnwrapSol(w)
  <2> DEFINE i1 == CreateMissing(seen, w)
             y == WrapIx(w, AskedIn(c, "SOL"))
             op == DepositMethod(empty)
             x == DepositIx(w, c, op)
             S == Setup(w, Nat, {})
  <2>1. Built(w, c, seen, empty) = DepositTx(w, c, seen, empty)
    BY <1>5, Zenon DEF Built
  <2>2. DepositTx(w, c, seen, empty)
           = ((i1 \o WrapSol(w, AskedIn(c, "SOL"))) \o <<x>>) \o UnwrapSol(w)
    BY DEF DepositTx, DepositIx, DepositPost
  <2>3. WrapSol(w, AskedIn(c, "SOL")) = <<y>>
    BY DEF WrapSol, WrapIx
  <2>4. op \in DepositOps /\ (op = "addBalanceLiquidity" => c.sides = "both")
    <3>1. CASE empty
      <4>1. op = "bootstrapLiquidity"
        BY <3>1, Zenon DEF DepositMethod
      <4> QED
        BY <4>1 DEF DepositOps
    <3>2. CASE ~empty /\ stable
      <4>1. op = "addImbalanceLiquidity"
        BY <3>2, Zenon DEF DepositMethod
      <4> QED
        BY <4>1 DEF DepositOps
    <3>3. CASE ~empty /\ ~stable
      <4>1. op = "addBalanceLiquidity"
        BY <3>3, Zenon DEF DepositMethod
      <4>2. c.sides = "both"
        BY <1>5, <3>3 DEF Fair
      <4> QED
        BY <4>1, <4>2 DEF DepositOps
    <3> QED
      BY <3>1, <3>2, <3>3
  <2>5. i1 \in Seq(Creates(w)) /\ Creates(w) \subseteq S
    BY <1>1, MissingThree DEF Setup
  <2>6. AskedIn(c, "SOL") \in Nat
    BY DEF AskedIn, AmountIn
  <2>7. y \in Wraps(w, Nat)
    BY <2>6 DEF Wraps
  <2>8. y \in S
    BY <2>7 DEF Setup
  <2> HIDE DEF i1, x, y, op, S
  <2>9. i1 \in Seq(S) /\ <<y>> \in Seq(S)
    BY <2>5, <2>8, SeqWider
  <2>10. i1 \o <<y>> \in Seq(S)
    BY <2>9, ConcatProperties
  <2>11. t.ixs = ((i1 \o <<y>>) \o <<x>>) \o UnwrapSol(w)
    BY <2>1, <2>2, <2>3
  <2> QED
    BY <2>4, <2>10, <2>11 DEF x, S
<1>6. ASSUME c.op = "withdraw"
      PROVE  /\ c.sides = "both" =>
                  \E pre \in Seq(Creates(w)) :
                     t.ixs = (pre \o <<WithdrawBothIx(w)>>) \o UnwrapSol(w)
             /\ c.sides # "both" =>
                  \E pre \in Seq(Creates(w)) :
                     t.ixs = (pre \o <<WithdrawOneIx(w, c.sides)>>) \o UnwrapSol(w)
  <2>1. Built(w, c, seen, empty) = WithdrawTx(w, c, seen)
    BY <1>6, Zenon DEF Built
  <2>2. CreateMissing(seen, w) \in Seq(Creates(w))
    BY <1>1, MissingThree
  <2>3. ASSUME c.sides = "both"
        PROVE  t.ixs = (CreateMissing(seen, w) \o <<WithdrawBothIx(w)>>) \o UnwrapSol(w)
    BY <2>1, <2>3 DEF WithdrawTx, WithdrawBothIx
  <2>4. ASSUME c.sides # "both"
        PROVE  t.ixs = (CreateMissing(seen, w) \o <<WithdrawOneIx(w, c.sides)>>) \o UnwrapSol(w)
    <3>1. stable
      BY <1>6, <2>4 DEF Fair
    <3> QED
      BY <2>1, <2>4, <3>1 DEF WithdrawTx, WithdrawOneIx, SingleSideDestination
  <2> QED
    BY <2>2, <2>3, <2>4
<1>7. ASSUME c.op = "lockLiquidity"
      PROVE  \E pre \in Seq(Setup(w, {}, {c.who})) : t.ixs = pre \o <<LockIx(w, c.who)>>
  <2> DEFINE i1 == IF EscrowOf(c.who) \in seen THEN <<>> ELSE <<NewEscrow(w, c.who)>>
             i2 == IfMissing(seen, w, Ata(w, "LP"))
             i3 == IfMissing(seen, w, Ata(EscrowOf(c.who), "LP"))
             S == Setup(w, {}, {c.who})
  <2>1. Built(w, c, seen, empty) = LockLiquidityTx(w, c, seen)
    BY <1>7, Zenon DEF Built
  <2>2. LockLiquidityTx(w, c, seen) = ((i1 \o i2) \o i3) \o <<LockIx(w, c.who)>>
    BY DEF LockLiquidityTx, LockIx, NewEscrow, TokensOwner
  <2>3. c.who \in Wallets
    BY <1>2, <1>7, Zenon DEF PartnersOf
  <2>4. i2 \in Seq(Creates(w)) /\ i3 \in Seq(Creates(w)) /\ Creates(w) \subseteq S
    BY <1>1, <2>3, TokenAtas, MissingCreates DEF Setup
  <2>5. i1 \in Seq(S)
    <3>1. NewEscrow(w, c.who) \in S
      BY DEF Setup
    <3> HIDE DEF S
    <3> QED
      BY <3>1
  <2> HIDE DEF i1, i2, i3, S
  <2>6. i2 \in Seq(S) /\ i3 \in Seq(S)
    BY <2>4, SeqWider
  <2>7. i1 \o i2 \in Seq(S)
    BY <2>5, <2>6, ConcatProperties
  <2>8. (i1 \o i2) \o i3 \in Seq(S)
    BY <2>6, <2>7, ConcatProperties
  <2> QED
    BY <2>1, <2>2, <2>8 DEF S
<1>8. ASSUME c.op = "claimLockFee"
      PROVE  \E pre \in Seq(Creates(w)) : t.ixs = (pre \o <<ClaimIx(w)>>) \o UnwrapSol(w)
  <2> DEFINE i1 == IfMissing(seen, w, Ata(w, "LP"))
             i2 == IfMissing(seen, EscrowOf(w), Ata(EscrowOf(w), "LP"))
             i3 == IfMissing(seen, w, Ata(w, "A"))
             i4 == IfMissing(seen, w, Ata(w, "SOL"))
  <2>1. Built(w, c, seen, empty) = ClaimLockFeeTx(w, seen)
    BY <1>8, Zenon DEF Built
  <2>2. ClaimLockFeeTx(w, seen) = ((((i1 \o i2) \o i3) \o i4) \o <<ClaimIx(w)>>) \o UnwrapSol(w)
    BY DEF ClaimLockFeeTx, ClaimIx
  <2>3. i2 = <<>>
    BY <1>8 DEF Fair, IfMissing
  <2>4. i1 \in Seq(Creates(w)) /\ i3 \in Seq(Creates(w)) /\ i4 \in Seq(Creates(w))
    BY <1>1, TokenAtas, MissingCreates
  <2> HIDE DEF i1, i2, i3, i4
  <2>5. i2 \in Seq(Creates(w))
    <3>1. <<>> \in Seq(Creates(w))
      OBVIOUS
    <3> QED
      BY <2>3, <3>1
  <2>6. i1 \o i2 \in Seq(Creates(w))
    BY <2>4, <2>5, ConcatProperties
  <2>7. (i1 \o i2) \o i3 \in Seq(Creates(w))
    BY <2>4, <2>6, ConcatProperties
  <2>8. ((i1 \o i2) \o i3) \o i4 \in Seq(Creates(w))
    BY <2>4, <2>7, ConcatProperties
  <2> QED
    BY <2>1, <2>2, <2>8
<1>9. ASSUME c.op = "createConfig"
      PROVE  \E i : t.ixs = <<ConfigIx(w, i)>>
  <2>1. Built(w, c, seen, empty) = CreateConfigTx(w, seen)
    BY <1>9, Zenon DEF Built
  <2> QED
    BY <2>1 DEF CreateConfigTx, ConfigIx
<1> QED
  BY <1>1, <1>3, <1>4, <1>5, <1>6, <1>7, <1>8, <1>9, Zenon DEF Shaped

\* A setup that creates accounts only is one without wrapping and without escrows.
LEMMA CreatesSetUp ==
    ASSUME NEW w \in Wallets, NEW W \in SUBSET Nat, NEW E \in SUBSET Wallets,
           NEW pre \in Seq(Creates(w))
    PROVE  pre \in Seq(Setup(w, W, E))
<1>1. Creates(w) \subseteq Setup(w, W, E)
  BY DEF Setup
<1> QED
  BY <1>1, SeqWider

\* A transaction that ends by closing the payer's account for wrapped SOL, and opens no
\* escrow: what its instruction moves is all there is to it.
LEMMA ClosingOutcome ==
    ASSUME NEW L, NEW M, NEW t, NEW fee, Sound(L), VaultsOpen(L), t.payer \in Wallets,
           NEW W \in SUBSET Nat, NEW pre \in Seq(Setup(t.payer, W, {})),
           NEW ix, ix.op \notin NoMoveOps, Proper(ix, fee),
           Fits(t, NetMove(ix, fee), Recorded(ix)),
           Runs(L, (pre \o <<ix>>) \o UnwrapSol(t.payer), fee, M)
    PROVE  Outcome(L, M, t)
<1> DEFINE w == t.payer
           E == {}
           d == NetMove(ix, fee)
           e == Recorded(ix)
<1>1. w \in Wallets /\ E \in SUBSET Wallets /\ pre \in Seq(Setup(w, W, E))
      /\ Runs(L, (pre \o <<ix>>) \o UnwrapSol(w), fee, M) /\ \A v \in E : FALSE
  OBVIOUS
<1>2. d \in [TokenAccounts -> Int] /\ e \in [Wallets -> Int] /\ Fits(t, d, e)
  BY ProperMoves
<1> HIDE DEF w, E
<1>3. Sound(M) /\ Moved(L, M, w, E, d, e) /\ M.holds[Ata(w, "SOL")] = 0
  BY <1>1, WholeEffect
<1>4. M.holds[Ata(w, "SOL")] <= L.holds[Ata(w, "SOL")]
  <2>1. L.holds[Ata(w, "SOL")] \in Nat
    BY <1>1, Amounts
  <2> QED
    BY <1>3, <2>1
<1> HIDE DEF d, e
<1> QED
  BY <1>1, <1>2, <1>3, <1>4, OutcomeFrom DEF w

\* A swap moves what was asked.
LEMMA SwapFits ==
    ASSUME NEW t, NEW fee, NEW ix, t.payer \in Wallets, t.call.who # t.payer,
           t.call.op = "swap", NEW side \in {"A", "SOL"}, t.call.sides = side,
           SwapMoves(ix, fee, t.payer, side, t.call.who)
    PROVE  Fits(t, NetMove(ix, fee), Recorded(ix))
<1> DEFINE w == t.payer
           who == t.call.who
           d == NetMove(ix, fee)
           e == Recorded(ix)
<1>1. AmountIn = 2 /\ HostFee = 1
  BY DEF AmountIn, HostFee
<1>2. Other(side) \in {"A", "SOL"} /\ Other(side) # side
  BY DEF Other
<1>3. /\ d[Ata(w, side)] = -2 /\ d[Ata(w, Other(side))] = 1 /\ d[Ata(w, "LP")] = 0
      /\ who \in Wallets => d[Ata(who, side)] = 1
      /\ \A v \in Wallets \ {w}, m \in {"A", "SOL", "LP"} : v # who \/ m # side => d[Ata(v, m)] = 0
      /\ \A v \in Wallets : e[v] = 0
  BY <1>1 DEF SwapMoves
<1> HIDE DEF d, e
<1>4. ASSUME NEW v \in Wallets
      PROVE  /\ \A m \in {"A", "SOL", "LP"} :
                   d[Ata(v, m)] \in Asked(t, v)[m][1] .. Asked(t, v)[m][2]
             /\ e[v] \in Asked(t, v)["locked"][1] .. Asked(t, v)["locked"][2]
             /\ v # w => d[Ata(v, "SOL")] <= HostShare(t, v)
  <2>1. /\ v = w =>
              /\ Asked(t, v)[side] = <<-2, -2>> /\ Asked(t, v)[Other(side)] = <<1, 1>>
              /\ Asked(t, v)["LP"] = <<0, 0>> /\ Asked(t, v)["locked"] = <<0, 0>>
        /\ v # w /\ who = v =>
              /\ Asked(t, v)[side] = <<1, 1>>
              /\ \A k \in Kinds \ {side} : Asked(t, v)[k] = <<0, 0>>
        /\ v # w /\ who # v => \A k \in Kinds : Asked(t, v)[k] = <<0, 0>>
    BY <1>1, AskedSwap
  <2>2. HostShare(t, v) \in Nat /\ (v = who /\ side = "SOL" => HostShare(t, v) = 1)
    BY DEF HostShare, HostFee
  <2>3. CASE v = w
    <3>1. \A m \in {"A", "SOL", "LP"} : m = side \/ m = Other(side) \/ m = "LP"
      BY <1>2
    <3> QED
      BY <1>3, <2>1, <2>3, <3>1
  <2>4. CASE v # w /\ v = who
    BY <1>3, <2>1, <2>2, <2>4 DEF Kinds
  <2>5. CASE v # w /\ v # who
    BY <1>3, <2>1, <2>2, <2>5 DEF Kinds
  <2> QED
    BY <2>3, <2>4, <2>5
<1> QED
  BY <1>4 DEF Fits, d, e

\* The instruction of a swap.
LEMMA SwapFacts ==
    ASSUME NEW t, NEW fee, Shaped(t), t.call.op = "swap", NEW side \in {"A", "SOL"},
           t.call.sides = side, NEW ix, ix = SwapIx(t.payer, side, t.call.who)
    PROVE  /\ t.payer \in Wallets /\ ix.op \notin NoMoveOps
           /\ SwapMoves(ix, fee, t.payer, side, t.call.who)
           /\ Fits(t, NetMove(ix, fee), Recorded(ix))
<1>1. t.payer \in Wallets /\ t.call.who # t.payer /\ t.call \in Calls
  BY Zenon DEF Shaped
<1>2. t.call.who \in Wallets \cup {NoCall}
  <2>1. t.call.who \in PartnersOf("swap")
    BY <1>1, UserAssumption
  <2> QED
    BY <2>1, Zenon DEF PartnersOf
<1>3. SwapMoves(ix, fee, t.payer, side, t.call.who)
  BY <1>1, <1>2, SwapNet
<1>4. Fits(t, NetMove(ix, fee), Recorded(ix))
  BY <1>1, <1>3, SwapFits
<1>5. ix.op \notin NoMoveOps
  BY <1>3 DEF SwapMoves, NoMoveOps, QuietOps
<1> QED
  BY <1>1, <1>3, <1>4, <1>5

\* A swap of A.
LEMMA SwapAOutcome ==
    ASSUME NEW L, NEW M, NEW t, NEW fee, Sound(L), VaultsOpen(L), Shaped(t),
           t.call.op = "swap", t.call.sides = "A", Runs(L, t.ixs, fee, M)
    PROVE  Outcome(L, M, t)
<1> DEFINE side == "A"
           ix == SwapIx(t.payer, side, t.call.who)
           W == {}
<1>1. PICK pre \in Seq(Creates(t.payer)) : t.ixs = (pre \o <<ix>>) \o UnwrapSol(t.payer)
  BY Zenon DEF Shaped
<1>2. side \in {"A", "SOL"} /\ t.call.sides = side /\ ix = SwapIx(t.payer, side, t.call.who)
      /\ W \in SUBSET Nat
  OBVIOUS
<1> HIDE DEF side, ix, W
<1>3. /\ t.payer \in Wallets /\ ix.op \notin NoMoveOps /\ SwapMoves(ix, fee, t.payer, side, t.call.who)
      /\ Fits(t, NetMove(ix, fee), Recorded(ix))
  BY <1>2, SwapFacts
<1>4. pre \in Seq(Setup(t.payer, W, {}))
  BY <1>2, <1>3, CreatesSetUp
<1>5. Proper(ix, fee)
  BY <1>3 DEF SwapMoves
<1> QED
  BY <1>1, <1>2, <1>3, <1>4, <1>5, ClosingOutcome

\* A swap of SOL: the instruction takes what was wrapped before it.
LEMMA SwapSolOutcome ==
    ASSUME NEW L, NEW M, NEW t, NEW fee, Sound(L), VaultsOpen(L), Shaped(t),
           t.call.op = "swap", t.call.sides = "SOL", Runs(L, t.ixs, fee, M)
    PROVE  Outcome(L, M, t)
<1> DEFINE w == t.payer
           side == "SOL"
           ix == SwapIx(w, side, t.call.who)
           W == Nat
           E == {}
           y == WrapIx(w, AmountIn)
<1>1. PICK p \in Seq(Creates(w)), q \in Seq(Creates(w)) :
         t.ixs = ((p \o WrapSol(w, AmountIn)) \o q) \o <<ix>>
  BY Zenon DEF Shaped
<1>2. side \in {"A", "SOL"} /\ t.call.sides = side /\ ix = SwapIx(w, side, t.call.who)
      /\ W \in SUBSET Nat /\ E \in SUBSET Wallets /\ y \in Wraps(w, W)
      /\ \A v \in E : FALSE
  BY DEF Wraps, AmountIn
<1>3. WrapSol(w, AmountIn) = <<y>>
  BY DEF WrapSol, WrapIx
<1> HIDE DEF side, ix, W, E, y
<1>4. /\ w \in Wallets /\ ix.op \notin NoMoveOps /\ SwapMoves(ix, fee, w, side, t.call.who)
      /\ Fits(t, NetMove(ix, fee), Recorded(ix))
  BY <1>2, SwapFacts
<1>5. Proper(ix, fee) /\ NetMove(ix, fee)[Ata(w, "SOL")] = -AmountIn
  BY <1>4 DEF SwapMoves, side
<1>6. (p \o <<y>>) \o q \in Seq(Setup(w, W, E))
  <2>1. p \in Seq(Setup(w, W, E)) /\ q \in Seq(Setup(w, W, E))
    BY <1>2, <1>4, CreatesSetUp
  <2>2. y \in Setup(w, W, E)
    BY <1>2 DEF Setup
  <2>3. p \o <<y>> \in Seq(Setup(w, W, E))
    BY <2>1, <2>2, ConcatProperties
  <2> QED
    BY <2>1, <2>3, ConcatProperties
<1>7. Runs(L, ((p \o <<y>>) \o q) \o <<ix>>, fee, M)
  BY <1>1, <1>3
<1>8. Sound(M) /\ Moved(L, M, w, E, NetMove(ix, fee), Recorded(ix))
  <2>1. BodyDone(L, M, w, W, E, ix, fee)
    BY <1>2, <1>4, <1>5, <1>6, <1>7, BodyEffect
  <2> QED
    BY <2>1 DEF BodyDone
<1>9. M.holds[Ata(w, "SOL")] = L.holds[Ata(w, "SOL")] + AmountIn + NetMove(ix, fee)[Ata(w, "SOL")]
  <2>1. AmountIn \in Nat
    BY DEF AmountIn
  <2>2. Runs(L, ((p \o WrapSol(w, AmountIn)) \o q) \o <<ix>>, fee, M)
    BY <1>1
  <2> QED
    BY <1>4, <1>5, <2>1, <2>2, WrapBetween
<1>10. M.holds[Ata(w, "SOL")] <= L.holds[Ata(w, "SOL")]
  <2>1. AmountIn \in Nat /\ L.holds[Ata(w, "SOL")] \in Nat
    BY <1>4, Amounts DEF AmountIn
  <2> QED
    BY <1>5, <1>9, <2>1
<1>11. NetMove(ix, fee) \in [TokenAccounts -> Int] /\ Recorded(ix) \in [Wallets -> Int]
  BY <1>5, ProperMoves
<1> QED
  BY <1>2, <1>4, <1>8, <1>10, <1>11, OutcomeFrom

\* A deposit.
LEMMA DepositOutcome ==
    ASSUME NEW L, NEW M, NEW t, NEW fee, Sound(L), VaultsOpen(L), Shaped(t),
           t.call.op = "deposit", Runs(L, t.ixs, fee, M)
    PROVE  Outcome(L, M, t)
<1> DEFINE w == t.payer
           c == t.call
           a == AskedIn(c, "A")
           b == AskedIn(c, "SOL")
           W == Nat
<1>1. PICK pre \in Seq(Setup(w, W, {})), op \in DepositOps :
         /\ op = "addBalanceLiquidity" => c.sides = "both"
         /\ t.ixs = (pre \o <<DepositIx(w, c, op)>>) \o UnwrapSol(w)
  BY Zenon DEF Shaped
<1>2. w \in Wallets /\ W \in SUBSET Nat
  BY Zenon DEF Shaped
<1>3. a \in 0 .. AmountIn /\ b \in 0 .. AmountIn
      /\ (op = "addBalanceLiquidity" => a = AmountIn /\ b = AmountIn)
  BY <1>1 DEF AskedIn, AmountIn
<1> DEFINE ix == DepositIx(w, c, op)
           d == NetMove(ix, fee)
           e == Recorded(ix)
<1>4. ix = Bind(op, UserRoles(w), [A |-> a, SOL |-> b], {})
  BY DEF DepositIx
<1> HIDE DEF a, b, W, ix
<1>5. op \in {"bootstrapLiquidity", "addImbalanceLiquidity", "addBalanceLiquidity"}
  BY DEF DepositOps
<1>6. DepositMoves(ix, fee, w, a, b, op)
  BY <1>2, <1>3, <1>4, <1>5, DepositNet
<1>7. /\ ix.op = op /\ Proper(ix, fee) /\ d[Ata(w, "A")] \in -a .. 0 /\ d[Ata(w, "SOL")] \in -b .. 0
      /\ d[Ata(w, "LP")] = LpAmount
      /\ \A v \in Wallets \ {w}, m \in {"A", "SOL", "LP"} : d[Ata(v, m)] = 0
      /\ \A v \in Wallets : e[v] = 0
  BY <1>6 DEF DepositMoves, OnlyMoves
<1>8. LpAmount = 1
  BY DEF LpAmount
<1> HIDE DEF d, e
<1>9. Fits(t, d, e)
  <2> SUFFICES ASSUME NEW v \in Wallets
               PROVE  /\ \A m \in {"A", "SOL", "LP"} :
                           d[Ata(v, m)] \in Asked(t, v)[m][1] .. Asked(t, v)[m][2]
                      /\ e[v] \in Asked(t, v)["locked"][1] .. Asked(t, v)["locked"][2]
                      /\ v # w => d[Ata(v, "SOL")] <= HostShare(t, v)
    BY DEF Fits
  <2>1. /\ v = w => /\ Asked(t, v)["A"] = <<-a, 0>> /\ Asked(t, v)["SOL"] = <<-b, 0>>
                    /\ Asked(t, v)["LP"] = <<LpAmount, LpAmount>>
                    /\ Asked(t, v)["locked"] = <<0, 0>>
        /\ v # w => \A k \in Kinds : Asked(t, v)[k] = <<0, 0>>
    BY AskedDeposit DEF a, b
  <2>2. HostShare(t, v) \in Nat
    BY DEF HostShare, HostFee
  <2>3. CASE v = w
    BY <1>7, <1>8, <2>1, <2>3
  <2>4. CASE v # w
    BY <1>7, <2>1, <2>2, <2>4 DEF Kinds
  <2> QED
    BY <2>3, <2>4
<1>10. ix.op \notin NoMoveOps
  BY <1>5, <1>7 DEF NoMoveOps, QuietOps
<1>11. Runs(L, (pre \o <<ix>>) \o UnwrapSol(w), fee, M)
  BY <1>1 DEF ix
<1> QED
  BY <1>2, <1>7, <1>9, <1>10, <1>11, ClosingOutcome DEF d, e

\* A withdrawal.
LEMMA WithdrawOutcome ==
    ASSUME NEW L, NEW M, NEW t, NEW fee, Sound(L), VaultsOpen(L), Shaped(t),
           t.call.op = "withdraw", Runs(L, t.ixs, fee, M)
    PROVE  Outcome(L, M, t)
<1> DEFINE w == t.payer
           c == t.call
           W == {}
<1>1. w \in Wallets /\ c \in Calls
  BY Zenon DEF Shaped
<1>2. LpAmount = 1
  BY DEF LpAmount
<1> DEFINE Pays(pre, ix) ==
             /\ Runs(L, (pre \o <<ix>>) \o UnwrapSol(w), fee, M)
             /\ ix.op \notin NoMoveOps /\ Proper(ix, fee)
             /\ \A m \in {"A", "SOL"} :
                   NetMove(ix, fee)[Ata(w, m)] \in IF c.sides \in {"both", m} THEN 1 .. 2 ELSE {0}
             /\ NetMove(ix, fee)[Ata(w, "LP")] = -LpAmount
             /\ \A v \in Wallets \ {w}, m \in {"A", "SOL", "LP"} : NetMove(ix, fee)[Ata(v, m)] = 0
             /\ \A v \in Wallets : Recorded(ix)[v] = 0
<1>3. \E pre \in Seq(Creates(w)) : \E ix : Pays(pre, ix)
  <2>1. CASE c.sides = "both"
    <3>1. PICK pre \in Seq(Creates(w)) : t.ixs = (pre \o <<WithdrawBothIx(w)>>) \o UnwrapSol(w)
      BY <2>1, Zenon DEF Shaped
    <3> DEFINE ix == WithdrawBothIx(w)
    <3>2. ix = Bind("removeBalanceLiquidity", UserRoles(w), LpAmount, {})
      BY DEF WithdrawBothIx
    <3> HIDE DEF ix
    <3>3. WithdrawMoves(ix, fee, w, "both", "removeBalanceLiquidity")
      BY <1>1, <3>2, WithdrawBothNet
    <3>4. ix.op \notin NoMoveOps
      BY <3>3 DEF WithdrawMoves, NoMoveOps, QuietOps
    <3>5. Runs(L, (pre \o <<ix>>) \o UnwrapSol(w), fee, M)
      BY <3>1 DEF ix
    <3> QED
      BY <2>1, <3>3, <3>4, <3>5 DEF WithdrawMoves, OnlyMoves
  <2>2. CASE c.sides # "both"
    <3>1. PICK pre \in Seq(Creates(w)) :
             t.ixs = (pre \o <<WithdrawOneIx(w, c.sides)>>) \o UnwrapSol(w)
      BY <2>2, Zenon DEF Shaped
    <3>2. c.sides \in {"A", "SOL"}
      <4>1. c.sides \in SidesOf("withdraw")
        BY <1>1, UserAssumption
      <4>2. SidesOf("withdraw") = {"both", "A", "SOL"}
        BY Zenon DEF SidesOf
      <4> QED
        BY <2>2, <4>1, <4>2
    <3> DEFINE ix == WithdrawOneIx(w, c.sides)
               side == c.sides
    <3>3. ix = Bind("removeLiquiditySingleSide",
                    [userDestinationToken |-> Ata(w, side),
                     userPoolLp |-> Ata(w, "LP"), user |-> w], LpAmount, {})
      BY DEF WithdrawOneIx
    <3> HIDE DEF ix
    <3>4. WithdrawMoves(ix, fee, w, side, "removeLiquiditySingleSide")
      BY <1>1, <3>2, <3>3, WithdrawOneNet
    <3>5. ix.op \notin NoMoveOps
      BY <3>4 DEF WithdrawMoves, NoMoveOps, QuietOps
    <3>6. Runs(L, (pre \o <<ix>>) \o UnwrapSol(w), fee, M)
      BY <3>1 DEF ix
    <3> QED
      BY <3>4, <3>5, <3>6 DEF WithdrawMoves, OnlyMoves
  <2> QED
    BY <2>1, <2>2
<1>4. PICK pre \in Seq(Creates(w)) : \E ix : Pays(pre, ix)
  BY <1>3
<1>5. PICK ix : Pays(pre, ix)
  BY <1>4
<1> DEFINE d == NetMove(ix, fee)
           e == Recorded(ix)
<1> HIDE DEF d, e
<1>6. Fits(t, d, e)
  <2> SUFFICES ASSUME NEW v \in Wallets
               PROVE  /\ \A m \in {"A", "SOL", "LP"} :
                           d[Ata(v, m)] \in Asked(t, v)[m][1] .. Asked(t, v)[m][2]
                      /\ e[v] \in Asked(t, v)["locked"][1] .. Asked(t, v)["locked"][2]
                      /\ v # w => d[Ata(v, "SOL")] <= HostShare(t, v)
    BY DEF Fits
  <2>1. /\ v = w =>
              /\ Asked(t, v)["A"] = IF c.sides \in {"both", "A"} THEN <<1, 2>> ELSE <<0, 0>>
              /\ Asked(t, v)["SOL"] = IF c.sides \in {"both", "SOL"} THEN <<1, 2>> ELSE <<0, 0>>
              /\ Asked(t, v)["LP"] = <<-LpAmount, -LpAmount>>
              /\ Asked(t, v)["locked"] = <<0, 0>>
        /\ v # w => \A k \in Kinds : Asked(t, v)[k] = <<0, 0>>
    BY AskedWithdraw
  <2>2. HostShare(t, v) \in Nat
    BY DEF HostShare, HostFee
  <2>3. CASE v = w
    <3>1. d[Ata(v, "A")] \in Asked(t, v)["A"][1] .. Asked(t, v)["A"][2]
      BY <1>5, <2>1, <2>3 DEF d
    <3>2. d[Ata(v, "SOL")] \in Asked(t, v)["SOL"][1] .. Asked(t, v)["SOL"][2]
      BY <1>5, <2>1, <2>3 DEF d
    <3>3. d[Ata(v, "LP")] \in Asked(t, v)["LP"][1] .. Asked(t, v)["LP"][2]
      BY <1>2, <1>5, <2>1, <2>3 DEF d
    <3>4. e[v] \in Asked(t, v)["locked"][1] .. Asked(t, v)["locked"][2]
      BY <1>5, <2>1, <2>3 DEF e
    <3> QED
      BY <2>3, <3>1, <3>2, <3>3, <3>4
  <2>4. CASE v # w
    BY <1>5, <2>1, <2>2, <2>4 DEF Kinds, d, e
  <2> QED
    BY <2>3, <2>4
<1>7. W \in SUBSET Nat /\ {} \in SUBSET Wallets
  OBVIOUS
<1> HIDE DEF W
<1>8. pre \in Seq(Setup(w, W, {}))
  BY <1>1, <1>7, CreatesSetUp
<1> QED
  BY <1>1, <1>5, <1>6, <1>7, <1>8, ClosingOutcome DEF d, e

\* A lock: who locks pays, the escrow named records it, and its vault is open.
LEMMA LockOutcome ==
    ASSUME NEW L, NEW M, NEW t, NEW fee, Sound(L), VaultsOpen(L), Shaped(t),
           t.call.op = "lockLiquidity", Runs(L, t.ixs, fee, M)
    PROVE  Outcome(L, M, t)
<1> DEFINE w == t.payer
           u == t.call.who
           W == {}
           E == {u}
           ix == LockIx(w, u)
           d == NetMove(ix, fee)
           e == Recorded(ix)
<1>1. PICK pre \in Seq(Setup(w, {}, {u})) : t.ixs = pre \o <<LockIx(w, u)>>
  BY Zenon DEF Shaped
<1>2. w \in Wallets /\ t.call \in Calls
  BY Zenon DEF Shaped
<1>3. u \in Wallets
  <2>1. u \in PartnersOf("lockLiquidity")
    BY <1>2, UserAssumption
  <2> QED
    BY <2>1, Zenon DEF PartnersOf
<1>4. /\ W \in SUBSET Nat /\ E \in SUBSET Wallets /\ pre \in Seq(Setup(w, W, E))
      /\ Runs(L, pre \o <<ix>>, fee, M) /\ W = {} /\ \A v \in E : v = u
  BY <1>1, <1>3
<1>5. ix = LockIx(w, u)
  OBVIOUS
<1> HIDE DEF W, E, ix
<1>6. LockMoves(ix, fee, w, u)
  BY <1>2, <1>3, <1>5, LockNet DEF LockIx
<1>7. /\ ix.op = "lock" /\ Proper(ix, fee) /\ d[Ata(w, "LP")] = -LpAmount
      /\ d[Ata(w, "A")] = 0 /\ d[Ata(w, "SOL")] = 0
      /\ \A v \in Wallets \ {w}, m \in {"A", "SOL", "LP"} : d[Ata(v, m)] = 0
      /\ e[u] = LpAmount /\ \A v \in Wallets \ {u} : e[v] = 0
      /\ DOMAIN Gives(ix, fee) = {Ata(EscrowOf(u), "LP")}
  BY <1>6 DEF LockMoves
<1>8. d \in [TokenAccounts -> Int] /\ e \in [Wallets -> Int]
  BY <1>7, ProperMoves
<1>9. ix.op \notin NoMoveOps
  BY <1>7 DEF NoMoveOps, QuietOps
<1>10. /\ Sound(M) /\ Moved(L, M, w, E, d, e) /\ DOMAIN Gives(ix, fee) \subseteq M.open
       /\ \A a \in TokenAccounts : M.holds[a] = L.holds[a] + d[a]
  <2>1. BodyDone(L, M, w, W, E, ix, fee)
    BY <1>2, <1>4, <1>7, <1>9, BodyEffect
  <2> QED
    BY <1>4, <2>1 DEF BodyDone, d, e
<1>11. LpAmount = 1
  BY DEF LpAmount
<1> HIDE DEF d, e
<1>12. Fits(t, d, e)
  <2> SUFFICES ASSUME NEW v \in Wallets
               PROVE  /\ \A m \in {"A", "SOL", "LP"} :
                           d[Ata(v, m)] \in Asked(t, v)[m][1] .. Asked(t, v)[m][2]
                      /\ e[v] \in Asked(t, v)["locked"][1] .. Asked(t, v)["locked"][2]
                      /\ v # w => d[Ata(v, "SOL")] <= HostShare(t, v)
    BY DEF Fits
  <2>1. /\ Asked(t, v)["A"] = <<0, 0>> /\ Asked(t, v)["SOL"] = <<0, 0>>
        /\ v = w => Asked(t, v)["LP"] = <<-1, -1>>
        /\ v # w => Asked(t, v)["LP"] = <<0, 0>>
        /\ v = u => Asked(t, v)["locked"] = <<1, 1>>
        /\ v # u => Asked(t, v)["locked"] = <<0, 0>>
    BY <1>11, AskedLock
  <2>2. HostShare(t, v) \in Nat
    BY DEF HostShare, HostFee
  <2>3. \A m \in {"A", "SOL", "LP"} : d[Ata(v, m)] \in Asked(t, v)[m][1] .. Asked(t, v)[m][2]
    <3>1. CASE v = w
      BY <1>7, <1>11, <2>1, <3>1
    <3>2. CASE v # w
      BY <1>7, <2>1, <3>2
    <3> QED
      BY <3>1, <3>2
  <2>4. e[v] \in Asked(t, v)["locked"][1] .. Asked(t, v)["locked"][2]
    BY <1>7, <1>11, <2>1
  <2>5. v # w => d[Ata(v, "SOL")] <= HostShare(t, v)
    BY <1>7, <2>2
  <2> QED
    BY <2>3, <2>4, <2>5
<1>13. M.holds[Ata(w, "SOL")] <= L.holds[Ata(w, "SOL")]
  <2>1. Ata(w, "SOL") \in TokenAccounts /\ L.holds[Ata(w, "SOL")] \in Nat
    BY <1>2, TokenAtas, Amounts
  <2> QED
    BY <1>7, <1>10, <2>1
<1>14. \A v \in E : Ata(EscrowOf(v), "LP") \in M.open
  BY <1>4, <1>7, <1>10
<1> QED
  BY <1>2, <1>8, <1>10, <1>12, <1>13, <1>14, OutcomeFrom

\* A claim of fees.
LEMMA ClaimOutcome ==
    ASSUME NEW L, NEW M, NEW t, NEW fee \in 0 .. LpAmount, Sound(L), VaultsOpen(L), Shaped(t),
           t.call.op = "claimLockFee", Runs(L, t.ixs, fee, M)
    PROVE  Outcome(L, M, t)
<1> DEFINE w == t.payer
           W == {}
           ix == ClaimIx(w)
           d == NetMove(ix, fee)
           e == Recorded(ix)
<1>1. PICK pre \in Seq(Creates(w)) : t.ixs = (pre \o <<ix>>) \o UnwrapSol(w)
  BY Zenon DEF Shaped
<1>2. w \in Wallets
  BY Zenon DEF Shaped
<1>3. ix = ClaimIx(w) /\ W \in SUBSET Nat /\ {} \in SUBSET Wallets
  OBVIOUS
<1> HIDE DEF W, ix
<1>4. ClaimMoves(ix, fee, w)
  BY <1>2, <1>3, ClaimNet DEF ClaimIx
<1>5. /\ ix.op = "claimFee" /\ Proper(ix, fee)
      /\ d[Ata(w, "A")] = fee /\ d[Ata(w, "SOL")] = fee /\ d[Ata(w, "LP")] = 0
      /\ \A v \in Wallets \ {w}, m \in {"A", "SOL", "LP"} : d[Ata(v, m)] = 0
      /\ \A v \in Wallets : e[v] = 0
  BY <1>4 DEF ClaimMoves, OnlyMoves
<1>6. LpAmount = 1 /\ fee \in 0 .. 1
  BY DEF LpAmount
<1> HIDE DEF d, e
<1>7. Fits(t, d, e)
  <2> SUFFICES ASSUME NEW v \in Wallets
               PROVE  /\ \A m \in {"A", "SOL", "LP"} :
                           d[Ata(v, m)] \in Asked(t, v)[m][1] .. Asked(t, v)[m][2]
                      /\ e[v] \in Asked(t, v)["locked"][1] .. Asked(t, v)["locked"][2]
                      /\ v # w => d[Ata(v, "SOL")] <= HostShare(t, v)
    BY DEF Fits
  <2>1. /\ v = w => /\ Asked(t, v)["A"] = <<0, 1>> /\ Asked(t, v)["SOL"] = <<0, 1>>
                    /\ Asked(t, v)["LP"] = <<0, 0>> /\ Asked(t, v)["locked"] = <<0, 0>>
        /\ v # w => \A k \in Kinds : Asked(t, v)[k] = <<0, 0>>
    BY <1>6, AskedClaim
  <2>2. HostShare(t, v) \in Nat
    BY DEF HostShare, HostFee
  <2>3. CASE v = w
    BY <1>5, <1>6, <2>1, <2>3
  <2>4. CASE v # w
    BY <1>5, <2>1, <2>2, <2>4 DEF Kinds
  <2> QED
    BY <2>3, <2>4
<1>8. pre \in Seq(Setup(w, W, {}))
  BY <1>2, <1>3, CreatesSetUp
<1>9. ix.op \notin NoMoveOps
  BY <1>5 DEF NoMoveOps, QuietOps
<1> QED
  BY <1>1, <1>2, <1>3, <1>5, <1>7, <1>8, <1>9, ClosingOutcome DEF d, e

\* The creation of a config.
LEMMA ConfigOutcome ==
    ASSUME NEW L, NEW M, NEW t, NEW fee, Sound(L), VaultsOpen(L), Shaped(t),
           t.call.op = "createConfig", Runs(L, t.ixs, fee, M)
    PROVE  Outcome(L, M, t)
<1> DEFINE w == t.payer
<1>1. PICK i : t.ixs = <<ConfigIx(w, i)>>
  BY Zenon DEF Shaped
<1>2. w \in Wallets
  BY Zenon DEF Shaped
<1> DEFINE ix == ConfigIx(w, i)
           X == {ConfigAt(i)}
           E == {}
<1>3. ix.op = "createConfig" /\ ix.acc.config = ConfigAt(i)
  BY ConfigBound DEF ConfigIx
<1> HIDE DEF ix
<1>4. Allowed(L, ix, fee) /\ M = After(L, ix, fee)
  <2>1. Runs(L, <<ix>>, fee, M)
    BY <1>1 DEF ix
  <2> QED
    BY <2>1, RunsOne
<1>5. Opens(ix) = {ConfigAt(i)}
  BY <1>3, Zenon DEF Opens
<1>6. Takes(ix, fee) = <<>> /\ Gives(ix, fee) = <<>>
  BY <1>3, NoMoves DEF NoMoveOps, QuietOps
<1>7. Proper(ix, fee)
  BY <1>3, <1>6 DEF Proper
<1>8. Sound(M)
  BY <1>4, <1>7, AfterSound
<1>9. M.holds = L.holds /\ M.lamports = L.lamports /\ M.locked = L.locked
      /\ M.open = L.open \cup X
  BY <1>3, <1>4, <1>5, QuietEffect DEF QuietOps
<1>10. (\A v \in Wallets : EscrowOf(v) \in X => v \in E) /\ \A v \in E : FALSE
  BY EscrowsApart
<1> HIDE DEF X, E
<1>11. Moved(L, M, w, E, Still, NoLock)
  BY <1>9, <1>10, QuietMoved
<1>12. Fits(t, Still, NoLock)
  <2> SUFFICES ASSUME NEW v \in Wallets
               PROVE  /\ \A m \in {"A", "SOL", "LP"} :
                           Still[Ata(v, m)] \in Asked(t, v)[m][1] .. Asked(t, v)[m][2]
                      /\ NoLock[v] \in Asked(t, v)["locked"][1] .. Asked(t, v)["locked"][2]
                      /\ v # w => Still[Ata(v, "SOL")] <= HostShare(t, v)
    BY DEF Fits
  <2>1. \A k \in Kinds : Asked(t, v)[k] = <<0, 0>>
    BY AskedConfig
  <2>2. HostShare(t, v) \in Nat
    BY DEF HostShare, HostFee
  <2>3. (\A m \in {"A", "SOL", "LP"} : Still[Ata(v, m)] = 0) /\ NoLock[v] = 0
    BY TokenAtas DEF Still, NoLock
  <2> QED
    BY <2>1, <2>2, <2>3 DEF Kinds
<1>13. M.holds[Ata(w, "SOL")] <= L.holds[Ata(w, "SOL")]
  <2>1. L.holds[Ata(w, "SOL")] \in Nat
    BY <1>2, Amounts
  <2> QED
    BY <1>9, <2>1
<1> QED
  BY <1>2, <1>8, <1>10, <1>11, <1>12, <1>13, StillTypes, OutcomeFrom

\* Whatever lands does what was asked, and leaves the ledger as it should be.
LEMMA LandedOutcome ==
    ASSUME NEW L, NEW M, NEW t, NEW fee \in 0 .. LpAmount, Sound(L), VaultsOpen(L), Shaped(t),
           Runs(L, t.ixs, fee, M)
    PROVE  Outcome(L, M, t)
<1>1. t.call \in Calls
  BY Zenon DEF Shaped
<1>2. t.call.op \in Ops /\ t.call.sides \in SidesOf(t.call.op)
  BY <1>1, UserAssumption
<1>3. t.call.op = "swap" => t.call.sides \in {"A", "SOL"}
  BY <1>2, Zenon DEF SidesOf
<1> QED
  BY <1>2, <1>3, SwapAOutcome, SwapSolOutcome, DepositOutcome, WithdrawOutcome, LockOutcome,
     ClaimOutcome, ConfigOutcome DEF Ops

(***************************************************************************)
(* Who signs.                                                              *)
(***************************************************************************)

\* A sequence of instructions each of which only w signs.
SignedBy(s, w) == \E S : s \in Seq(S) /\ \A ix \in S : ix.signers = {w}

\* Only w signs two such sequences, one after the other.
LEMMA SignedPair ==
    ASSUME NEW w, NEW s, NEW r, SignedBy(s, w), SignedBy(r, w)
    PROVE  /\ SignedBy(s \o r, w)
           /\ Len(s) > 0 \/ Len(r) > 0 => Len(s \o r) > 0
<1>1. PICK S : s \in Seq(S) /\ \A ix \in S : ix.signers = {w}
  BY DEF SignedBy
<1>2. PICK R : r \in Seq(R) /\ \A ix \in R : ix.signers = {w}
  BY DEF SignedBy
<1> DEFINE U == S \cup R
<1>3. s \in Seq(U) /\ r \in Seq(U)
  BY <1>1, <1>2, SeqWider
<1>4. \A ix \in U : ix.signers = {w}
  BY <1>1, <1>2
<1> HIDE DEF U
<1>5. s \o r \in Seq(U) /\ Len(s \o r) = Len(s) + Len(r)
  BY <1>3, ConcatProperties
<1>6. Len(s) \in Nat /\ Len(r) \in Nat
  BY <1>3, LenProperties
<1> QED
  BY <1>4, <1>5, <1>6 DEF SignedBy

\* A lone instruction that only w signs.
LEMMA SignedOne ==
    ASSUME NEW w, NEW ix, ix.signers = {w}
    PROVE  SignedBy(<<ix>>, w) /\ Len(<<ix>>) > 0
<1> DEFINE s == <<ix>>
           S == {ix}
<1>1. s \in Seq(S) /\ (\A x \in S : x.signers = {w}) /\ Len(s) > 0
  OBVIOUS
<1> HIDE DEF s, S
<1>2. SignedBy(s, w) /\ Len(s) > 0
  BY <1>1 DEF SignedBy
<1> QED
  BY <1>2 DEF s

\* Only w signs an instruction of a setup, and the closing of its wrapped SOL.
LEMMA SetupSigned ==
    ASSUME NEW w, NEW W, NEW E
    PROVE  /\ \A pre \in Seq(Setup(w, W, E)) : SignedBy(pre, w)
           /\ \A pre \in Seq(Creates(w)) : SignedBy(pre, w)
           /\ \A n : SignedBy(WrapSol(w, n), w) /\ SignedBy(UnwrapSol(w), w)
<1>1. \A ix \in Creates(w) : ix.signers = {w}
  <2>1. \A a : CreateAta(w, a).signers = {w}
    BY NativeFields DEF CreateAta
  <2> QED
    BY <2>1 DEF Creates
<1>2. \A n : WrapIx(w, n).signers = {w}
  BY NativeFields DEF WrapIx
<1>3. \A v : NewEscrow(w, v).signers = {w}
  BY EscrowBound DEF NewEscrow
<1>4. \A ix \in Setup(w, W, E) : ix.signers = {w}
  BY <1>1, <1>2, <1>3 DEF Setup, Wraps
<1>5. UnwrapIx(w).signers = {w}
  BY NativeFields DEF UnwrapIx
<1>6. \A x : x.signers = {w} => SignedBy(<<x>>, w)
  BY SignedOne
<1>7. \A n : SignedBy(WrapSol(w, n), w)
  BY <1>2, <1>6 DEF WrapSol, WrapIx
<1>8. SignedBy(UnwrapSol(w), w)
  BY <1>5, <1>6 DEF UnwrapSol, UnwrapIx
<1>9. \A pre \in Seq(Setup(w, W, E)) : SignedBy(pre, w)
  BY <1>4 DEF SignedBy
<1>10. \A pre \in Seq(Creates(w)) : SignedBy(pre, w)
  BY <1>1 DEF SignedBy
<1> QED
  BY <1>7, <1>8, <1>9, <1>10

\* Nobody but w signs a sequence that is not empty and that w signs throughout.
LEMMA SignedAlone ==
    ASSUME NEW w, NEW s, SignedBy(s, w), Len(s) > 0
    PROVE  Len(s) \in Nat /\ UNION {ix.signers : ix \in Range(s)} = {w}
<1>1. PICK S : s \in Seq(S) /\ \A ix \in S : ix.signers = {w}
  BY DEF SignedBy
<1>2. Len(s) \in Nat /\ DOMAIN s = 1 .. Len(s) /\ \A i \in 1 .. Len(s) : s[i] \in S
  BY <1>1, LenProperties, ElementOfSeq
<1>3. Range(s) \subseteq S /\ s[1] \in Range(s)
  BY <1>2 DEF Range
<1> QED
  BY <1>1, <1>2, <1>3

\* Only the payer signs the program's instruction of the transactions that are no swaps or
\* deposits.
LEMMA MainSigned ==
    ASSUME NEW w
    PROVE  /\ WithdrawBothIx(w).signers = {w}
           /\ \A side : WithdrawOneIx(w, side).signers = {w}
           /\ \A u : LockIx(w, u).signers = {w}
           /\ ClaimIx(w).signers = {w}
           /\ \A i : ConfigIx(w, i).signers = {w}
<1>1. WithdrawBothIx(w).signers = {w}
  BY BothBound DEF WithdrawBothIx, BothOps
<1>2. \A side : WithdrawOneIx(w, side).signers = {w}
  BY SingleBound DEF WithdrawOneIx
<1>3. \A u : LockIx(w, u).signers = {w}
  BY LockBound DEF LockIx
<1>4. ClaimIx(w).signers = {w}
  BY ClaimBound DEF ClaimIx
<1>5. \A i : ConfigIx(w, i).signers = {w}
  BY ConfigBound DEF ConfigIx
<1> QED
  BY <1>1, <1>2, <1>3, <1>4, <1>5

\* A setup, an instruction that only w signs, and the closing of the wrapped SOL.
LEMMA SignedWhole ==
    ASSUME NEW w, NEW pre, SignedBy(pre, w), NEW ix, ix.signers = {w}
    PROVE  /\ SignedBy(pre \o <<ix>>, w) /\ Len(pre \o <<ix>>) > 0
           /\ SignedBy((pre \o <<ix>>) \o UnwrapSol(w), w)
           /\ Len((pre \o <<ix>>) \o UnwrapSol(w)) > 0
<1> DEFINE x == <<ix>>
<1>1. SignedBy(x, w) /\ Len(x) > 0
  BY SignedOne
<1> HIDE DEF x
<1>2. SignedBy(pre \o x, w) /\ Len(pre \o x) > 0
  BY <1>1, SignedPair
<1>3. SignedBy(UnwrapSol(w), w)
  BY SetupSigned
<1> DEFINE y == pre \o x
<1>4. SignedBy(y, w) /\ Len(y) > 0
  BY <1>2
<1> HIDE DEF y
<1>5. SignedBy(y \o UnwrapSol(w), w) /\ Len(y \o UnwrapSol(w)) > 0
  BY <1>3, <1>4, SignedPair
<1> QED
  BY <1>2, <1>5 DEF x, y

\* Nobody but the payer signs a transaction that a builder returns.
LEMMA ShapedSigned ==
    ASSUME NEW t, Shaped(t)
    PROVE  Len(t.ixs) \in Nat /\ UNION {ix.signers : ix \in Range(t.ixs)} = {t.payer}
<1> DEFINE w == t.payer
           c == t.call
<1>1. c.op \in Ops /\ c.sides \in SidesOf(c.op)
  <2>1. c \in Calls
    BY Zenon DEF Shaped
  <2> QED
    BY <2>1, UserAssumption
<1>2. c.op = "swap" => c.sides \in {"A", "SOL"}
  BY <1>1, Zenon DEF SidesOf
<1>3. ASSUME c.op = "swap", c.sides = "A" PROVE SignedBy(t.ixs, w) /\ Len(t.ixs) > 0
  <2>1. PICK pre \in Seq(Creates(w)) : t.ixs = (pre \o <<SwapIx(w, "A", c.who)>>) \o UnwrapSol(w)
    BY <1>3, Zenon DEF Shaped
  <2>2. SignedBy(pre, w)
    BY SetupSigned
  <2>3. SwapIx(w, "A", c.who).signers = {w}
    <3> DEFINE side == "A"
    <3> HIDE DEF side
    <3>1. SwapIx(w, side, c.who).signers = {w}
      BY SwapBound DEF SwapIx
    <3> QED
      BY <3>1 DEF side
  <2> QED
    BY <2>1, <2>2, <2>3, SignedWhole
<1>4. ASSUME c.op = "swap", c.sides = "SOL" PROVE SignedBy(t.ixs, w) /\ Len(t.ixs) > 0
  <2>1. PICK p \in Seq(Creates(w)), q \in Seq(Creates(w)) :
           t.ixs = ((p \o WrapSol(w, AmountIn)) \o q) \o <<SwapIx(w, "SOL", c.who)>>
    BY <1>4, Zenon DEF Shaped
  <2>2. SignedBy(p, w) /\ SignedBy(q, w) /\ SignedBy(WrapSol(w, AmountIn), w)
    BY SetupSigned
  <2>3. SignedBy(p \o WrapSol(w, AmountIn), w)
    BY <2>2, SignedPair
  <2>4. SignedBy((p \o WrapSol(w, AmountIn)) \o q, w)
    BY <2>2, <2>3, SignedPair
  <2>5. SwapIx(w, "SOL", c.who).signers = {w}
    <3> DEFINE side == "SOL"
    <3> HIDE DEF side
    <3>1. SwapIx(w, side, c.who).signers = {w}
      BY SwapBound DEF SwapIx
    <3> QED
      BY <3>1 DEF side
  <2> DEFINE y == (p \o WrapSol(w, AmountIn)) \o q
             ix == SwapIx(w, "SOL", c.who)
  <2>6. t.ixs = y \o <<ix>> /\ SignedBy(y, w) /\ ix.signers = {w}
    BY <2>1, <2>4, <2>5
  <2> HIDE DEF y, ix
  <2> QED
    BY <2>6, SignedWhole
<1>5. ASSUME c.op = "deposit" PROVE SignedBy(t.ixs, w) /\ Len(t.ixs) > 0
  <2>1. PICK pre \in Seq(Setup(w, Nat, {})), op \in DepositOps :
           t.ixs = (pre \o <<DepositIx(w, c, op)>>) \o UnwrapSol(w)
    BY <1>5, Zenon DEF Shaped
  <2>2. SignedBy(pre, w)
    BY SetupSigned
  <2>3. DepositIx(w, c, op).signers = {w}
    BY <2>1, BothBound DEF DepositIx, DepositOps, BothOps
  <2> QED
    BY <2>1, <2>2, <2>3, SignedWhole
<1>6. ASSUME c.op = "withdraw", c.sides = "both" PROVE SignedBy(t.ixs, w) /\ Len(t.ixs) > 0
  <2>1. PICK pre \in Seq(Creates(w)) : t.ixs = (pre \o <<WithdrawBothIx(w)>>) \o UnwrapSol(w)
    BY <1>6, Zenon DEF Shaped
  <2>2. SignedBy(pre, w)
    BY SetupSigned
  <2> DEFINE ix == WithdrawBothIx(w)
  <2>3. t.ixs = (pre \o <<ix>>) \o UnwrapSol(w) /\ ix.signers = {w}
    BY <2>1, MainSigned
  <2> HIDE DEF ix
  <2> QED
    BY <2>2, <2>3, SignedWhole
<1>7. ASSUME c.op = "withdraw", c.sides # "both" PROVE SignedBy(t.ixs, w) /\ Len(t.ixs) > 0
  <2>1. PICK pre \in Seq(Creates(w)) :
           t.ixs = (pre \o <<WithdrawOneIx(w, c.sides)>>) \o UnwrapSol(w)
    BY <1>7, Zenon DEF Shaped
  <2>2. SignedBy(pre, w)
    BY SetupSigned
  <2>3. WithdrawOneIx(w, c.sides).signers = {w}
    BY MainSigned
  <2> QED
    BY <2>1, <2>2, <2>3, SignedWhole
<1>8. ASSUME c.op = "lockLiquidity" PROVE SignedBy(t.ixs, w) /\ Len(t.ixs) > 0
  <2>1. PICK pre \in Seq(Setup(w, {}, {c.who})) : t.ixs = pre \o <<LockIx(w, c.who)>>
    BY <1>8, Zenon DEF Shaped
  <2>2. SignedBy(pre, w)
    BY SetupSigned
  <2>3. LockIx(w, c.who).signers = {w}
    BY MainSigned
  <2> QED
    BY <2>1, <2>2, <2>3, SignedWhole
<1>9. ASSUME c.op = "claimLockFee" PROVE SignedBy(t.ixs, w) /\ Len(t.ixs) > 0
  <2>1. PICK pre \in Seq(Creates(w)) : t.ixs = (pre \o <<ClaimIx(w)>>) \o UnwrapSol(w)
    BY <1>9, Zenon DEF Shaped
  <2>2. SignedBy(pre, w)
    BY SetupSigned
  <2> DEFINE ix == ClaimIx(w)
  <2>3. t.ixs = (pre \o <<ix>>) \o UnwrapSol(w) /\ ix.signers = {w}
    BY <2>1, MainSigned
  <2> HIDE DEF ix
  <2> QED
    BY <2>2, <2>3, SignedWhole
<1>10. ASSUME c.op = "createConfig" PROVE SignedBy(t.ixs, w) /\ Len(t.ixs) > 0
  <2>1. PICK i : t.ixs = <<ConfigIx(w, i)>>
    BY <1>10, Zenon DEF Shaped
  <2>2. ConfigIx(w, i).signers = {w}
    BY MainSigned
  <2> QED
    BY <2>1, <2>2, SignedOne
<1>11. SignedBy(t.ixs, w) /\ Len(t.ixs) > 0
  BY <1>1, <1>2, <1>3, <1>4, <1>5, <1>6, <1>7, <1>8, <1>9, <1>10 DEF Ops
<1> QED
  BY <1>11, SignedAlone

(***************************************************************************)
(* The invariant: the ledger is sound, every escrow that is open has its    *)
(* vault, which a claim relies on when it does not create that vault, and   *)
(* whatever is under way is what the builders return.                      *)
(***************************************************************************)

UserInv ==
    /\ Sound(ledger) /\ VaultsOpen(ledger)
    /\ wrapped0 \in [Wallets -> Nat] /\ hostFees \in [Wallets -> Nat]
    /\ NoResidue
    /\ \A p \in pending : Fair(p.payer, p.call, p.seen)
    /\ \A t \in net : Shaped(t)

\* What wallets start with, and the accounts for it, are a sound ledger without escrows.
LEMMA InitInv == Init => UserInv
<1> SUFFICES ASSUME Init PROVE UserInv
  OBVIOUS
<1>1. wrapped0 \in [Wallets -> Nat] /\ \A w \in Wallets : wrapped0[w] \in Nat
  BY UserAssumption DEF Init
<1>2. hostFees = [w \in Wallets |-> 0] /\ pending = {} /\ net = {}
  BY DEF Init
<1> DEFINE H(lp) == [a \in TokenAccounts |->
                       IF a[2] \notin Wallets THEN 0
                       ELSE CASE a[3] = "A" -> AmountIn
                              [] a[3] = "SOL" -> wrapped0[a[2]]
                              [] a[3] = "LP" -> lp]
           O(lp) == {Ata(w, "A") : w \in Wallets}
                    \cup {Ata(w, "SOL") : w \in {v \in Wallets : wrapped0[v] > 0}}
                    \cup {Ata(w, "LP") : w \in {v \in Wallets : lp > 0}}
<1>3. PICK lp \in {0, LpAmount} :
         ledger = [open |-> O(lp), holds |-> H(lp), lamports |-> [w \in Wallets |-> AmountIn],
                   locked |-> [w \in Wallets |-> 0]]
  BY DEF Init
<1>4. lp \in Nat /\ AmountIn \in Nat
  BY DEF LpAmount, AmountIn
<1>5. \A a \in TokenAccounts :
         \/ \E w \in Wallets : a = Ata(EscrowOf(w), "LP")
         \/ \E w \in Wallets : \E m \in {"A", "SOL", "LP"} : a = Ata(w, m)
  BY DEF TokenAccounts
<1>6. \A w \in Wallets : H(lp)[Ata(EscrowOf(w), "LP")] = 0
  <2> SUFFICES ASSUME NEW w \in Wallets PROVE H(lp)[Ata(EscrowOf(w), "LP")] = 0
    OBVIOUS
  <2>1. Ata(EscrowOf(w), "LP") \in TokenAccounts /\ EscrowOf(w) \notin Wallets
    BY TokenAtas, UserAssumption
  <2>2. Ata(EscrowOf(w), "LP")[2] = EscrowOf(w)
    BY DEF Ata
  <2> QED
    BY <2>1, <2>2
<1>7. \A w \in Wallets : /\ H(lp)[Ata(w, "A")] = AmountIn
                         /\ H(lp)[Ata(w, "SOL")] = wrapped0[w]
                         /\ H(lp)[Ata(w, "LP")] = lp
  <2> SUFFICES ASSUME NEW w \in Wallets
               PROVE  /\ H(lp)[Ata(w, "A")] = AmountIn
                      /\ H(lp)[Ata(w, "SOL")] = wrapped0[w]
                      /\ H(lp)[Ata(w, "LP")] = lp
    OBVIOUS
  <2>1. \A m : Ata(w, m)[2] = w /\ Ata(w, m)[3] = m
    BY DEF Ata
  <2> QED
    BY <2>1, TokenAtas
<1> HIDE DEF H
<1>8. H(lp) \in [TokenAccounts -> Nat]
  <2>1. \A a \in TokenAccounts : H(lp)[a] \in Nat
    BY <1>1, <1>4, <1>5, <1>6, <1>7
  <2> QED
    BY <2>1 DEF H
<1>9. \A a \in TokenAccounts : H(lp)[a] > 0 => a \in O(lp)
  <2> SUFFICES ASSUME NEW a \in TokenAccounts, H(lp)[a] > 0 PROVE a \in O(lp)
    OBVIOUS
  <2>1. PICK w \in Wallets, m \in {"A", "SOL", "LP"} : a = Ata(w, m)
    BY <1>5, <1>6
  <2> QED
    BY <1>7, <2>1
<1>10. \A v \in Wallets : EscrowOf(v) \notin O(lp)
  BY EscrowsApart
<1> HIDE DEF O
<1>11. Sound(ledger)
  BY <1>3, <1>4, <1>8, <1>9 DEF Sound
<1>12. VaultsOpen(ledger)
  BY <1>3, <1>10 DEF VaultsOpen
<1>13. NoResidue
  <2>1. \A w \in Wallets : ledger.holds[Ata(w, "SOL")] = wrapped0[w] /\ hostFees[w] = 0
    BY <1>2, <1>3, <1>7
  <2> QED
    BY <1>1, <2>1 DEF NoResidue
<1> QED
  BY <1>1, <1>2, <1>11, <1>12, <1>13 DEF UserInv

\* A fee is at most what a lock takes.
LEMMA FeeRange ==
    ASSUME NEW t, NEW fee \in Fees(t)
    PROVE  fee \in 0 .. LpAmount
BY DEF Fees, LpAmount

\* A transaction under way that lands does what was asked.
LEMMA LandOutcome ==
    ASSUME UserInv, NEW t \in net, NEW fee \in Fees(t), Land(t, fee)
    PROVE  Outcome(ledger, ledger', t)
<1>1. Sound(ledger) /\ VaultsOpen(ledger) /\ Shaped(t)
  BY DEF UserInv
<1>2. Executed(ledger, t, fee).ok /\ ledger' = Executed(ledger, t, fee).ledger
  BY DEF Land
<1>3. Len(t.ixs) \in Nat
  BY <1>1, ShapedSigned
<1>4. Runs(ledger, t.ixs, fee, ledger')
  BY <1>2, <1>3, ExecutedRuns
<1> QED
  BY <1>1, <1>4, FeeRange, LandedOutcome

\* A caller that may make its call leaves a builder that has read what it relies on.
LEMMA BeginInv ==
    ASSUME UserInv, NEW w \in Wallets, NEW c \in Calls, Begin(w, c)
    PROVE  UserInv'
<1>1. UNCHANGED <<stable, ledger, net, wrapped0, hostFees>>
  BY DEF Begin
<1> DEFINE p == [payer |-> w, call |-> c, empty |-> emptySeen[w],
                 seen |-> FirstReads(w, c) \cap ledger.open]
<1>2. pending' = pending \cup {p}
  BY DEF Begin
<1>3. Fair(w, c, p.seen)
  <2>1. /\ c.op = "swap" => c.who # w
        /\ c.op \in {"deposit", "withdraw"} /\ c.sides # "both" => stable
    BY DEF Begin, Sensible
  <2>2. ASSUME c.op = "claimLockFee" PROVE Ata(EscrowOf(w), "LP") \in p.seen
    <3>1. EscrowOf(w) \in ledger.open
      BY <2>2, Zenon DEF Begin, Affords
    <3>2. Ata(EscrowOf(w), "LP") \in ledger.open
      BY <3>1 DEF UserInv, VaultsOpen
    <3>3. FirstReads(w, c) = {Ata(w, "A"), Ata(w, "SOL"), Ata(w, "LP"), Ata(EscrowOf(w), "LP")}
      BY <2>2, Zenon DEF FirstReads
    <3> QED
      BY <3>2, <3>3
  <2> QED
    BY <2>1, <2>2 DEF Fair
<1>4. p.payer = w /\ p.call = c
  OBVIOUS
<1> HIDE DEF p
<1>5. \A q \in pending' : Fair(q.payer, q.call, q.seen)
  BY <1>2, <1>3, <1>4 DEF UserInv
<1> QED
  BY <1>1, <1>5 DEF UserInv, NoResidue, Fair

\* What a builder returns is of the shape its call makes it.
LEMMA SendInv ==
    ASSUME UserInv, NEW p \in pending, Send(p)
    PROVE  UserInv'
<1> DEFINE seen == p.seen \cup (SecondReads(p.payer, p.call) \cap ledger.open)
           t == [call |-> p.call, payer |-> p.payer, seen |-> seen,
                 empty |-> p.empty, blockhash |-> calls,
                 ixs |-> Built(p.payer, p.call, seen, p.empty)]
<1>1. UNCHANGED <<stable, ledger, wrapped0, hostFees>> /\ pending' = pending \ {p}
      /\ net' = net \cup {t}
  BY DEF Send
<1>2. Fair(p.payer, p.call, seen)
  BY DEF UserInv, Fair
<1>3. t.payer = p.payer /\ t.call = p.call /\ t.ixs = Built(p.payer, p.call, seen, p.empty)
  OBVIOUS
<1> HIDE DEF t, seen
<1>4. Shaped(t)
  BY <1>2, <1>3, BuiltShaped
<1>5. \A x \in net' : Shaped(x)
  BY <1>1, <1>4 DEF UserInv
<1>6. \A q \in pending' : Fair(q.payer, q.call, q.seen)
  BY <1>1 DEF UserInv
<1> QED
  BY <1>1, <1>5, <1>6 DEF UserInv, NoResidue, Fair

\* What lands leaves the ledger sound, and no wrapped SOL but that of referrers.
LEMMA LandInv ==
    ASSUME UserInv, NEW t \in net, NEW fee \in Fees(t), Land(t, fee)
    PROVE  UserInv'
<1>1. UNCHANGED <<stable, pending, wrapped0>> /\ net' = net \ {t}
  BY DEF Land
<1>2. hostFees' = [w \in Wallets |-> hostFees[w] + HostShare(t, w)]
  BY DEF Land, HostShare
<1>3. \A w \in Wallets : HostShare(t, w) \in Nat /\ hostFees[w] \in Nat /\ wrapped0[w] \in Nat
  BY DEF HostShare, HostFee, UserInv
<1>4. Outcome(ledger, ledger', t)
  BY LandOutcome
<1>5. Sound(ledger') /\ VaultsOpen(ledger')
  BY <1>4 DEF Outcome
<1>6. NoResidue'
  <2> SUFFICES ASSUME NEW w \in Wallets
               PROVE  ledger'.holds[Ata(w, "SOL")] <= wrapped0'[w] + hostFees'[w]
    BY DEF NoResidue
  <2>1. ledger'.holds[Ata(w, "SOL")] <= ledger.holds[Ata(w, "SOL")] + HostShare(t, w)
    BY <1>4 DEF Outcome
  <2>2. ledger.holds[Ata(w, "SOL")] <= wrapped0[w] + hostFees[w]
    BY DEF UserInv, NoResidue
  <2>3. hostFees'[w] = hostFees[w] + HostShare(t, w) /\ wrapped0' = wrapped0
    BY <1>1, <1>2
  <2>4. ledger.holds[Ata(w, "SOL")] \in Nat /\ ledger'.holds[Ata(w, "SOL")] \in Nat
    BY <1>5, Amounts DEF UserInv
  <2> QED
    BY <1>3, <2>1, <2>2, <2>3, <2>4
<1>7. hostFees' \in [Wallets -> Nat] /\ wrapped0' \in [Wallets -> Nat]
  BY <1>1, <1>2, <1>3 DEF UserInv
<1>8. (\A q \in pending' : Fair(q.payer, q.call, q.seen)) /\ \A x \in net' : Shaped(x)
  BY <1>1 DEF UserInv
<1> QED
  BY <1>1, <1>5, <1>6, <1>7, <1>8 DEF UserInv, Fair

\* A config that is closed is neither a token account nor an escrow.
LEMMA CloseInv ==
    ASSUME UserInv, NEW i, CloseConfigs(i)
    PROVE  UserInv'
<1>1. UNCHANGED <<stable, pending, net, wrapped0, hostFees>>
  BY DEF CloseConfigs
<1>2. Sound(ledger) /\ VaultsOpen(ledger)
  BY DEF UserInv
<1>3. /\ ledger' = [open |-> ledger.open \ {ConfigAt(i)}, holds |-> ledger.holds,
                    lamports |-> ledger.lamports, locked |-> ledger.locked]
  BY <1>2 DEF CloseConfigs, Sound
<1>4. \A o, m : Ata(o, m) # ConfigAt(i)
  <2>1. ConfigAt(i)[1] = "config" /\ \A o, m : Ata(o, m)[1] = "ata"
    BY DEF Ata, ConfigAt
  <2> QED
    BY <2>1
<1>5. ConfigAt(i) \notin TokenAccounts
  BY <1>4 DEF TokenAccounts
<1>6. Sound(ledger')
  BY <1>2, <1>3, <1>5 DEF Sound
<1>7. VaultsOpen(ledger')
  BY <1>2, <1>3, <1>4 DEF VaultsOpen
<1>8. NoResidue'
  BY <1>1, <1>3 DEF UserInv, NoResidue
<1> QED
  BY <1>1, <1>6, <1>7, <1>8 DEF UserInv, Fair

\* The invariant is inductive.
LEMMA NextInv == UserInv /\ [Next]_vars => UserInv'
<1> SUFFICES ASSUME UserInv, [Next]_vars PROVE UserInv'
  OBVIOUS
<1>1. ASSUME NEW w \in Wallets, NEW c \in Calls, Begin(w, c) PROVE UserInv'
  BY <1>1, BeginInv
<1>2. ASSUME NEW p \in pending, Send(p) PROVE UserInv'
  BY <1>2, SendInv
<1>3. ASSUME NEW w \in Wallets, UpdateState(w) PROVE UserInv'
  BY <1>3 DEF UpdateState, UserInv, NoResidue, Fair
<1>4. ASSUME NEW t \in net, NEW fee \in Fees(t), Land(t, fee) PROVE UserInv'
  BY <1>4, LandInv
<1>5. ASSUME NEW t \in net, Drop(t) PROVE UserInv'
  BY <1>5 DEF Drop, UserInv, NoResidue, Fair
<1>6. ASSUME NEW i \in 0 .. MaxConfigs, CloseConfigs(i) PROVE UserInv'
  BY <1>6, CloseInv
<1>7. CASE UNCHANGED vars
  BY <1>7 DEF vars, UserInv, NoResidue, Fair
<1> QED
  BY <1>1, <1>2, <1>3, <1>4, <1>5, <1>6, <1>7 DEF Next

\* The invariant holds throughout.
LEMMA Invariant == Spec => []UserInv
BY InitInv, NextInv, PTL DEF Spec

(***************************************************************************)
(* What it shows.                                                          *)
(***************************************************************************)

\* No transaction of AmmImpl's builders, landing in any order between those of other users,
\* overdraws a token account, leaves tokens in a closed one or spends lamports nobody has.
THEOREM TypeCorrect == Spec => []TypeOK
<1>1. UserInv => TypeOK
  BY DEF UserInv, Sound, TypeOK
<1> QED
  BY <1>1, Invariant, PTL

\* The payer's signature is the only one that swap, deposit, withdraw, lockLiquidity,
\* claimLockFee and createConfig ever ask for; claimLockFee, which names the escrow as the
\* payer of its vault, never has to create that vault.
THEOREM OnlyPayerSignsHolds == Spec => []OnlyPayerSigns
<1>1. UserInv => OnlyPayerSigns
  BY ShapedSigned DEF UserInv, OnlyPayerSigns
<1> QED
  BY <1>1, Invariant, PTL

\* No interleaving of wrapping and unwrapping transactions leaves a user wrapped SOL that it
\* neither had at first nor received as a referrer.
THEOREM NoResidueHolds == Spec => []NoResidue
<1>1. UserInv => NoResidue
  BY DEF UserInv
<1> QED
  BY <1>1, Invariant, PTL

\* Whatever lands, in whatever order, changes the holdings of the caller and of the second
\* party as its builder was asked to, and those of nobody else.
THEOREM DoesWhatWasAskedHolds == Spec => DoesWhatWasAsked
<1> DEFINE A == \A t \in net \ net', w \in Wallets :
                   ledger' # ledger =>
                     LET was == Holdings(ledger, w)
                         is == Holdings(ledger', w)
                     IN  \A k \in DOMAIN was :
                            is[k] - was[k] \in Asked(t, w)[k][1]..Asked(t, w)[k][2]
<1>1. UserInv /\ [Next]_vars => [A]_vars
  <2> SUFFICES ASSUME UserInv, Next PROVE A
    OBVIOUS
  <2>1. \A w \in Wallets : DOMAIN Holdings(ledger, w) = Kinds
    BY DEF Holdings, Kinds
  <2>2. ASSUME ledger' = ledger \/ net \ net' = {} PROVE A
    BY <2>2
  <2>3. ASSUME NEW t \in net, NEW fee \in Fees(t), Land(t, fee) PROVE A
    <3>1. Outcome(ledger, ledger', t)
      BY <2>3, LandOutcome
    <3>2. \A x \in net \ net' : x = t
      BY <2>3 DEF Land
    <3>3. \A v \in Wallets, k \in Kinds :
             Holdings(ledger', v)[k] - Holdings(ledger, v)[k]
                \in Asked(t, v)[k][1] .. Asked(t, v)[k][2]
      BY <3>1 DEF Outcome
    <3> QED
      BY <2>1, <3>2, <3>3
  <2>4. \/ \E t \in net : \E fee \in Fees(t) : Land(t, fee)
        \/ ledger' = ledger \/ net \ net' = {}
    BY DEF Next, Begin, Send, UpdateState, Drop, CloseConfigs
  <2> HIDE DEF A
  <2> QED
    BY <2>2, <2>3, <2>4
<1> QED
  BY <1>1, Invariant, PTL DEF Spec, DoesWhatWasAsked

(***************************************************************************)
(* When a transaction runs: each builder creates what is missing, in an     *)
(* order that leaves its main instruction all the accounts it relies on.    *)
(***************************************************************************)

\* What runs first the one, then the other, runs as one sequence.
LEMMA RunsTwice ==
    ASSUME NEW L, NEW K, NEW M, NEW fee, NEW S, NEW s \in Seq(S), NEW u \in Seq(S),
           Runs(L, s, fee, K), Runs(K, u, fee, M)
    PROVE  Runs(L, s \o u, fee, M)
<1> DEFINE n == Len(s)
           m == Len(u)
           r == s \o u
<1>1. /\ n \in Nat /\ m \in Nat /\ Len(r) = n + m
      /\ \A i \in 1 .. n + m : r[i] = IF i <= n THEN s[i] ELSE u[i - n]
  BY LenProperties, ConcatProperties
<1>2. PICK l : /\ l[0] = L /\ l[n] = K
               /\ \A k \in 1 .. n : /\ Allowed(l[k - 1], s[k], fee)
                                    /\ l[k] = After(l[k - 1], s[k], fee)
  BY DEF Runs
<1>3. PICK q : /\ q[0] = K /\ q[m] = M
               /\ \A k \in 1 .. m : /\ Allowed(q[k - 1], u[k], fee)
                                    /\ q[k] = After(q[k - 1], u[k], fee)
  BY DEF Runs
<1> HIDE DEF n, m, r
<1> DEFINE h == [k \in 0 .. n + m |-> IF k <= n THEN l[k] ELSE q[k - n]]
<1>4. h[0] = L
  BY <1>1, <1>2
<1>5. h[n + m] = M
  <2>1. CASE m = 0
    BY <1>1, <1>2, <1>3, <2>1
  <2>2. CASE m # 0
    <3>1. ~(n + m <= n) /\ (n + m) - n = m /\ n + m \in 0 .. n + m
      BY <1>1, <2>2
    <3> QED
      BY <1>3, <3>1
  <2> QED
    BY <2>1, <2>2
<1>6. ASSUME NEW k \in 1 .. n + m
      PROVE  Allowed(h[k - 1], r[k], fee) /\ h[k] = After(h[k - 1], r[k], fee)
  <2>1. k \in 0 .. n + m /\ k - 1 \in 0 .. n + m
    BY <1>1
  <2>2. CASE k <= n
    <3>1. k \in 1 .. n /\ k - 1 <= n
      BY <1>1, <2>2
    <3>2. h[k - 1] = l[k - 1] /\ h[k] = l[k] /\ r[k] = s[k]
      BY <1>1, <2>1, <2>2, <3>1
    <3> HIDE DEF h
    <3> QED
      BY <1>2, <3>1, <3>2
  <2>3. CASE ~(k <= n)
    <3>1. k - n \in 1 .. m /\ (k - n) - 1 = (k - 1) - n
      BY <1>1, <2>3
    <3>2. h[k] = q[k - n] /\ r[k] = u[k - n]
      BY <1>1, <2>1, <2>3
    <3>3. h[k - 1] = q[(k - n) - 1]
      <4>1. CASE k - 1 <= n
        <5>1. k - 1 = n /\ (k - n) - 1 = 0
          BY <1>1, <2>3, <4>1
        <5> QED
          BY <1>2, <1>3, <2>1, <4>1, <5>1
      <4>2. CASE ~(k - 1 <= n)
        BY <2>1, <3>1, <4>2
      <4> QED
        BY <4>1, <4>2
    <3> HIDE DEF h
    <3> QED
      BY <1>3, <3>1, <3>2, <3>3
  <2> QED
    BY <2>2, <2>3
<1> HIDE DEF h
<1>7. \A k \in 1 .. Len(r) : Allowed(h[k - 1], r[k], fee) /\ h[k] = After(h[k - 1], r[k], fee)
  BY <1>1, <1>6
<1>8. h[Len(r)] = M
  BY <1>1, <1>5
<1>9. Runs(L, r, fee, M)
  BY <1>4, <1>7, <1>8 DEF Runs
<1> QED
  BY <1>9 DEF r

\* An instruction that changes nothing it does not declare, but for the fee payer.
Declares(ix, w, fee) == Changed(ix, fee) \subseteq ix.writable \cup {w}

\* From L to M, instructions paid by w that are allowed and declare what they change.
Works(L, s, fee, M, w) ==
    /\ Runs(L, s, fee, M)
    /\ \E S : s \in Seq(S) /\ \A ix \in S : Declares(ix, w, fee)

\* One after the other.
LEMMA WorksTwice ==
    ASSUME NEW L, NEW K, NEW M, NEW fee, NEW w, NEW s, NEW u,
           Works(L, s, fee, K, w), Works(K, u, fee, M, w)
    PROVE  Works(L, s \o u, fee, M, w)
<1>1. PICK S : s \in Seq(S) /\ \A ix \in S : Declares(ix, w, fee)
  BY DEF Works
<1>2. PICK R : u \in Seq(R) /\ \A ix \in R : Declares(ix, w, fee)
  BY DEF Works
<1> DEFINE U == S \cup R
<1>3. s \in Seq(U) /\ u \in Seq(U)
  BY <1>1, <1>2, SeqWider
<1>4. \A ix \in U : Declares(ix, w, fee)
  BY <1>1, <1>2
<1> HIDE DEF U
<1>5. s \o u \in Seq(U)
  BY <1>3, ConcatProperties
<1>6. Runs(L, s \o u, fee, M)
  BY <1>3, RunsTwice DEF Works
<1> QED
  BY <1>4, <1>5, <1>6 DEF Works

\* One instruction.
LEMMA WorksOne ==
    ASSUME NEW L, NEW fee, NEW w, NEW ix, Allowed(L, ix, fee), Declares(ix, w, fee)
    PROVE  Works(L, <<ix>>, fee, After(L, ix, fee), w)
<1> DEFINE s == <<ix>>
           S == {ix}
           M == After(L, ix, fee)
           l == [k \in 0 .. 1 |-> IF k = 0 THEN L ELSE M]
<1>1. s \in Seq(S) /\ Len(s) = 1 /\ s[1] = ix /\ \A x \in S : x = ix
  OBVIOUS
<1>2. l[0] = L /\ l[1] = M
  OBVIOUS
<1> HIDE DEF l, s, S
<1>3. \A k \in 1 .. 1 : Allowed(l[k - 1], s[k], fee) /\ l[k] = After(l[k - 1], s[k], fee)
  <2>1. \A k \in 1 .. 1 : k = 1 /\ k - 1 = 0
    OBVIOUS
  <2> QED
    BY <1>1, <1>2, <2>1
<1> HIDE DEF M
<1>4. Runs(L, s, fee, M)
  BY <1>1, <1>2, <1>3 DEF Runs
<1>5. Works(L, s, fee, M, w)
  BY <1>1, <1>4 DEF Works
<1> QED
  BY <1>5 DEF s, M

\* No instruction at all.
LEMMA WorksNone ==
    ASSUME NEW L, NEW fee, NEW w
    PROVE  Works(L, <<>>, fee, L, w)
<1> DEFINE s == <<>>
           S == {}
           l == [k \in 0 .. 0 |-> L]
<1>1. s \in Seq(S) /\ Len(s) = 0 /\ \A x \in S : FALSE
  OBVIOUS
<1>2. l[0] = L /\ \A k \in 1 .. 0 : FALSE
  OBVIOUS
<1> HIDE DEF l, s, S
<1>3. Runs(L, s, fee, L)
  BY <1>1, <1>2 DEF Runs
<1>4. Works(L, s, fee, L, w)
  BY <1>1, <1>3 DEF Works
<1> QED
  BY <1>4 DEF s

\* A transaction whose instructions work, and that asks for no other signature, is executed.
LEMMA WorksLands ==
    ASSUME NEW L, NEW M, NEW t, NEW fee, Works(L, t.ixs, fee, M, t.payer),
           UNION {ix.signers : ix \in Range(t.ixs)} = {t.payer}
    PROVE  Executed(L, t, fee).ok
<1> DEFINE s == t.ixs
           w == t.payer
<1>1. PICK S : s \in Seq(S) /\ \A ix \in S : Declares(ix, w, fee)
  BY DEF Works
<1>2. Len(s) \in Nat /\ DOMAIN s = 1 .. Len(s) /\ \A i \in 1 .. Len(s) : s[i] \in S
  BY <1>1, LenProperties, ElementOfSeq
<1>3. \A ix \in Range(s) : Declares(ix, w, fee)
  BY <1>1, <1>2 DEF Range
<1> DEFINE X == Range(s)
<1>4. UNION {ix.signers : ix \in X} \subseteq {w}
  OBVIOUS
<1> HIDE DEF X, s, w
<1>5. UNION {Changed(ix, fee) : ix \in X} \subseteq (UNION {ix.writable : ix \in X}) \cup {w}
  <2> SUFFICES ASSUME NEW ix \in X, NEW a \in Changed(ix, fee)
               PROVE  a \in (UNION {y.writable : y \in X}) \cup {w}
    OBVIOUS
  <2>1. a \in ix.writable \cup {w}
    BY <1>3 DEF Declares, X
  <2>2. \A b \in ix.writable : b \in UNION {y.writable : y \in X}
    OBVIOUS
  <2> QED
    BY <2>1, <2>2
<1>6. Accepted(t, fee)
  BY <1>4, <1>5 DEF Accepted, X, s, w
<1>7. Len(t.ixs) \in Nat /\ Runs(L, t.ixs, fee, M)
  BY <1>2 DEF Works, s
<1> QED
  BY <1>6, <1>7, RunsExecuted

\* The supply is that of the accounts for LP tokens.
LEMMA SameSupply ==
    ASSUME NEW K, NEW L, \A a \in LpAccounts : K.holds[a] = L.holds[a]
    PROVE  Supply(K) = Supply(L)
<1> DEFINE c(s) == CHOOSE x \in s : TRUE
<1>1. \A s \in SUBSET LpAccounts : s # {} => c(s) \in LpAccounts
  OBVIOUS
<1>2. \A it : it = [s \in SUBSET LpAccounts |->
                      IF s = {} THEN 0 ELSE K.holds[c(s)] + it[s \ {c(s)}]]
              <=> it = [s \in SUBSET LpAccounts |->
                          IF s = {} THEN 0 ELSE L.holds[c(s)] + it[s \ {c(s)}]]
  <2> SUFFICES ASSUME NEW it
               PROVE  [s \in SUBSET LpAccounts |->
                         IF s = {} THEN 0 ELSE K.holds[c(s)] + it[s \ {c(s)}]]
                      = [s \in SUBSET LpAccounts |->
                           IF s = {} THEN 0 ELSE L.holds[c(s)] + it[s \ {c(s)}]]
    OBVIOUS
  <2> HIDE DEF c
  <2> QED
    BY <1>1
<1> DEFINE P(it) == it = [s \in SUBSET LpAccounts |->
                      IF s = {} THEN 0 ELSE K.holds[c(s)] + it[s \ {c(s)}]]
           Q(it) == it = [s \in SUBSET LpAccounts |->
                      IF s = {} THEN 0 ELSE L.holds[c(s)] + it[s \ {c(s)}]]
<1>3. \A it : P(it) <=> Q(it)
  BY <1>2
<1>4. Supply(K) = (CHOOSE it : P(it))[LpAccounts]
  BY Zenon DEF Supply, FoldFunctionOnSet, MapThenFoldSet
<1>5. Supply(L) = (CHOOSE it : Q(it))[LpAccounts]
  BY Zenon DEF Supply, FoldFunctionOnSet, MapThenFoldSet
<1> HIDE DEF P, Q
<1>6. (CHOOSE it : P(it)) = (CHOOSE it : Q(it))
  BY <1>3, Zenon
<1> QED
  BY <1>4, <1>5, <1>6

\* The pool's own accounts that an instruction changes are declared.
DeclaresPool(ix) ==
    MovesLiquidity(ix) =>
        {<<r>> : r \in (Idl!VaultRoles \cup {"lpMint"}) \cap DOMAIN ix.acc} \subseteq ix.writable

\* All the accounts of an instruction of the program, with the flags of the IDL.
LEMMA BindAccounts ==
    ASSUME NEW op, NEW own, NEW n, NEW remaining, NEW W, NEW R, NEW S,
           Idl!AmmInstructions[op] = Idl!Instruction(W, R, S),
           \/ op = "lock" \/ "aVaultLp" \notin W \cup R
           \/ \A r \in (Idl!VaultRoles \cup {"lpMint"}) \cap (W \cup R) : r \in W /\ r \notin DOMAIN own,
           NEW ix, ix = Bind(op, own, n, remaining)
    PROVE  /\ DOMAIN ix.acc = W \cup R
           /\ \A r \in (W \cup R) \cap DOMAIN own : ix.acc[r] = own[r]
           /\ \A r \in W : ix.acc[r] \in ix.writable
           /\ remaining \subseteq ix.writable
           /\ DeclaresPool(ix)
<1> DEFINE i == Idl!Instruction(W, R, S)
           acc == [r \in W \cup R |-> IF r \in DOMAIN own THEN own[r] ELSE <<r>>]
<1>1. i.writable = W /\ Idl!Roles(i) = W \cup R
  BY DEF Idl!Instruction, Idl!Roles
<1>2. Idl!Bound(op, own).acc = acc /\ Idl!Bound(op, own).writable = {acc[r] : r \in W}
  <2>1. Idl!AmmInstructions[op] = i
    OBVIOUS
  <2> HIDE DEF i
  <2> QED
    BY <1>1, <2>1 DEF Idl!Bound
<1>3. ix.op = op /\ ix.acc = Idl!Bound(op, own).acc
      /\ ix.writable = Idl!Bound(op, own).writable \cup remaining
  BY DEF Bind
<1>4. /\ DOMAIN acc = W \cup R
      /\ \A r \in (W \cup R) \cap DOMAIN own : acc[r] = own[r]
      /\ \A r \in (W \cup R) \ DOMAIN own : acc[r] = <<r>>
  OBVIOUS
<1> HIDE DEF acc
<1>5. ix.acc = acc /\ ix.writable = {acc[r] : r \in W} \cup remaining
  BY <1>2, <1>3
<1>6. \A r \in W : ix.acc[r] \in ix.writable
  BY <1>5
<1>7. DeclaresPool(ix)
  <2> SUFFICES ASSUME MovesLiquidity(ix),
                      NEW r \in (Idl!VaultRoles \cup {"lpMint"}) \cap DOMAIN ix.acc
               PROVE  <<r>> \in ix.writable
    BY DEF DeclaresPool
  <2>1. op # "lock" /\ "aVaultLp" \in W \cup R
    BY <1>3, <1>4, <1>5 DEF MovesLiquidity
  <2>2. r \in W /\ r \notin DOMAIN own
    BY <1>4, <1>5, <2>1
  <2>3. ix.acc[r] = <<r>>
    BY <1>4, <1>5, <2>2
  <2> QED
    BY <1>6, <2>2, <2>3
<1> QED
  BY <1>4, <1>5, <1>6, <1>7

\* When an instruction that moves tokens is allowed, and what it declares.
LEMMA MainReady ==
    ASSUME NEW K, NEW ix, NEW fee, NEW w, ix.op \notin NoMoveOps,
           \A a \in DOMAIN Takes(ix, fee) :
              a \in K.open /\ a \in ix.writable /\ K.holds[a] >= Takes(ix, fee)[a] /\ MayTake(ix, a),
           \A a \in DOMAIN Gives(ix, fee) : a \in K.open /\ a \in ix.writable,
           ix.op \in {"lock", "claimFee"} =>
              /\ ix.acc.lockEscrow \in K.open /\ ix.acc.sourceTokens \in K.open
              /\ ix.acc.lockEscrow \in ix.writable,
           ix.op = "bootstrapLiquidity" => Supply(K) = 0,
           ix.op \in {"addBalanceLiquidity", "addImbalanceLiquidity"} => Supply(K) > 0,
           RightAccounts(ix), DeclaresPool(ix)
    PROVE  Allowed(K, ix, fee) /\ Declares(ix, w, fee)
<1>1. /\ ix.op # "wrap" /\ ix.op # "closeAta" /\ ix.op # "createAta"
      /\ ix.op # "createLockEscrow" /\ ix.op # "createConfig"
  BY DEF NoMoveOps, QuietOps
<1>2. Opens(ix) = {}
  BY <1>1, Zenon DEF Opens
<1>3. Closes(ix) = {}
  BY <1>1 DEF Closes
<1>4. Covers(K, ix, fee)
  BY DEF Covers
<1>5. Allowed(K, ix, fee)
  BY <1>1, <1>2, <1>3, <1>4 DEF Allowed
<1>6. Declares(ix, w, fee)
  BY <1>1, <1>2, <1>3 DEF Declares, Changed, DeclaresPool
<1> QED
  BY <1>5, <1>6

\* What an instruction takes from, and gives to, one account or two.
LEMMA OfDomains ==
    /\ \A a, n : DOMAIN Of(a, n) = {a} /\ Of(a, n)[a] = n
    /\ \A a, n, b, m : /\ DOMAIN OfBoth(a, n, b, m) = {a, b}
                       /\ OfBoth(a, n, b, m)[a] = n
                       /\ a # b => OfBoth(a, n, b, m)[b] = m
BY DEF Of, OfBoth

\* A swap works when both accounts are open, the referrer's too, and one holds what goes in.
LEMMA SwapReady ==
    ASSUME NEW K, NEW w \in Wallets, NEW side \in {"A", "SOL"}, NEW who \in Wallets \cup {NoCall},
           Ata(w, "A") \in K.open, Ata(w, "SOL") \in K.open,
           who \in Wallets => Ata(who, side) \in K.open,
           K.holds[Ata(w, side)] >= AmountIn,
           NEW fee, NEW ix, ix = SwapIx(w, side, who)
    PROVE  Allowed(K, ix, fee) /\ Declares(ix, w, fee)
<1> DEFINE s == Ata(w, side)
           d == Ata(w, Other(side))
           p == <<"protocolTokenFee", side>>
           rem == IF who = NoCall THEN {} ELSE {Ata(who, side)}
           own == [userSourceToken |-> s, userDestinationToken |-> d,
                   protocolTokenFee |-> p, user |-> w]
           W == {"pool", "userSourceToken", "userDestinationToken", "protocolTokenFee"}
                    \cup Idl!VaultRoles
           R == {"user"} \cup Idl!Programs
<1>1. ix = Bind("swap", own, AmountIn, rem)
  BY DEF SwapIx
<1>2. /\ ix.op = "swap" /\ ix.n = AmountIn /\ ix.remaining = rem /\ ix.signers = {w}
      /\ ix.acc.userSourceToken = s /\ ix.acc.userDestinationToken = d
  BY <1>1, SwapBound
<1>3. Idl!AmmInstructions["swap"] = Idl!Instruction(W, R, {"user"})
  BY DEF Idl!AmmInstructions, Idl!Swap
<1>4. /\ DOMAIN own = {"userSourceToken", "userDestinationToken", "protocolTokenFee", "user"}
      /\ own["protocolTokenFee"] = p
  OBVIOUS
<1>5. \A r \in (Idl!VaultRoles \cup {"lpMint"}) \cap (W \cup R) : r \in W /\ r \notin DOMAIN own
  BY <1>4 DEF Idl!VaultRoles, Idl!Programs
<1>6. /\ "userSourceToken" \in W /\ "userDestinationToken" \in W /\ "protocolTokenFee" \in W
      /\ "userAToken" \notin W \cup R /\ "userBToken" \notin W \cup R /\ "userPoolLp" \notin W \cup R
  BY DEF Idl!VaultRoles, Idl!Programs
<1> HIDE DEF own, W, R
<1>7. /\ DOMAIN ix.acc = W \cup R
      /\ \A r \in (W \cup R) \cap DOMAIN own : ix.acc[r] = own[r]
      /\ \A r \in W : ix.acc[r] \in ix.writable
      /\ rem \subseteq ix.writable /\ DeclaresPool(ix)
  BY <1>1, <1>3, <1>5, BindAccounts
<1>8. ix.acc["protocolTokenFee"] = p
  BY <1>4, <1>6, <1>7
<1>9. s \in ix.writable /\ d \in ix.writable
  <2>1. ix.acc["userSourceToken"] \in ix.writable /\ ix.acc["userDestinationToken"] \in ix.writable
    BY <1>6, <1>7
  <2> QED
    BY <1>2, <2>1
<1>10. RightAccounts(ix)
  <2>1. s[3] = side /\ d[3] = Other(side) /\ p[2] = side
    BY DEF Ata
  <2> HIDE DEF s, d, p, rem
  <2> QED
    BY <1>2, <1>6, <1>7, <1>8, <2>1 DEF RightAccounts
<1>11. Takes(ix, fee) = Of(s, AmountIn) /\ DOMAIN Gives(ix, fee) = {d} \cup rem
  BY <1>2, Moves
<1>12. s \in K.open /\ d \in K.open /\ rem \subseteq K.open
  BY DEF Other
<1>13. MayTake(ix, s)
  BY <1>2 DEF MayTake, Ata
<1>14. K.holds[s] >= AmountIn
  OBVIOUS
<1> HIDE DEF s, d, rem
<1>15. ix.op \notin NoMoveOps
  BY <1>2 DEF NoMoveOps, QuietOps
<1>16. DOMAIN Takes(ix, fee) = {s} /\ Takes(ix, fee)[s] = AmountIn
  BY <1>11, OfDomains
<1>17. \A a \in DOMAIN Takes(ix, fee) :
          a \in K.open /\ a \in ix.writable /\ K.holds[a] >= Takes(ix, fee)[a] /\ MayTake(ix, a)
  BY <1>9, <1>12, <1>13, <1>14, <1>16
<1>18. \A a \in DOMAIN Gives(ix, fee) : a \in K.open /\ a \in ix.writable
  BY <1>7, <1>9, <1>11, <1>12
<1> QED
  BY <1>2, <1>7, <1>10, <1>15, <1>17, <1>18, MainReady

\* The instructions for both tokens name the accounts the program expects.
LEMMA BothAccounts ==
    ASSUME NEW w, NEW op \in BothOps, NEW n, NEW ix, ix = Bind(op, UserRoles(w), n, {})
    PROVE  /\ RightAccounts(ix) /\ DeclaresPool(ix)
           /\ \A m \in {"A", "SOL", "LP"} : Ata(w, m) \in ix.writable /\ MayTake(ix, Ata(w, m))
<1> DEFINE own == UserRoles(w)
           W == {"pool", "lpMint", "userPoolLp", "userAToken", "userBToken"} \cup Idl!VaultRoles
           R == {"user"} \cup Idl!Programs
<1>1. /\ ix.op = op /\ ix.signers = {w}
      /\ ix.acc.userAToken = Ata(w, "A") /\ ix.acc.userBToken = Ata(w, "SOL")
      /\ ix.acc.userPoolLp = Ata(w, "LP")
  BY BothBound
<1>2. Idl!AmmInstructions[op] = Idl!Instruction(W, R, {"user"})
  BY DEF BothOps, Idl!AmmInstructions, Idl!AddBalanceLiquidity, Idl!AddImbalanceLiquidity,
         Idl!BootstrapLiquidity, Idl!RemoveBalanceLiquidity, Idl!BothTokens
<1>3. DOMAIN own = {"userAToken", "userBToken", "userPoolLp", "user"}
  BY DEF UserRoles
<1>4. \A r \in (Idl!VaultRoles \cup {"lpMint"}) \cap (W \cup R) : r \in W /\ r \notin DOMAIN own
  BY <1>3 DEF Idl!VaultRoles, Idl!Programs
<1>5. "userAToken" \in W /\ "userBToken" \in W /\ "userPoolLp" \in W
  OBVIOUS
<1> DEFINE e == {}
<1>6. ix = Bind(op, own, n, e)
  OBVIOUS
<1> HIDE DEF own, W, R, e
<1>7. (\A r \in W : ix.acc[r] \in ix.writable) /\ DeclaresPool(ix)
  BY <1>2, <1>4, <1>6, BindAccounts
<1>8. ix.acc["userAToken"] \in ix.writable /\ ix.acc["userBToken"] \in ix.writable
      /\ ix.acc["userPoolLp"] \in ix.writable
  BY <1>5, <1>7
<1>9. Ata(w, "A") \in ix.writable /\ Ata(w, "SOL") \in ix.writable /\ Ata(w, "LP") \in ix.writable
  BY <1>1, <1>8
<1>10. \A m : Ata(w, m)[2] = w /\ Ata(w, m)[3] = m
  BY DEF Ata
<1>11. RightAccounts(ix)
  <2>1. /\ ix.op # "swap" /\ ix.op # "lock" /\ ix.op # "claimFee" /\ ix.op # "createLockEscrow"
    BY <1>1 DEF BothOps
  <2> QED
    BY <1>1, <1>10, <2>1 DEF RightAccounts
<1>12. \A m : MayTake(ix, Ata(w, m))
  BY <1>1, <1>10 DEF MayTake
<1> QED
  BY <1>7, <1>9, <1>11, <1>12

\* A deposit works when the accounts are open, those it takes from hold what is asked, and
\* the method suits a pool with or without LP tokens.
LEMMA DepositReady ==
    ASSUME NEW K, NEW w \in Wallets, NEW c, NEW op \in DepositOps,
           Ata(w, "A") \in K.open, Ata(w, "SOL") \in K.open, Ata(w, "LP") \in K.open,
           K.holds[Ata(w, "A")] \in Nat, K.holds[Ata(w, "SOL")] \in Nat,
           K.holds[Ata(w, "A")] >= AskedIn(c, "A"), K.holds[Ata(w, "SOL")] >= AskedIn(c, "SOL"),
           op = "addBalanceLiquidity" => c.sides = "both",
           op = "bootstrapLiquidity" => Supply(K) = 0,
           op # "bootstrapLiquidity" => Supply(K) > 0,
           NEW fee, NEW ix, ix = DepositIx(w, c, op)
    PROVE  Allowed(K, ix, fee) /\ Declares(ix, w, fee)
<1> DEFINE n == [A |-> AskedIn(c, "A"), SOL |-> AskedIn(c, "SOL")]
           a == Ata(w, "A")
           b == Ata(w, "SOL")
           l == Ata(w, "LP")
<1>1. op \in BothOps /\ ix = Bind(op, UserRoles(w), n, {})
  BY DEF DepositIx, BothOps, DepositOps
<1>2. n.A = AskedIn(c, "A") /\ n.SOL = AskedIn(c, "SOL")
  OBVIOUS
<1> HIDE DEF n
<1>3. /\ ix.op = op /\ ix.n = n
      /\ ix.acc.userAToken = a /\ ix.acc.userBToken = b /\ ix.acc.userPoolLp = l
  BY <1>1, BothBound
<1>4. /\ RightAccounts(ix) /\ DeclaresPool(ix)
      /\ \A m \in {"A", "SOL", "LP"} : Ata(w, m) \in ix.writable /\ MayTake(ix, Ata(w, m))
  BY <1>1, BothAccounts
<1>5. a # b
  BY AtaEqual
<1>6. /\ a \in K.open /\ a \in ix.writable /\ MayTake(ix, a)
      /\ b \in K.open /\ b \in ix.writable /\ MayTake(ix, b)
      /\ l \in K.open /\ l \in ix.writable
      /\ K.holds[a] >= AskedIn(c, "A") /\ K.holds[b] >= AskedIn(c, "SOL")
      /\ K.holds[a] \in Nat /\ K.holds[b] \in Nat
  BY <1>4
<1> HIDE DEF a, b, l
<1>7. PICK i, j : /\ Takes(ix, fee) = OfBoth(a, i, b, j) /\ Gives(ix, fee) = Of(l, LpAmount)
                  /\ K.holds[a] >= i /\ K.holds[b] >= j
  <2>1. CASE op = "addBalanceLiquidity"
    <3>1. AskedIn(c, "A") = 2 /\ AskedIn(c, "SOL") = 2
      BY <2>1 DEF AskedIn, AmountIn
    <3>2. K.holds[a] >= 1 /\ K.holds[b] >= 1
      BY <1>6, <3>1
    <3>3. ix.op = "addBalanceLiquidity"
      BY <1>3, <2>1
    <3>4. /\ Takes(ix, fee) = OfBoth(ix.acc.userAToken, 1, ix.acc.userBToken, 1)
          /\ Gives(ix, fee) = Of(ix.acc.userPoolLp, LpAmount)
      BY <3>3, Moves
    <3> QED
      BY <1>3, <3>2, <3>4
  <2>2. CASE op # "addBalanceLiquidity"
    <3>1. ix.op \in {"bootstrapLiquidity", "addImbalanceLiquidity"}
      BY <1>3, <2>2 DEF DepositOps
    <3>2. /\ Takes(ix, fee) = OfBoth(ix.acc.userAToken, ix.n.A, ix.acc.userBToken, ix.n.SOL)
          /\ Gives(ix, fee) = Of(ix.acc.userPoolLp, LpAmount)
      BY <3>1, Moves
    <3> QED
      BY <1>2, <1>3, <1>6, <3>2
  <2> QED
    BY <2>1, <2>2
<1>8. /\ DOMAIN Takes(ix, fee) = {a, b} /\ Takes(ix, fee)[a] = i /\ Takes(ix, fee)[b] = j
      /\ DOMAIN Gives(ix, fee) = {l}
  BY <1>5, <1>7 DEF Of, OfBoth
<1>9. \A x \in DOMAIN Takes(ix, fee) :
         x \in K.open /\ x \in ix.writable /\ K.holds[x] >= Takes(ix, fee)[x] /\ MayTake(ix, x)
  BY <1>6, <1>7, <1>8
<1>10. \A x \in DOMAIN Gives(ix, fee) : x \in K.open /\ x \in ix.writable
  BY <1>6, <1>8
<1>11. /\ ix.op \notin NoMoveOps /\ ix.op # "lock" /\ ix.op # "claimFee"
       /\ ix.op = "bootstrapLiquidity" => Supply(K) = 0
       /\ ix.op \in {"addBalanceLiquidity", "addImbalanceLiquidity"} => Supply(K) > 0
  BY <1>3 DEF DepositOps, NoMoveOps, QuietOps
<1> QED
  BY <1>4, <1>9, <1>10, <1>11, MainReady

\* A withdrawal of both tokens works when the accounts are open and there are LP tokens.
LEMMA WithdrawBothReady ==
    ASSUME NEW K, NEW w \in Wallets,
           Ata(w, "A") \in K.open, Ata(w, "SOL") \in K.open, Ata(w, "LP") \in K.open,
           K.holds[Ata(w, "LP")] >= LpAmount,
           NEW fee, NEW ix, ix = WithdrawBothIx(w)
    PROVE  Allowed(K, ix, fee) /\ Declares(ix, w, fee)
<1> DEFINE op == "removeBalanceLiquidity"
           a == Ata(w, "A")
           b == Ata(w, "SOL")
           l == Ata(w, "LP")
<1>1. op \in BothOps /\ ix = Bind(op, UserRoles(w), LpAmount, {})
  BY DEF WithdrawBothIx, BothOps
<1> HIDE DEF op
<1>2. /\ ix.op = op /\ ix.n = LpAmount
      /\ ix.acc.userAToken = a /\ ix.acc.userBToken = b /\ ix.acc.userPoolLp = l
  BY <1>1, BothBound
<1>3. /\ RightAccounts(ix) /\ DeclaresPool(ix)
      /\ \A m \in {"A", "SOL", "LP"} : Ata(w, m) \in ix.writable /\ MayTake(ix, Ata(w, m))
  BY <1>1, BothAccounts
<1>4. /\ a \in K.open /\ a \in ix.writable /\ b \in K.open /\ b \in ix.writable
      /\ l \in K.open /\ l \in ix.writable /\ MayTake(ix, l) /\ K.holds[l] >= LpAmount
  BY <1>3
<1> HIDE DEF a, b, l
<1>5. Takes(ix, fee) = Of(l, LpAmount) /\ Gives(ix, fee) = OfBoth(a, 1, b, 1)
  <2>1. ix.op = "removeBalanceLiquidity"
    BY <1>2 DEF op
  <2>2. /\ Takes(ix, fee) = Of(ix.acc.userPoolLp, ix.n)
        /\ Gives(ix, fee) = OfBoth(ix.acc.userAToken, 1, ix.acc.userBToken, 1)
    BY <2>1, Moves
  <2> QED
    BY <1>2, <2>2
<1>6. /\ DOMAIN Takes(ix, fee) = {l} /\ Takes(ix, fee)[l] = LpAmount
      /\ DOMAIN Gives(ix, fee) = {a, b}
  BY <1>5 DEF Of, OfBoth
<1>7. \A x \in DOMAIN Takes(ix, fee) :
         x \in K.open /\ x \in ix.writable /\ K.holds[x] >= Takes(ix, fee)[x] /\ MayTake(ix, x)
  BY <1>4, <1>6
<1>8. \A x \in DOMAIN Gives(ix, fee) : x \in K.open /\ x \in ix.writable
  BY <1>4, <1>6
<1>9. ix.op \notin NoMoveOps /\ ix.op = "removeBalanceLiquidity"
  BY <1>2 DEF op, NoMoveOps, QuietOps
<1> QED
  BY <1>3, <1>7, <1>8, <1>9, MainReady

\* So does a withdrawal of one side, which only needs the account of that side.
LEMMA WithdrawOneReady ==
    ASSUME NEW K, NEW w \in Wallets, NEW side \in {"A", "SOL"},
           Ata(w, side) \in K.open, Ata(w, "LP") \in K.open,
           K.holds[Ata(w, "LP")] >= LpAmount,
           NEW fee, NEW ix, ix = WithdrawOneIx(w, side)
    PROVE  Allowed(K, ix, fee) /\ Declares(ix, w, fee)
<1> DEFINE d == Ata(w, side)
           l == Ata(w, "LP")
           own == [userDestinationToken |-> d, userPoolLp |-> l, user |-> w]
           W == {"pool", "lpMint", "userPoolLp", "userDestinationToken"} \cup Idl!VaultRoles
           R == {"user"} \cup Idl!Programs
           e == {}
           o == "removeLiquiditySingleSide"
<1>1. ix = Bind(o, own, LpAmount, e)
  BY DEF WithdrawOneIx
<1>2. /\ ix.op = "removeLiquiditySingleSide" /\ ix.n = LpAmount /\ ix.signers = {w}
      /\ ix.acc.userDestinationToken = d /\ ix.acc.userPoolLp = l
  BY SingleBound DEF WithdrawOneIx
<1>3. Idl!AmmInstructions[o] = Idl!Instruction(W, R, {"user"})
  BY DEF Idl!AmmInstructions, Idl!RemoveLiquiditySingleSide
<1>4. DOMAIN own = {"userDestinationToken", "userPoolLp", "user"}
  OBVIOUS
<1>5. \A r \in (Idl!VaultRoles \cup {"lpMint"}) \cap (W \cup R) : r \in W /\ r \notin DOMAIN own
  BY <1>4 DEF Idl!VaultRoles, Idl!Programs
<1>6. /\ "userDestinationToken" \in W /\ "userPoolLp" \in W
      /\ "userAToken" \notin W \cup R /\ "userBToken" \notin W \cup R
  BY DEF Idl!VaultRoles, Idl!Programs
<1> HIDE DEF own, W, R, e, o
<1>7. DOMAIN ix.acc = W \cup R /\ (\A r \in W : ix.acc[r] \in ix.writable) /\ DeclaresPool(ix)
  BY <1>1, <1>3, <1>5, BindAccounts
<1>8. d \in ix.writable /\ l \in ix.writable
  <2>1. ix.acc["userDestinationToken"] \in ix.writable /\ ix.acc["userPoolLp"] \in ix.writable
    BY <1>6, <1>7
  <2> QED
    BY <1>2, <2>1
<1>9. l[3] = "LP" /\ l[2] = w
  BY DEF Ata
<1>10. l \in K.open /\ d \in K.open /\ K.holds[l] >= LpAmount
  OBVIOUS
<1> HIDE DEF l, d
<1>11. RightAccounts(ix)
  BY <1>2, <1>6, <1>7, <1>9 DEF RightAccounts
<1>12. MayTake(ix, l)
  BY <1>2, <1>9 DEF MayTake
<1>13. Takes(ix, fee) = Of(l, LpAmount) /\ Gives(ix, fee) = Of(d, 2)
  BY <1>2, Moves
<1>14. /\ DOMAIN Takes(ix, fee) = {l} /\ Takes(ix, fee)[l] = LpAmount
       /\ DOMAIN Gives(ix, fee) = {d}
  BY <1>13, OfDomains
<1>15. \A x \in DOMAIN Takes(ix, fee) :
          x \in K.open /\ x \in ix.writable /\ K.holds[x] >= Takes(ix, fee)[x] /\ MayTake(ix, x)
  BY <1>8, <1>10, <1>12, <1>14
<1>16. \A x \in DOMAIN Gives(ix, fee) : x \in K.open /\ x \in ix.writable
  BY <1>8, <1>10, <1>14
<1>17. ix.op \notin NoMoveOps
  BY <1>2 DEF NoMoveOps, QuietOps
<1> QED
  BY <1>2, <1>7, <1>11, <1>15, <1>16, <1>17, MainReady

\* A lock works when its escrow, the vault and the tokens' account are open, and there are
\* tokens to be locked.
LEMMA LockReady ==
    ASSUME NEW K, NEW w \in Wallets, NEW u \in Wallets,
           EscrowOf(u) \in K.open, Ata(EscrowOf(u), "LP") \in K.open, Ata(w, "LP") \in K.open,
           K.holds[Ata(w, "LP")] >= LpAmount,
           NEW fee, NEW ix, ix = LockIx(w, u)
    PROVE  Allowed(K, ix, fee) /\ Declares(ix, w, fee)
<1> DEFINE k == EscrowOf(u)
           s == Ata(w, "LP")
           d == Ata(EscrowOf(u), "LP")
           own == [lockEscrow |-> k, owner |-> w, sourceTokens |-> s, escrowVault |-> d]
           W == {"pool", "lockEscrow", "owner", "sourceTokens", "escrowVault"}
           R == {"lpMint", "tokenProgram"} \cup (Idl!VaultRoles \ {"aTokenVault", "bTokenVault"})
           e == {}
           o == "lock"
<1>1. ix = Bind(o, own, LpAmount, e) /\ o = "lock"
  BY DEF LockIx
<1>2. /\ ix.op = "lock" /\ ix.n = LpAmount /\ ix.signers = {w}
      /\ ix.acc.lockEscrow = k /\ ix.acc.sourceTokens = s /\ ix.acc.escrowVault = d
  BY LockBound DEF LockIx
<1>3. Idl!AmmInstructions[o] = Idl!Instruction(W, R, {"owner"})
  BY DEF Idl!AmmInstructions, Idl!Lock
<1>4. /\ "lockEscrow" \in W /\ "sourceTokens" \in W /\ "escrowVault" \in W
      /\ "userAToken" \notin W \cup R /\ "userBToken" \notin W \cup R /\ "userPoolLp" \notin W \cup R
  BY DEF Idl!VaultRoles
<1> HIDE DEF own, W, R, e, o
<1>5. DOMAIN ix.acc = W \cup R /\ (\A r \in W : ix.acc[r] \in ix.writable) /\ DeclaresPool(ix)
  BY <1>1, <1>3, BindAccounts
<1>6. k \in ix.writable /\ s \in ix.writable /\ d \in ix.writable
  <2>1. ix.acc["lockEscrow"] \in ix.writable /\ ix.acc["sourceTokens"] \in ix.writable
        /\ ix.acc["escrowVault"] \in ix.writable
    BY <1>4, <1>5
  <2> QED
    BY <1>2, <2>1
<1>7. s[2] = w /\ d = Ata(k, "LP")
  BY DEF Ata
<1>8. k \in K.open /\ s \in K.open /\ d \in K.open /\ K.holds[s] >= LpAmount
  OBVIOUS
<1> HIDE DEF k, s, d
<1>9. RightAccounts(ix)
  BY <1>2, <1>4, <1>5, <1>7 DEF RightAccounts
<1>10. MayTake(ix, s)
  BY <1>2, <1>7 DEF MayTake
<1>11. Takes(ix, fee) = Of(s, LpAmount) /\ Gives(ix, fee) = Of(d, LpAmount)
  <2>1. Takes(ix, fee) = Of(ix.acc.sourceTokens, ix.n) /\ Gives(ix, fee) = Of(ix.acc.escrowVault, ix.n)
    BY <1>2, Moves
  <2> QED
    BY <1>2, <2>1
<1>12. /\ DOMAIN Takes(ix, fee) = {s} /\ Takes(ix, fee)[s] = LpAmount
       /\ DOMAIN Gives(ix, fee) = {d}
  BY <1>11 DEF Of
<1>13. \A x \in DOMAIN Takes(ix, fee) :
          x \in K.open /\ x \in ix.writable /\ K.holds[x] >= Takes(ix, fee)[x] /\ MayTake(ix, x)
  BY <1>6, <1>8, <1>10, <1>12
<1>14. \A x \in DOMAIN Gives(ix, fee) : x \in K.open /\ x \in ix.writable
  BY <1>6, <1>8, <1>12
<1>15. ix.op \notin NoMoveOps
  BY <1>2 DEF NoMoveOps, QuietOps
<1> QED
  BY <1>2, <1>5, <1>6, <1>8, <1>9, <1>13, <1>14, <1>15, MainReady

\* A claim works when its escrow, the vault and the accounts of the owner are open, and the
\* vault holds what the fees amount to.
LEMMA ClaimReady ==
    ASSUME NEW K, NEW w \in Wallets,
           EscrowOf(w) \in K.open, Ata(EscrowOf(w), "LP") \in K.open, Ata(w, "LP") \in K.open,
           Ata(w, "A") \in K.open, Ata(w, "SOL") \in K.open,
           NEW fee, K.holds[Ata(EscrowOf(w), "LP")] >= fee,
           NEW ix, ix = ClaimIx(w)
    PROVE  Allowed(K, ix, fee) /\ Declares(ix, w, fee)
<1> DEFINE k == EscrowOf(w)
           s == Ata(w, "LP")
           d == Ata(EscrowOf(w), "LP")
           a == Ata(w, "A")
           b == Ata(w, "SOL")
           own == [lockEscrow |-> k, owner |-> w, sourceTokens |-> s, escrowVault |-> d,
                   userAToken |-> a, userBToken |-> b]
           W == {"pool", "lpMint", "lockEscrow", "owner", "sourceTokens", "escrowVault",
                 "userAToken", "userBToken"} \cup Idl!VaultRoles
           R == Idl!Programs
           e == {}
           o == "claimFee"
<1>1. ix = Bind(o, own, LpAmount, e)
  BY DEF ClaimIx
<1>2. /\ ix.op = "claimFee" /\ ix.acc.lockEscrow = k /\ ix.acc.escrowVault = d
      /\ ix.acc.userAToken = a /\ ix.acc.userBToken = b
  BY ClaimBound DEF ClaimIx
<1>3. Idl!AmmInstructions[o] = Idl!Instruction(W, R, {"owner"})
  BY DEF Idl!AmmInstructions, Idl!ClaimFee
<1>4. /\ DOMAIN own = {"lockEscrow", "owner", "sourceTokens", "escrowVault", "userAToken",
                       "userBToken"}
      /\ own["owner"] = w /\ own["sourceTokens"] = s
  OBVIOUS
<1>5. \A r \in (Idl!VaultRoles \cup {"lpMint"}) \cap (W \cup R) : r \in W /\ r \notin DOMAIN own
  BY <1>4 DEF Idl!VaultRoles, Idl!Programs
<1>6. /\ "lockEscrow" \in W /\ "owner" \in W /\ "sourceTokens" \in W /\ "escrowVault" \in W
      /\ "userAToken" \in W /\ "userBToken" \in W /\ "userPoolLp" \notin W \cup R
  BY DEF Idl!VaultRoles, Idl!Programs
<1> HIDE DEF own, W, R, e, o
<1>7. /\ DOMAIN ix.acc = W \cup R /\ (\A r \in W : ix.acc[r] \in ix.writable) /\ DeclaresPool(ix)
      /\ \A r \in (W \cup R) \cap DOMAIN own : ix.acc[r] = own[r]
  BY <1>1, <1>3, <1>5, BindAccounts
<1>8. ix.acc["owner"] = w /\ ix.acc["sourceTokens"] = s
  BY <1>4, <1>6, <1>7
<1>9. k \in ix.writable /\ d \in ix.writable /\ a \in ix.writable /\ b \in ix.writable
  <2>1. ix.acc["lockEscrow"] \in ix.writable /\ ix.acc["escrowVault"] \in ix.writable
        /\ ix.acc["userAToken"] \in ix.writable /\ ix.acc["userBToken"] \in ix.writable
    BY <1>6, <1>7
  <2> QED
    BY <1>2, <2>1
<1>10. a[3] = "A" /\ b[3] = "SOL" /\ d = Ata(k, "LP") /\ k = EscrowOf(w)
  BY DEF Ata
<1>11. /\ k \in K.open /\ s \in K.open /\ d \in K.open /\ a \in K.open /\ b \in K.open
       /\ K.holds[d] >= fee
  OBVIOUS
<1> HIDE DEF k, s, d, a, b
<1>12. RightAccounts(ix)
  BY <1>2, <1>6, <1>7, <1>8, <1>10 DEF RightAccounts
<1>13. MayTake(ix, d)
  BY <1>2 DEF MayTake
<1>14. Takes(ix, fee) = Of(d, fee) /\ Gives(ix, fee) = OfBoth(a, fee, b, fee)
  <2>1. ix.op = "claimFee"
    BY <1>2
  <2>2. /\ Takes(ix, fee) = Of(ix.acc.escrowVault, fee)
        /\ Gives(ix, fee) = OfBoth(ix.acc.userAToken, fee, ix.acc.userBToken, fee)
    BY <2>1, Zenon DEF Takes, Gives
  <2> QED
    BY <1>2, <2>2
<1>15. /\ DOMAIN Takes(ix, fee) = {d} /\ Takes(ix, fee)[d] = fee
       /\ DOMAIN Gives(ix, fee) = {a, b}
  BY <1>14 DEF Of, OfBoth
<1>16. \A x \in DOMAIN Takes(ix, fee) :
          x \in K.open /\ x \in ix.writable /\ K.holds[x] >= Takes(ix, fee)[x] /\ MayTake(ix, x)
  BY <1>9, <1>11, <1>13, <1>15
<1>17. \A x \in DOMAIN Gives(ix, fee) : x \in K.open /\ x \in ix.writable
  BY <1>9, <1>11, <1>15
<1>18. ix.op \notin NoMoveOps
  BY <1>2 DEF NoMoveOps, QuietOps
<1>19. ix.acc.lockEscrow \in K.open /\ ix.acc.sourceTokens \in K.open /\ ix.acc.lockEscrow \in ix.writable
  BY <1>2, <1>8, <1>9, <1>11
<1> QED
  BY <1>2, <1>7, <1>12, <1>16, <1>17, <1>18, <1>19, MainReady

\* When an instruction that only opens an account is allowed, and what it declares.
LEMMA QuietReady ==
    ASSUME NEW K, NEW ix, NEW fee, NEW w, ix.op \in QuietOps, NEW a, Opens(ix) = {a},
           a \notin K.open, a \in ix.writable, RightAccounts(ix), DeclaresPool(ix)
    PROVE  Allowed(K, ix, fee) /\ Declares(ix, w, fee)
<1>1. /\ ix.op # "wrap" /\ ix.op # "closeAta" /\ ix.op # "lock" /\ ix.op # "claimFee"
      /\ ix.op # "bootstrapLiquidity" /\ ix.op # "addBalanceLiquidity"
      /\ ix.op # "addImbalanceLiquidity"
  BY DEF QuietOps
<1>2. Closes(ix) = {}
  BY <1>1 DEF Closes
<1>3. Takes(ix, fee) = <<>> /\ Gives(ix, fee) = <<>>
  BY NoMoves DEF NoMoveOps
<1>4. DOMAIN Takes(ix, fee) = {} /\ DOMAIN Gives(ix, fee) = {}
  BY <1>3
<1>5. Covers(K, ix, fee)
  BY <1>4 DEF Covers
<1>6. Allowed(K, ix, fee)
  BY <1>1, <1>2, <1>4, <1>5 DEF Allowed
<1>7. Declares(ix, w, fee)
  BY <1>1, <1>2, <1>4 DEF Declares, Changed, DeclaresPool
<1> QED
  BY <1>6, <1>7

\* The instructions of other programs name no accounts of the pool.
LEMMA NativeAccounts ==
    ASSUME NEW op \in {"createAta", "wrap", "closeAta"}, NEW w, NEW a, NEW n, NEW ix,
           ix = Native(op, [payer |-> w, ata |-> a], n, w)
    PROVE  /\ ix.op = op /\ ix.n = n /\ ix.acc.payer = w /\ ix.acc.ata = a
           /\ a \in ix.writable /\ w \in ix.writable
           /\ RightAccounts(ix) /\ DeclaresPool(ix)
<1> DEFINE acc == [payer |-> w, ata |-> a]
<1>1. DOMAIN acc = {"payer", "ata"} /\ acc.payer = w /\ acc.ata = a
  OBVIOUS
<1>2. ix = Native(op, acc, n, w)
  OBVIOUS
<1> HIDE DEF acc
<1>3. ix.op = op /\ ix.acc = acc /\ ix.n = n /\ ix.writable = {acc.payer, acc.ata}
  BY <1>2 DEF Native
<1>4. /\ "userAToken" \notin DOMAIN ix.acc /\ "userBToken" \notin DOMAIN ix.acc
      /\ "userPoolLp" \notin DOMAIN ix.acc /\ "aVaultLp" \notin DOMAIN ix.acc
  BY <1>1, <1>3
<1>5. RightAccounts(ix) /\ DeclaresPool(ix)
  BY <1>3, <1>4 DEF RightAccounts, DeclaresPool, MovesLiquidity
<1> QED
  BY <1>1, <1>3, <1>5

\* The creation of a lock escrow works while there is none.
LEMMA EscrowReady ==
    ASSUME NEW K, NEW w, NEW u, EscrowOf(u) \notin K.open, NEW fee, NEW ix, ix = NewEscrow(w, u)
    PROVE  /\ Allowed(K, ix, fee) /\ Declares(ix, w, fee)
           /\ ix.op = "createLockEscrow" /\ Opens(ix) = {EscrowOf(u)}
<1> DEFINE k == EscrowOf(u)
           own == [lockEscrow |-> k, owner |-> u, payer |-> w]
           W == {"lockEscrow", "payer"}
           R == {"pool", "owner", "lpMint", "systemProgram"}
           m == 0
           e == {}
           o == "createLockEscrow"
<1>1. ix = Bind(o, own, m, e)
  BY DEF NewEscrow
<1>2. ix.op = "createLockEscrow" /\ ix.acc.lockEscrow = k
  BY EscrowBound DEF NewEscrow
<1>3. Idl!AmmInstructions[o] = Idl!Instruction(W, R, {"payer"})
  BY DEF Idl!AmmInstructions, Idl!CreateLockEscrow
<1>4. /\ DOMAIN own = {"lockEscrow", "owner", "payer"} /\ own["owner"] = u
      /\ "aVaultLp" \notin W \cup R /\ "lockEscrow" \in W /\ "owner" \in W \cup R
      /\ "userAToken" \notin W \cup R /\ "userBToken" \notin W \cup R /\ "userPoolLp" \notin W \cup R
  OBVIOUS
<1> HIDE DEF own, W, R, m, e, o
<1>5. /\ DOMAIN ix.acc = W \cup R /\ (\A r \in W : ix.acc[r] \in ix.writable) /\ DeclaresPool(ix)
      /\ \A r \in (W \cup R) \cap DOMAIN own : ix.acc[r] = own[r]
  BY <1>1, <1>3, <1>4, BindAccounts
<1>6. ix.acc["owner"] = u /\ ix.acc["lockEscrow"] \in ix.writable
  BY <1>4, <1>5
<1>7. Opens(ix) = {k}
  BY <1>2, Zenon DEF Opens
<1>8. RightAccounts(ix)
  BY <1>2, <1>4, <1>5, <1>6 DEF RightAccounts
<1>9. k \notin K.open /\ k \in ix.writable /\ ix.op \in QuietOps
  BY <1>2, <1>6 DEF QuietOps
<1> HIDE DEF k
<1>10. Allowed(K, ix, fee) /\ Declares(ix, w, fee)
  BY <1>5, <1>7, <1>8, <1>9, QuietReady
<1> QED
  BY <1>2, <1>7, <1>10 DEF k

\* The creation of a config works while there is none of that index.
LEMMA ConfigReady ==
    ASSUME NEW K, NEW w, NEW i, ConfigAt(i) \notin K.open, NEW fee, NEW ix, ix = ConfigIx(w, i)
    PROVE  Allowed(K, ix, fee) /\ Declares(ix, w, fee)
<1> DEFINE k == ConfigAt(i)
           own == [config |-> k, admin |-> w]
           W == {"config", "admin"}
           R == {"systemProgram"}
           m == 0
           e == {}
           o == "createConfig"
<1>1. ix = Bind(o, own, m, e)
  BY DEF ConfigIx
<1>2. ix.op = "createConfig" /\ ix.acc.config = k
  BY ConfigBound DEF ConfigIx
<1>3. Idl!AmmInstructions[o] = Idl!Instruction(W, R, {"admin"})
  BY DEF Idl!AmmInstructions, Idl!CreateConfig
<1>4. /\ "aVaultLp" \notin W \cup R /\ "config" \in W
      /\ "userAToken" \notin W \cup R /\ "userBToken" \notin W \cup R /\ "userPoolLp" \notin W \cup R
  OBVIOUS
<1> HIDE DEF own, W, R, m, e, o
<1>5. DOMAIN ix.acc = W \cup R /\ (\A r \in W : ix.acc[r] \in ix.writable) /\ DeclaresPool(ix)
  BY <1>1, <1>3, <1>4, BindAccounts
<1>6. ix.acc["config"] \in ix.writable
  BY <1>4, <1>5
<1>7. Opens(ix) = {k}
  BY <1>2, Zenon DEF Opens
<1>8. RightAccounts(ix)
  BY <1>2, <1>4, <1>5 DEF RightAccounts
<1>9. k \notin K.open /\ k \in ix.writable /\ ix.op \in QuietOps
  BY <1>2, <1>6 DEF QuietOps
<1> HIDE DEF k
<1> QED
  BY <1>5, <1>7, <1>8, <1>9, QuietReady

\* From K to M, nothing but the accounts of X has been opened.
Opened(K, M, X) ==
    Sound(M) /\ M.open = K.open \cup X /\ M.holds = K.holds /\ M.lamports = K.lamports

\* An instruction that only opens an account does just that.
LEMMA QuietOpens ==
    ASSUME NEW K, Sound(K), NEW fee, NEW w, NEW ix, ix.op \in QuietOps, NEW a, Opens(ix) = {a},
           Allowed(K, ix, fee), Declares(ix, w, fee)
    PROVE  \E M : Works(K, <<ix>>, fee, M, w) /\ Opened(K, M, {a})
<1> DEFINE M == After(K, ix, fee)
<1>1. Works(K, <<ix>>, fee, M, w)
  BY WorksOne
<1>2. Takes(ix, fee) = <<>> /\ Gives(ix, fee) = <<>>
  BY NoMoves DEF NoMoveOps
<1>3. Proper(ix, fee)
  BY <1>2 DEF Proper, QuietOps
<1>4. Sound(M)
  BY <1>3, AfterSound
<1>5. M.holds = K.holds /\ M.lamports = K.lamports /\ M.open = K.open \cup {a}
  BY QuietEffect
<1> HIDE DEF M
<1> QED
  BY <1>1, <1>4, <1>5 DEF Opened

\* An account that is missing exactly if the builder has found it missing is created.
LEMMA MissingWorks ==
    ASSUME NEW K, Sound(K), NEW fee, NEW w, NEW a, NEW seen, a \in seen <=> a \in K.open
    PROVE  \E M : Works(K, IfMissing(seen, w, a), fee, M, w) /\ Opened(K, M, {a})
<1>1. CASE a \in seen
  <2>1. IfMissing(seen, w, a) = <<>> /\ K.open = K.open \cup {a}
    BY <1>1 DEF IfMissing
  <2>2. Works(K, <<>>, fee, K, w)
    BY WorksNone
  <2> QED
    BY <2>1, <2>2 DEF Opened
<1>2. CASE a \notin seen
  <2> DEFINE ix == CreateAta(w, a)
             op == "createAta"
             n == 0
  <2>1. IfMissing(seen, w, a) = <<ix>>
    BY <1>2 DEF IfMissing
  <2>2. ix = Native(op, [payer |-> w, ata |-> a], n, w) /\ op \in {"createAta", "wrap", "closeAta"}
    BY DEF CreateAta
  <2> HIDE DEF ix, op, n
  <2>3. ix.op = op /\ ix.acc.ata = a /\ a \in ix.writable /\ RightAccounts(ix) /\ DeclaresPool(ix)
    BY <2>2, NativeAccounts
  <2>4. ix.op = "createAta"
    BY <2>3 DEF op
  <2>5. Opens(ix) = {a}
    BY <2>3, <2>4, Zenon DEF Opens
  <2>6. ix.op \in QuietOps /\ a \notin K.open
    BY <1>2, <2>4 DEF QuietOps
  <2>7. Allowed(K, ix, fee) /\ Declares(ix, w, fee)
    BY <2>3, <2>5, <2>6, QuietReady
  <2> QED
    BY <2>1, <2>5, <2>6, <2>7, QuietOpens
<1> QED
  BY <1>1, <1>2

\* So is an escrow.
LEMMA EscrowWorks ==
    ASSUME NEW K, Sound(K), NEW fee, NEW w, NEW u, EscrowOf(u) \notin K.open
    PROVE  \E M : Works(K, <<NewEscrow(w, u)>>, fee, M, w) /\ Opened(K, M, {EscrowOf(u)})
<1> DEFINE ix == NewEscrow(w, u)
<1>1. /\ Allowed(K, ix, fee) /\ Declares(ix, w, fee)
      /\ ix.op = "createLockEscrow" /\ Opens(ix) = {EscrowOf(u)}
  BY EscrowReady
<1> HIDE DEF ix
<1>2. ix.op \in QuietOps
  BY <1>1 DEF QuietOps
<1>3. \E M : Works(K, <<ix>>, fee, M, w) /\ Opened(K, M, {EscrowOf(u)})
  BY <1>1, <1>2, QuietOpens
<1> QED
  BY <1>3 DEF ix

\* Lamports are wrapped when there are that many and the account is open.
LEMMA WrapWorks ==
    ASSUME NEW K, Sound(K), NEW fee, NEW w \in Wallets, NEW n \in Nat,
           Ata(w, "SOL") \in K.open, K.lamports[w] >= n
    PROVE  \E M : Works(K, WrapSol(w, n), fee, M, w) /\ Sound(M) /\ Wrapped(K, M, w, n)
<1> DEFINE ix == WrapIx(w, n)
           M == After(K, ix, fee)
           a == Ata(w, "SOL")
           op == "wrap"
<1>1. ix = Native(op, [payer |-> w, ata |-> a], n, w) /\ op \in {"createAta", "wrap", "closeAta"}
  BY DEF WrapIx
<1>2. WrapSol(w, n) = <<ix>>
  BY DEF WrapSol, WrapIx
<1>3. Wrapped(K, M, w, n)
  BY WrapEffect
<1>4. a \in TokenAccounts /\ a \in K.open
  BY TokenAtas
<1> HIDE DEF ix, a, op
<1>5. /\ ix.op = op /\ ix.n = n /\ ix.acc.payer = w /\ ix.acc.ata = a
      /\ a \in ix.writable /\ w \in ix.writable
      /\ RightAccounts(ix) /\ DeclaresPool(ix)
  BY <1>1, NativeAccounts
<1>6. ix.op = "wrap"
  BY <1>5 DEF op
<1>7. Opens(ix) = {}
  BY <1>6, Zenon DEF Opens
<1>8. Closes(ix) = {} /\ DOMAIN Takes(ix, fee) = {} /\ DOMAIN Gives(ix, fee) = {}
  <2>1. Takes(ix, fee) = <<>> /\ Gives(ix, fee) = <<>>
    BY <1>6, NoMoves DEF NoMoveOps
  <2> QED
    BY <1>6, <2>1 DEF Closes
<1>9. Proper(ix, fee)
  BY <1>4, <1>5, <1>6, <1>8 DEF Proper
<1>10. Covers(K, ix, fee)
  BY <1>8 DEF Covers
<1>11. Allowed(K, ix, fee)
  BY <1>4, <1>5, <1>6, <1>7, <1>8, <1>10 DEF Allowed
<1>12. Declares(ix, w, fee)
  BY <1>5, <1>6, <1>7, <1>8 DEF Declares, Changed, DeclaresPool
<1>13. Sound(M)
  BY <1>9, <1>11, AfterSound
<1>14. Works(K, <<ix>>, fee, M, w)
  BY <1>11, <1>12, WorksOne
<1> HIDE DEF M
<1> QED
  BY <1>2, <1>3, <1>13, <1>14

\* The account for wrapped SOL is closed when it is open.
LEMMA UnwrapWorks ==
    ASSUME NEW K, NEW fee, NEW w, Ata(w, "SOL") \in K.open
    PROVE  \E M : Works(K, UnwrapSol(w), fee, M, w)
<1> DEFINE ix == UnwrapIx(w)
           a == Ata(w, "SOL")
           op == "closeAta"
           n == 0
<1>1. ix = Native(op, [payer |-> w, ata |-> a], n, w) /\ op \in {"createAta", "wrap", "closeAta"}
  BY DEF UnwrapIx
<1>2. UnwrapSol(w) = <<ix>> /\ a \in K.open
  BY DEF UnwrapSol, UnwrapIx
<1> HIDE DEF ix, a, op, n
<1>3. /\ ix.op = op /\ ix.acc.payer = w /\ ix.acc.ata = a
      /\ a \in ix.writable /\ RightAccounts(ix) /\ DeclaresPool(ix)
  BY <1>1, NativeAccounts
<1>4. ix.op = "closeAta"
  BY <1>3 DEF op
<1>5. Opens(ix) = {}
  BY <1>4, Zenon DEF Opens
<1>6. Closes(ix) = {a} /\ DOMAIN Takes(ix, fee) = {} /\ DOMAIN Gives(ix, fee) = {}
  <2>1. Takes(ix, fee) = <<>> /\ Gives(ix, fee) = <<>>
    BY <1>4, NoMoves DEF NoMoveOps
  <2> QED
    BY <1>3, <1>4, <2>1 DEF Closes
<1>7. Covers(K, ix, fee)
  BY <1>6 DEF Covers
<1>8. Allowed(K, ix, fee)
  BY <1>2, <1>3, <1>4, <1>5, <1>6, <1>7 DEF Allowed
<1>9. Declares(ix, w, fee)
  BY <1>3, <1>4, <1>5, <1>6 DEF Declares, Changed, DeclaresPool
<1>10. Works(K, <<ix>>, fee, After(K, ix, fee), w)
  BY <1>8, <1>9, WorksOne
<1> QED
  BY <1>2, <1>10

\* A setup, an instruction of the program, and the closing of the wrapped SOL.
LEMMA ClosingWorks ==
    ASSUME NEW L, NEW K, NEW fee, NEW w, NEW pre, Works(L, pre, fee, K, w), Sound(K),
           NEW ix, ix.op \notin NoMoveOps, Allowed(K, ix, fee), Declares(ix, w, fee),
           Ata(w, "SOL") \in K.open
    PROVE  \E M : Works(L, (pre \o <<ix>>) \o UnwrapSol(w), fee, M, w)
<1> DEFINE N == After(K, ix, fee)
           x == <<ix>>
           z == UnwrapSol(w)
<1>1. Works(K, x, fee, N, w)
  BY WorksOne
<1>2. N.open = K.open
  BY MainEffect
<1> HIDE DEF N, x, z
<1>3. PICK M : Works(N, z, fee, M, w)
  BY <1>2, UnwrapWorks DEF z
<1>4. Works(L, pre \o x, fee, N, w)
  BY <1>1, WorksTwice
<1>5. Works(L, (pre \o x) \o z, fee, M, w)
  BY <1>3, <1>4, WorksTwice
<1> QED
  BY <1>5 DEF x, z

\* One more account that is missing exactly if it has been found missing.
LEMMA MissingMore ==
    ASSUME NEW L, NEW K, NEW fee, NEW w, NEW s, Works(L, s, fee, K, w), NEW X, Opened(L, K, X),
           NEW a, a \notin X, NEW seen, a \in seen <=> a \in L.open
    PROVE  \E M : Works(L, s \o IfMissing(seen, w, a), fee, M, w) /\ Opened(L, M, X \cup {a})
<1> DEFINE r == IfMissing(seen, w, a)
<1>1. Sound(K) /\ K.open = L.open \cup X /\ K.holds = L.holds /\ K.lamports = L.lamports
  BY DEF Opened
<1>2. a \in seen <=> a \in K.open
  BY <1>1
<1>3. PICK M : Works(K, r, fee, M, w) /\ Opened(K, M, {a})
  BY <1>1, <1>2, MissingWorks
<1> HIDE DEF r
<1>4. Works(L, s \o r, fee, M, w)
  BY <1>3, WorksTwice
<1>5. Opened(L, M, X \cup {a})
  BY <1>1, <1>3 DEF Opened
<1> QED
  BY <1>4, <1>5 DEF r

\* The three accounts of a wallet.
LEMMA CreateMissingWorks ==
    ASSUME NEW L, Sound(L), NEW fee, NEW w, NEW seen,
           \A m \in {"A", "SOL", "LP"} : Ata(w, m) \in seen <=> Ata(w, m) \in L.open
    PROVE  \E M : /\ Works(L, CreateMissing(seen, w), fee, M, w)
                  /\ Opened(L, M, {Ata(w, "A"), Ata(w, "SOL"), Ata(w, "LP")})
<1> DEFINE a == Ata(w, "A")
           b == Ata(w, "SOL")
           l == Ata(w, "LP")
           i1 == IfMissing(seen, w, a)
           i2 == IfMissing(seen, w, b)
           i3 == IfMissing(seen, w, l)
<1>1. CreateMissing(seen, w) = (i1 \o i2) \o i3
  BY DEF CreateMissing
<1>2. a # b /\ a # l /\ b # l
  BY AtaEqual
<1>3. (a \in seen <=> a \in L.open) /\ (b \in seen <=> b \in L.open) /\ (l \in seen <=> l \in L.open)
  OBVIOUS
<1> HIDE DEF a, b, l
<1>4. PICK M1 : Works(L, i1, fee, M1, w) /\ Opened(L, M1, {a})
  BY <1>3, MissingWorks
<1> HIDE DEF i1
<1> DEFINE X1 == {a}
           X2 == {a, b}
<1>5. b \notin X1 /\ l \notin X2 /\ Opened(L, M1, X1) /\ X1 \cup {b} = X2
      /\ X2 \cup {l} = {a, b, l}
  BY <1>2, <1>4
<1> HIDE DEF X1, X2
<1>6. PICK M2 : Works(L, i1 \o i2, fee, M2, w) /\ Opened(L, M2, X1 \cup {b})
  BY <1>3, <1>4, <1>5, MissingMore
<1> DEFINE s == i1 \o i2
<1>7. Works(L, s, fee, M2, w) /\ Opened(L, M2, X2)
  BY <1>5, <1>6
<1> HIDE DEF s
<1>8. PICK M3 : Works(L, s \o i3, fee, M3, w) /\ Opened(L, M3, X2 \cup {l})
  <2>1. l \notin X2 /\ (l \in seen <=> l \in L.open)
    BY <1>3, <1>5
  <2> QED
    BY <1>7, <2>1, MissingMore
<1> QED
  BY <1>1, <1>5, <1>8 DEF s, a, b, l

\* The account of a referrer, if there is one.
LEMMA ReferrerWorks ==
    ASSUME NEW K, Sound(K), NEW fee, NEW w, NEW who, NEW side, NEW seen,
           who # NoCall => (Ata(who, side) \in seen <=> Ata(who, side) \in K.open)
    PROVE  \E M : /\ Works(K, IF who = NoCall THEN <<>> ELSE IfMissing(seen, w, Ata(who, side)),
                           fee, M, w)
                  /\ Opened(K, M, IF who = NoCall THEN {} ELSE {Ata(who, side)})
<1>1. CASE who = NoCall
  <2>1. Works(K, <<>>, fee, K, w)
    BY WorksNone
  <2>2. Opened(K, K, {})
    BY DEF Opened
  <2> QED
    BY <1>1, <2>1, <2>2
<1>2. CASE who # NoCall
  <2> DEFINE a == Ata(who, side)
  <2>1. PICK M : Works(K, IfMissing(seen, w, a), fee, M, w) /\ Opened(K, M, {a})
    <3>1. a \in seen <=> a \in K.open
      BY <1>2
    <3> HIDE DEF a
    <3> QED
      BY <3>1, MissingWorks
  <2> QED
    BY <1>2, <2>1
<1> QED
  BY <1>1, <1>2

\* What the builder has seen is what there is.
Current(w, c, seen, L) == \A a \in Reads(w, c) : a \in seen <=> a \in L.open

\* What the builder of a swap reads.
LEMMA SwapReads ==
    ASSUME NEW w, NEW c, c.op = "swap", NEW seen, NEW L, Current(w, c, seen, L)
    PROVE  /\ \A m \in {"A", "SOL"} : Ata(w, m) \in seen <=> Ata(w, m) \in L.open
           /\ c.who # NoCall => (Ata(c.who, c.sides) \in seen <=> Ata(c.who, c.sides) \in L.open)
<1>1. FirstReads(w, c) = {Ata(w, "A"), Ata(w, "SOL")}
  BY Zenon DEF FirstReads
<1>2. c.who # NoCall => SecondReads(w, c) = {Ata(c.who, c.sides)}
  BY Zenon DEF SecondReads
<1>3. \A m \in {"A", "SOL"} : Ata(w, m) \in Reads(w, c)
  BY <1>1 DEF Reads
<1>4. c.who # NoCall => Ata(c.who, c.sides) \in Reads(w, c)
  BY <1>2 DEF Reads
<1> QED
  BY <1>3, <1>4 DEF Current

\* The first accounts of a swap.
LEMMA SwapStart ==
    ASSUME NEW L, Sound(L), NEW fee, NEW w, NEW side \in {"A", "SOL"}, NEW seen,
           \A m \in {"A", "SOL"} : Ata(w, m) \in seen <=> Ata(w, m) \in L.open
    PROVE  \E M : /\ Works(L, IfMissing(seen, w, Ata(w, side))
                              \o IfMissing(seen, w, Ata(w, Other(side))), fee, M, w)
                  /\ Opened(L, M, {Ata(w, "A"), Ata(w, "SOL")})
<1> DEFINE a == Ata(w, side)
           b == Ata(w, Other(side))
           i1 == IfMissing(seen, w, a)
           i2 == IfMissing(seen, w, b)
           X == {a}
<1>1. b \notin X
  BY AtaEqual DEF Other
<1>2. (a \in seen <=> a \in L.open) /\ (b \in seen <=> b \in L.open)
  BY DEF Other
<1>3. X \cup {b} = {Ata(w, "A"), Ata(w, "SOL")}
  BY DEF Other
<1> HIDE DEF a, b
<1>4. PICK K : Works(L, i1, fee, K, w) /\ Opened(L, K, X)
  BY <1>2, MissingWorks
<1> HIDE DEF i1, X
<1>5. PICK M : Works(L, i1 \o i2, fee, M, w) /\ Opened(L, M, X \cup {b})
  BY <1>1, <1>2, <1>4, MissingMore
<1> QED
  BY <1>3, <1>5 DEF i1, a, b

\* The accounts a swap relies on, and none else, are opened by its first instructions.
LEMMA ReferrerMissing ==
    ASSUME NEW L, NEW K, NEW w, NEW who, NEW side, NEW seen, who # w,
           Opened(L, K, {Ata(w, "A"), Ata(w, "SOL")}),
           who # NoCall => (Ata(who, side) \in seen <=> Ata(who, side) \in L.open)
    PROVE  who # NoCall => (Ata(who, side) \in seen <=> Ata(who, side) \in K.open)
<1>1. K.open = L.open \cup {Ata(w, "A"), Ata(w, "SOL")}
  BY DEF Opened
<1>2. Ata(who, side) # Ata(w, "A") /\ Ata(who, side) # Ata(w, "SOL")
  BY AtaEqual
<1> QED
  BY <1>1, <1>2

\* A swap of A works for who has what goes in.
LEMMA SwapAWorks ==
    ASSUME NEW L, Sound(L), NEW fee, NEW w \in Wallets, NEW c, c.op = "swap", c.sides = "A",
           c.who \in Wallets \cup {NoCall}, c.who # w, NEW seen, Current(w, c, seen, L),
           L.holds[Ata(w, "A")] >= AmountIn
    PROVE  \E M : Works(L, SwapTx(w, c, seen), fee, M, w)
<1> DEFINE who == c.who
           side == "A"
           i1 == IfMissing(seen, w, Ata(w, side))
           i2 == IfMissing(seen, w, Ata(w, Other(side)))
           i3 == IF who = NoCall THEN <<>> ELSE IfMissing(seen, w, Ata(who, side))
           x == SwapIx(w, side, who)
           X == {Ata(w, "A"), Ata(w, "SOL")}
           Y == IF who = NoCall THEN {} ELSE {Ata(who, side)}
<1>1. SwapTx(w, c, seen) = ((((i1 \o i2) \o <<>>) \o i3) \o <<x>>) \o UnwrapSol(w)
  BY DEF SwapTx, SwapIx
<1>2. /\ \A m \in {"A", "SOL"} : Ata(w, m) \in seen <=> Ata(w, m) \in L.open
      /\ who # NoCall => (Ata(who, side) \in seen <=> Ata(who, side) \in L.open)
  BY SwapReads
<1>3. side \in {"A", "SOL"} /\ who \in Wallets \cup {NoCall} /\ who # w
      /\ L.holds[Ata(w, side)] >= AmountIn
  OBVIOUS
<1> HIDE DEF side, who
<1>4. PICK K : Works(L, i1 \o i2, fee, K, w) /\ Opened(L, K, X)
  BY <1>2, <1>3, SwapStart
<1>5. Sound(K)
  BY <1>4 DEF Opened
<1>6. who # NoCall => (Ata(who, side) \in seen <=> Ata(who, side) \in K.open)
  BY <1>2, <1>3, <1>4, ReferrerMissing
<1>7. PICK N : Works(K, i3, fee, N, w) /\ Opened(K, N, Y)
  BY <1>5, <1>6, ReferrerWorks
<1>8. Sound(N) /\ N.open = (L.open \cup X) \cup Y /\ N.holds = L.holds
  BY <1>4, <1>7 DEF Opened
<1>9. Ata(w, "A") \in N.open /\ Ata(w, "SOL") \in N.open
      /\ (who \in Wallets => Ata(who, side) \in N.open)
      /\ N.holds[Ata(w, side)] >= AmountIn
  BY <1>3, <1>8, UserAssumption
<1>10. Allowed(N, x, fee) /\ Declares(x, w, fee)
  BY <1>3, <1>9, SwapReady
<1>11. x.op = "swap"
  BY SwapBound DEF SwapIx
<1>12. x.op \notin NoMoveOps
  BY <1>11 DEF NoMoveOps, QuietOps
<1> HIDE DEF i1, i2, i3, x, X, Y
<1> DEFINE z == <<>>
<1>13. Works(K, z, fee, K, w)
  BY WorksNone
<1> HIDE DEF z
<1>14. Works(L, (i1 \o i2) \o z, fee, K, w)
  BY <1>4, <1>13, WorksTwice
<1> DEFINE pre == ((i1 \o i2) \o z) \o i3
<1>15. Works(L, pre, fee, N, w)
  BY <1>7, <1>14, WorksTwice
<1> HIDE DEF pre
<1>16. \E M : Works(L, (pre \o <<x>>) \o UnwrapSol(w), fee, M, w)
  BY <1>8, <1>9, <1>10, <1>12, <1>15, ClosingWorks
<1> QED
  BY <1>1, <1>16 DEF pre, z

\* A swap of SOL works for who has the lamports that go in.
LEMMA SwapSolWorks ==
    ASSUME NEW L, Sound(L), NEW fee, NEW w \in Wallets, NEW c, c.op = "swap", c.sides = "SOL",
           c.who \in Wallets \cup {NoCall}, c.who # w, NEW seen, Current(w, c, seen, L),
           L.lamports[w] >= AmountIn
    PROVE  \E M : Works(L, SwapTx(w, c, seen), fee, M, w)
<1> DEFINE who == c.who
           side == "SOL"
           i1 == IfMissing(seen, w, Ata(w, side))
           i2 == IfMissing(seen, w, Ata(w, Other(side)))
           i3 == IF who = NoCall THEN <<>> ELSE IfMissing(seen, w, Ata(who, side))
           x == SwapIx(w, side, who)
           X == {Ata(w, "A"), Ata(w, "SOL")}
           Y == IF who = NoCall THEN {} ELSE {Ata(who, side)}
           y == WrapSol(w, AmountIn)
<1>1. SwapTx(w, c, seen) = ((((i1 \o i2) \o y) \o i3) \o <<x>>) \o <<>>
  BY DEF SwapTx, SwapIx
<1>2. /\ \A m \in {"A", "SOL"} : Ata(w, m) \in seen <=> Ata(w, m) \in L.open
      /\ who # NoCall => (Ata(who, side) \in seen <=> Ata(who, side) \in L.open)
  BY SwapReads
<1>3. side \in {"A", "SOL"} /\ who \in Wallets \cup {NoCall} /\ who # w /\ side = "SOL"
  OBVIOUS
<1> HIDE DEF side, who
<1>4. PICK K : Works(L, i1 \o i2, fee, K, w) /\ Opened(L, K, X)
  BY <1>2, <1>3, SwapStart
<1>5. Sound(K) /\ Ata(w, "SOL") \in K.open /\ K.lamports[w] >= AmountIn
  BY <1>4 DEF Opened
<1>6. AmountIn \in Nat
  BY DEF AmountIn
<1>7. PICK J : Works(K, y, fee, J, w) /\ Sound(J) /\ Wrapped(K, J, w, AmountIn)
  BY <1>5, <1>6, WrapWorks
<1>8. J.open = K.open /\ J.holds[Ata(w, "SOL")] = K.holds[Ata(w, "SOL")] + AmountIn
  BY <1>7 DEF Wrapped
<1>9. K.holds[Ata(w, "SOL")] \in Nat
  BY <1>5, TokenAtas DEF Sound
<1>10. who # NoCall => (Ata(who, side) \in seen <=> Ata(who, side) \in J.open)
  BY <1>2, <1>3, <1>4, <1>8, ReferrerMissing
<1>11. PICK N : Works(J, i3, fee, N, w) /\ Opened(J, N, Y)
  BY <1>7, <1>10, ReferrerWorks
<1>12. N.open = (L.open \cup X) \cup Y /\ N.holds = J.holds
  BY <1>4, <1>8, <1>11 DEF Opened
<1>13. Ata(w, "A") \in N.open /\ Ata(w, "SOL") \in N.open
       /\ (who \in Wallets => Ata(who, side) \in N.open)
  BY <1>3, <1>12, UserAssumption
<1>14. N.holds[Ata(w, side)] >= AmountIn
  <2>1. K.holds[Ata(w, "SOL")] + AmountIn >= AmountIn
    BY <1>6, <1>9
  <2> QED
    BY <1>3, <1>8, <1>12, <2>1
<1>15. Allowed(N, x, fee) /\ Declares(x, w, fee)
  BY <1>3, <1>13, <1>14, SwapReady
<1> HIDE DEF i1, i2, i3, x, X, Y, y
<1>16. Works(L, (i1 \o i2) \o y, fee, J, w)
  BY <1>4, <1>7, WorksTwice
<1>17. Works(L, ((i1 \o i2) \o y) \o i3, fee, N, w)
  BY <1>11, <1>16, WorksTwice
<1> DEFINE p == ((i1 \o i2) \o y) \o i3
           q == <<x>>
           z == <<>>
           H == After(N, x, fee)
<1>18. Works(L, p, fee, N, w) /\ Works(N, q, fee, H, w) /\ Works(H, z, fee, H, w)
  BY <1>15, <1>17, WorksOne, WorksNone
<1> HIDE DEF p, q, z, H
<1>19. Works(L, p \o q, fee, H, w)
  BY <1>18, WorksTwice
<1>20. Works(L, (p \o q) \o z, fee, H, w)
  BY <1>18, <1>19, WorksTwice
<1> QED
  BY <1>1, <1>20 DEF p, q, z

\* There are finitely many accounts for LP tokens.
LEMMA LpAccountsFinite == IsFiniteSet(LpAccounts) /\ LpAccounts \subseteq TokenAccounts
<1> DEFINE S == {Ata(w, "LP") : w \in Wallets}
           T == {Ata(EscrowOf(w), "LP") : w \in Wallets}
           f == [w \in Wallets |-> Ata(w, "LP")]
           g == [w \in Wallets |-> Ata(EscrowOf(w), "LP")]
<1>1. IsFiniteSet(Wallets)
  BY UserAssumption
<1>2. f \in Surjection(Wallets, S) /\ g \in Surjection(Wallets, T)
  BY DEF Surjection
<1>3. LpAccounts \subseteq S \cup T
  <2> SUFFICES ASSUME NEW a \in LpAccounts PROVE a \in S \cup T
    OBVIOUS
  <2>1. a \in TokenAccounts /\ a[3] = "LP"
    BY DEF LpAccounts
  <2>2. \/ \E w \in Wallets : a = Ata(EscrowOf(w), "LP")
        \/ \E w \in Wallets : \E m \in {"A", "SOL", "LP"} : a = Ata(w, m)
    BY <2>1 DEF TokenAccounts
  <2>3. \A o, m : Ata(o, m)[3] = m
    BY DEF Ata
  <2> QED
    BY <2>1, <2>2, <2>3
<1> HIDE DEF S, T, f, g
<1>4. IsFiniteSet(S) /\ IsFiniteSet(T)
  BY <1>1, <1>2, FS_Surjection
<1>5. IsFiniteSet(S \cup T)
  BY <1>4, FS_Union
<1>6. IsFiniteSet(LpAccounts)
  BY <1>3, <1>5, FS_Subset
<1> QED
  BY <1>6 DEF LpAccounts

\* it sums h over the subsets of S, one element after the other.
Sums(S, h, it) ==
    it = [s \in SUBSET S |->
            IF s = {} THEN 0 ELSE h[CHOOSE x \in s : TRUE] + it[s \ {CHOOSE x \in s : TRUE}]]

\* Over a finite set there is such a function: the recursion has a solution.
LEMMA SumsExist ==
    ASSUME NEW S, IsFiniteSet(S), NEW h
    PROVE  \E it : Sums(S, h, it)
<1> DEFINE c(s) == CHOOSE x \in s : TRUE
           F(s, g) == IF s = {} THEN 0 ELSE h[c(s)] + g[s \ {c(s)}]
           Up(n) == {s \in SUBSET S : Cardinality(s) <= n}
           Solves(g, n) == \A s \in Up(n) : g[s] = F(s, g)
           T == {n \in Nat : ~ \E g : Solves(g, n)}
<1>1. \A s \in SUBSET S : /\ IsFiniteSet(s) /\ Cardinality(s) \in Nat
                          /\ Cardinality(s) <= Cardinality(S)
  BY FS_Subset, FS_CardinalityType
<1>2. Cardinality(S) \in Nat
  BY FS_CardinalityType
<1>3. ASSUME NEW s \in SUBSET S, s # {}
      PROVE  s \ {c(s)} \in SUBSET S /\ Cardinality(s \ {c(s)}) = Cardinality(s) - 1
  <2>1. c(s) \in s
    BY <1>3
  <2> HIDE DEF c
  <2>2. Cardinality(s \ {c(s)}) = Cardinality(s) - 1
    BY <1>1, <2>1, FS_RemoveElement
  <2> QED
    BY <2>2
<1> HIDE DEF c
<1>4. T = {}
  <2> SUFFICES ASSUME T # {} PROVE FALSE
    OBVIOUS
  <2>1. PICK n \in T : \A m \in T : n <= m
    BY LeastNat
  <2>2. n # 0
    <3>1. \A s \in Up(0) : s = {}
      BY <1>1, FS_EmptySet
    <3>2. Solves([s \in SUBSET S |-> 0], 0)
      BY <3>1
    <3> HIDE DEF Solves
    <3>3. 0 \notin T
      BY <3>2
    <3> QED
      BY <2>1, <3>3
  <2>3. n \in Nat /\ n - 1 \in Nat /\ n - 1 \notin T
    <3>1. n \in Nat
      BY <2>1
    <3>2. n - 1 \in Nat /\ ~(n <= n - 1)
      BY <2>2, <3>1
    <3> HIDE DEF T
    <3> QED
      BY <2>1, <3>1, <3>2
  <2>4. PICK g : Solves(g, n - 1)
    BY <2>3
  <2> DEFINE k == [s \in SUBSET S |-> IF Cardinality(s) <= n - 1 THEN g[s] ELSE F(s, g)]
  <2> HIDE DEF F
  <2>5. ASSUME NEW s \in Up(n) PROVE k[s] = F(s, k)
    <3>1. k[s] = F(s, g)
      <4>1. CASE Cardinality(s) <= n - 1
        BY <2>4, <4>1
      <4>2. CASE ~(Cardinality(s) <= n - 1)
        BY <4>2
      <4> QED
        BY <4>1, <4>2
    <3>2. CASE s = {}
      BY <3>1, <3>2 DEF F
    <3>3. CASE s # {}
      <4> DEFINE r == s \ {c(s)}
      <4>1. r \in SUBSET S /\ Cardinality(r) = Cardinality(s) - 1
        BY <1>3, <3>3
      <4>2. Cardinality(r) <= n - 1
        BY <1>1, <2>3, <4>1
      <4> HIDE DEF r
      <4>3. k[r] = g[r]
        BY <4>1, <4>2
      <4> HIDE DEF k
      <4> QED
        BY <3>1, <3>3, <4>3 DEF F, r
    <3> QED
      BY <3>2, <3>3
  <2> HIDE DEF k
  <2>6. Solves(k, n)
    BY <2>5
  <2> QED
    BY <2>1, <2>6
<1> HIDE DEF F
<1>5. PICK g : Solves(g, Cardinality(S))
  BY <1>2, <1>4
<1>6. Up(Cardinality(S)) = SUBSET S
  BY <1>1
<1> DEFINE it == [s \in SUBSET S |-> g[s]]
<1>7. \A s \in SUBSET S : it[s] = F(s, it)
  <2> SUFFICES ASSUME NEW s \in SUBSET S PROVE it[s] = F(s, it)
    OBVIOUS
  <2>1. g[s] = F(s, g)
    BY <1>5, <1>6
  <2>2. F(s, g) = F(s, it)
    BY <1>3 DEF F
  <2> QED
    BY <2>1, <2>2
<1>8. it = [s \in SUBSET S |-> F(s, it)]
  BY <1>7
<1> HIDE DEF it
<1>9. Sums(S, h, it)
  BY <1>8 DEF Sums, F, c
<1> QED
  BY <1>9

\* Sums of naturals are naturals.
LEMMA SumsNat ==
    ASSUME NEW S, IsFiniteSet(S), NEW h, \A a \in S : h[a] \in Nat, NEW it, Sums(S, h, it)
    PROVE  \A s \in SUBSET S : it[s] \in Nat
<1> DEFINE c(s) == CHOOSE x \in s : TRUE
           T == {n \in Nat : \E s \in SUBSET S : Cardinality(s) = n /\ it[s] \notin Nat}
<1>1. \A s \in SUBSET S : IsFiniteSet(s) /\ Cardinality(s) \in Nat
  BY FS_Subset, FS_CardinalityType
<1>2. \A s \in SUBSET S : it[s] = IF s = {} THEN 0 ELSE h[c(s)] + it[s \ {c(s)}]
  BY DEF Sums
<1>3. ASSUME NEW s \in SUBSET S, s # {}
      PROVE  c(s) \in S /\ s \ {c(s)} \in SUBSET S /\ Cardinality(s \ {c(s)}) = Cardinality(s) - 1
  <2>1. c(s) \in s
    BY <1>3
  <2> HIDE DEF c
  <2>2. Cardinality(s \ {c(s)}) = Cardinality(s) - 1
    BY <1>1, <2>1, FS_RemoveElement
  <2> QED
    BY <2>1, <2>2
<1> HIDE DEF c
<1>4. T = {}
  <2> SUFFICES ASSUME T # {} PROVE FALSE
    OBVIOUS
  <2>1. PICK n \in T : \A m \in T : n <= m
    BY LeastNat
  <2>2. PICK s \in SUBSET S : Cardinality(s) = n /\ it[s] \notin Nat
    BY <2>1
  <2>3. s # {}
    <3>1. {} \in SUBSET S /\ 0 \in Nat
      OBVIOUS
    <3>2. it[{}] = 0
      BY <1>2, <3>1
    <3> QED
      BY <2>2, <3>1, <3>2
  <2> DEFINE r == s \ {c(s)}
  <2>4. c(s) \in S /\ r \in SUBSET S /\ Cardinality(r) = n - 1
    BY <1>3, <2>2, <2>3
  <2>5. it[s] = h[c(s)] + it[r]
    BY <1>2, <2>3
  <2> HIDE DEF r
  <2>6. it[r] \notin Nat
    BY <2>2, <2>4, <2>5
  <2>7. n - 1 \in T /\ ~(n <= n - 1)
    BY <1>1, <2>1, <2>4, <2>6
  <2> HIDE DEF T
  <2> QED
    BY <2>1, <2>7
<1> QED
  BY <1>1, <1>4

\* The supply of a sound ledger.
LEMMA SupplyNat ==
    ASSUME NEW L, Sound(L)
    PROVE  Supply(L) \in Nat
<1>1. \A a \in LpAccounts : L.holds[a] \in Nat
  BY LpAccountsFinite DEF Sound
<1>2. Supply(L) = (CHOOSE it : Sums(LpAccounts, L.holds, it))[LpAccounts]
  BY Zenon DEF Supply, FoldFunctionOnSet, MapThenFoldSet, Sums
<1> DEFINE it == CHOOSE g : Sums(LpAccounts, L.holds, g)
<1>3. Sums(LpAccounts, L.holds, it)
  BY LpAccountsFinite, SumsExist
<1>4. Supply(L) = it[LpAccounts]
  BY <1>2
<1> HIDE DEF it
<1>5. \A s \in SUBSET LpAccounts : it[s] \in Nat
  BY <1>1, <1>3, LpAccountsFinite, SumsNat
<1> QED
  BY <1>4, <1>5

\* What the builders of deposits and withdrawals read.
LEMMA BothReads ==
    ASSUME NEW w, NEW c, c.op \in {"deposit", "withdraw"}, NEW seen, NEW L, Current(w, c, seen, L)
    PROVE  \A m \in {"A", "SOL", "LP"} : Ata(w, m) \in seen <=> Ata(w, m) \in L.open
<1>1. FirstReads(w, c) = {Ata(w, "A"), Ata(w, "SOL"), Ata(w, "LP")}
  BY Zenon DEF FirstReads
<1>2. \A m \in {"A", "SOL", "LP"} : Ata(w, m) \in Reads(w, c)
  BY <1>1 DEF Reads
<1> QED
  BY <1>2 DEF Current

\* The method of a deposit suits the pool that the object of the caller has seen.
LEMMA MethodSuits ==
    ASSUME NEW empty, NEW op, op = DepositMethod(empty)
    PROVE  /\ op \in DepositOps
           /\ op = "bootstrapLiquidity" <=> empty
           /\ op = "addBalanceLiquidity" => ~stable
<1>1. CASE empty
  <2>1. op = "bootstrapLiquidity"
    BY <1>1, Zenon DEF DepositMethod
  <2> QED
    BY <1>1, <2>1 DEF DepositOps
<1>2. CASE ~empty /\ stable
  <2>1. op = "addImbalanceLiquidity"
    BY <1>2, Zenon DEF DepositMethod
  <2> QED
    BY <1>2, <2>1 DEF DepositOps
<1>3. CASE ~empty /\ ~stable
  <2>1. op = "addBalanceLiquidity"
    BY <1>3, Zenon DEF DepositMethod
  <2> QED
    BY <1>3, <2>1 DEF DepositOps
<1> QED
  BY <1>1, <1>2, <1>3

\* A deposit works for who has what is asked of it, if the pool is still as empty as it was.
LEMMA DepositWorks ==
    ASSUME NEW L, Sound(L), NEW fee, NEW w \in Wallets, NEW c, c.op = "deposit",
           c.sides # "both" => stable, NEW seen, Current(w, c, seen, L),
           NEW empty, empty <=> Supply(L) = 0,
           L.holds[Ata(w, "A")] >= AskedIn(c, "A"), L.lamports[w] >= AskedIn(c, "SOL")
    PROVE  \E M : Works(L, DepositTx(w, c, seen, empty), fee, M, w)
<1> DEFINE n == AskedIn(c, "SOL")
           i1 == CreateMissing(seen, w)
           y == WrapSol(w, n)
           op == DepositMethod(empty)
           x == DepositIx(w, c, op)
           X == {Ata(w, "A"), Ata(w, "SOL"), Ata(w, "LP")}
<1>1. DepositTx(w, c, seen, empty) = ((i1 \o y) \o <<x>>) \o UnwrapSol(w)
  BY DEF DepositTx, DepositIx, DepositPost
<1>2. op \in DepositOps /\ (op = "bootstrapLiquidity" <=> empty)
      /\ (op = "addBalanceLiquidity" => ~stable)
  BY MethodSuits
<1>3. n \in Nat /\ L.lamports[w] >= n
  BY DEF AskedIn, AmountIn
<1> HIDE DEF n, op
<1>4. PICK K : Works(L, i1, fee, K, w) /\ Opened(L, K, X)
  <2>1. \A m \in {"A", "SOL", "LP"} : Ata(w, m) \in seen <=> Ata(w, m) \in L.open
    BY BothReads
  <2> QED
    BY <2>1, CreateMissingWorks
<1>5. Sound(K) /\ K.open = L.open \cup X /\ K.holds = L.holds /\ K.lamports = L.lamports
  BY <1>4 DEF Opened
<1>6. Ata(w, "SOL") \in K.open /\ K.lamports[w] >= n
  BY <1>3, <1>5
<1>7. PICK N : Works(K, y, fee, N, w) /\ Sound(N) /\ Wrapped(K, N, w, n)
  BY <1>3, <1>5, <1>6, WrapWorks
<1>8. N.open = L.open \cup X
  BY <1>5, <1>7 DEF Wrapped
<1>9. \A a \in TokenAccounts \ {Ata(w, "SOL")} : N.holds[a] = L.holds[a]
  BY <1>5, <1>7 DEF Wrapped
<1>10. Supply(N) = Supply(L)
  <2>1. \A a \in LpAccounts : a[3] = "LP" /\ a \in TokenAccounts
    BY DEF LpAccounts
  <2>2. Ata(w, "SOL")[3] = "SOL"
    BY DEF Ata
  <2>3. \A a \in LpAccounts : N.holds[a] = L.holds[a]
    BY <1>9, <2>1, <2>2
  <2> QED
    BY <2>3, SameSupply
<1>11. N.holds[Ata(w, "A")] \in Nat /\ N.holds[Ata(w, "SOL")] \in Nat
  BY <1>7, TokenAtas DEF Sound
<1>12. N.holds[Ata(w, "A")] >= AskedIn(c, "A")
  <2>1. Ata(w, "A") \in TokenAccounts \ {Ata(w, "SOL")}
    BY TokenAtas, AtaEqual
  <2> QED
    BY <1>9, <2>1
<1>13. N.holds[Ata(w, "SOL")] >= n
  <2>1. N.holds[Ata(w, "SOL")] = K.holds[Ata(w, "SOL")] + n
    BY <1>7 DEF Wrapped
  <2>2. K.holds[Ata(w, "SOL")] \in Nat
    BY <1>5, TokenAtas DEF Sound
  <2> QED
    BY <1>3, <2>1, <2>2
<1>14. /\ op = "bootstrapLiquidity" => Supply(N) = 0
       /\ op # "bootstrapLiquidity" => Supply(N) > 0
  <2>1. Supply(L) \in Nat
    BY SupplyNat
  <2> QED
    BY <1>2, <1>10, <2>1
<1>15. op = "addBalanceLiquidity" => c.sides = "both"
  BY <1>2
<1>16. Ata(w, "A") \in N.open /\ Ata(w, "SOL") \in N.open /\ Ata(w, "LP") \in N.open
  BY <1>8
<1>17. Allowed(N, x, fee) /\ Declares(x, w, fee)
  BY <1>2, <1>11, <1>12, <1>13, <1>14, <1>15, <1>16, DepositReady DEF n
<1>18. x.op = op
  BY <1>2, BothBound DEF DepositIx, DepositOps, BothOps
<1>19. x.op \notin NoMoveOps
  BY <1>2, <1>18 DEF DepositOps, NoMoveOps, QuietOps
<1> HIDE DEF i1, x, X, y
<1> DEFINE pre == i1 \o y
<1>20. Works(L, pre, fee, N, w)
  BY <1>4, <1>7, WorksTwice
<1> HIDE DEF pre
<1>21. \E M : Works(L, (pre \o <<x>>) \o UnwrapSol(w), fee, M, w)
  BY <1>7, <1>16, <1>17, <1>19, <1>20, ClosingWorks
<1> QED
  BY <1>1, <1>21 DEF pre

\* A withdrawal works for who has the LP tokens.
LEMMA WithdrawWorks ==
    ASSUME NEW L, Sound(L), NEW fee, NEW w \in Wallets, NEW c, c.op = "withdraw",
           c.sides \in {"both", "A", "SOL"}, c.sides # "both" => stable,
           NEW seen, Current(w, c, seen, L), L.holds[Ata(w, "LP")] >= LpAmount
    PROVE  \E M : Works(L, WithdrawTx(w, c, seen), fee, M, w)
<1> DEFINE pre == CreateMissing(seen, w)
           x == IF c.sides = "both" THEN WithdrawBothIx(w) ELSE WithdrawOneIx(w, c.sides)
<1>1. WithdrawTx(w, c, seen) = (pre \o <<x>>) \o UnwrapSol(w)
  <2>1. CASE c.sides = "both"
    BY <2>1 DEF WithdrawTx, WithdrawBothIx
  <2>2. CASE c.sides # "both"
    BY <2>2 DEF WithdrawTx, WithdrawOneIx, SingleSideDestination
  <2> QED
    BY <2>1, <2>2
<1>2. PICK K : /\ Works(L, pre, fee, K, w)
               /\ Opened(L, K, {Ata(w, "A"), Ata(w, "SOL"), Ata(w, "LP")})
  BY BothReads, CreateMissingWorks
<1>3. Sound(K) /\ K.holds[Ata(w, "LP")] >= LpAmount
      /\ Ata(w, "A") \in K.open /\ Ata(w, "SOL") \in K.open /\ Ata(w, "LP") \in K.open
  BY <1>2 DEF Opened
<1>4. Allowed(K, x, fee) /\ Declares(x, w, fee) /\ x.op \notin NoMoveOps
  <2>1. CASE c.sides = "both"
    <3> DEFINE z == WithdrawBothIx(w)
    <3>1. x = z /\ z.op = "removeBalanceLiquidity"
      BY <2>1, BothBound DEF WithdrawBothIx, BothOps
    <3>2. Allowed(K, z, fee) /\ Declares(z, w, fee)
      BY <1>3, WithdrawBothReady
    <3> HIDE DEF z, x
    <3> QED
      BY <3>1, <3>2 DEF NoMoveOps, QuietOps
  <2>2. CASE c.sides # "both"
    <3> DEFINE z == WithdrawOneIx(w, c.sides)
    <3>1. x = z /\ z.op = "removeLiquiditySingleSide"
      BY <2>2, SingleBound DEF WithdrawOneIx
    <3>2. c.sides \in {"A", "SOL"} /\ Ata(w, c.sides) \in K.open
      BY <1>3, <2>2
    <3>3. Allowed(K, z, fee) /\ Declares(z, w, fee)
      BY <1>3, <3>2, WithdrawOneReady
    <3> HIDE DEF z, x
    <3> QED
      BY <3>1, <3>3 DEF NoMoveOps, QuietOps
  <2> QED
    BY <2>1, <2>2
<1> HIDE DEF pre, x
<1>5. \E M : Works(L, (pre \o <<x>>) \o UnwrapSol(w), fee, M, w)
  BY <1>2, <1>3, <1>4, ClosingWorks
<1> QED
  BY <1>1, <1>5

\* A lock works for who has the LP tokens.
LEMMA LockWorks ==
    ASSUME NEW L, Sound(L), NEW fee, NEW w \in Wallets, NEW c, c.op = "lockLiquidity",
           c.who \in Wallets, NEW seen, Current(w, c, seen, L), L.holds[Ata(w, "LP")] >= LpAmount
    PROVE  \E M : Works(L, LockLiquidityTx(w, c, seen), fee, M, w)
<1> DEFINE u == c.who
           k == EscrowOf(u)
           l == Ata(w, "LP")
           v == Ata(k, "LP")
           i1 == IF k \in seen THEN <<>> ELSE <<NewEscrow(w, u)>>
           i2 == IfMissing(seen, w, l)
           i3 == IfMissing(seen, w, v)
           x == LockIx(w, u)
<1>1. LockLiquidityTx(w, c, seen) = ((i1 \o i2) \o i3) \o <<x>>
  BY DEF LockLiquidityTx, LockIx, NewEscrow, TokensOwner
<1>2. (k \in seen <=> k \in L.open) /\ (l \in seen <=> l \in L.open) /\ (v \in seen <=> v \in L.open)
  <2>1. FirstReads(w, c) = {k}
    BY Zenon DEF FirstReads
  <2>2. SecondReads(w, c) = {l, v}
    <3>1. c.op # "swap"
      OBVIOUS
    <3> QED
      BY <3>1, Zenon DEF SecondReads
  <2>3. k \in Reads(w, c) /\ l \in Reads(w, c) /\ v \in Reads(w, c)
    BY <2>1, <2>2 DEF Reads
  <2> QED
    BY <2>3 DEF Current
<1>3. u \in Wallets /\ k = EscrowOf(u) /\ l = Ata(w, "LP") /\ v = Ata(k, "LP")
      /\ L.holds[l] >= LpAmount
  OBVIOUS
<1>4. l # k /\ v # k /\ v # l
  BY <1>3, EscrowsApart, AtaEqual
<1>5. i1 = IF k \in seen THEN <<>> ELSE <<NewEscrow(w, u)>>
  OBVIOUS
<1> HIDE DEF u, k, l, v, i1
<1>6. PICK K : Works(L, i1, fee, K, w) /\ Opened(L, K, {k})
  <2>1. CASE k \in seen
    <3>1. Works(L, <<>>, fee, L, w)
      BY WorksNone
    <3>2. L.open = L.open \cup {k}
      BY <1>2, <2>1
    <3>3. Opened(L, L, {k})
      BY <3>2 DEF Opened
    <3> QED
      BY <1>5, <2>1, <3>1, <3>3
  <2>2. CASE k \notin seen
    <3>1. EscrowOf(u) \notin L.open
      BY <1>2, <1>3, <2>2
    <3>2. PICK K : Works(L, <<NewEscrow(w, u)>>, fee, K, w) /\ Opened(L, K, {EscrowOf(u)})
      BY <3>1, EscrowWorks
    <3> QED
      BY <1>3, <1>5, <2>2, <3>2
  <2> QED
    BY <2>1, <2>2
<1> DEFINE X == {k}
           Y == {k, l}
<1>7. l \notin X /\ v \notin Y /\ X \cup {l} = Y /\ Opened(L, K, X) /\ Y \cup {v} = {k, l, v}
  BY <1>4, <1>6
<1> HIDE DEF X, Y
<1>8. PICK J : Works(L, i1 \o i2, fee, J, w) /\ Opened(L, J, X \cup {l})
  BY <1>2, <1>6, <1>7, MissingMore
<1> DEFINE s == i1 \o i2
<1>9. Works(L, s, fee, J, w) /\ Opened(L, J, Y)
  BY <1>7, <1>8
<1> HIDE DEF s
<1>10. PICK N : Works(L, s \o i3, fee, N, w) /\ Opened(L, N, Y \cup {v})
  <2>1. v \notin Y /\ (v \in seen <=> v \in L.open)
    BY <1>2, <1>7
  <2> QED
    BY <1>9, <2>1, MissingMore
<1>11. N.open = L.open \cup {k, l, v} /\ N.holds = L.holds
  BY <1>7, <1>10 DEF Opened
<1>12. EscrowOf(u) \in N.open /\ Ata(EscrowOf(u), "LP") \in N.open /\ Ata(w, "LP") \in N.open
       /\ N.holds[Ata(w, "LP")] >= LpAmount
  BY <1>3, <1>11
<1>13. Allowed(N, x, fee) /\ Declares(x, w, fee)
  BY <1>3, <1>12, LockReady
<1> HIDE DEF x, i2, i3
<1> DEFINE p == s \o i3
           q == <<x>>
           M == After(N, x, fee)
<1>14. Works(L, p, fee, N, w) /\ Works(N, q, fee, M, w)
  BY <1>10, <1>13, WorksOne
<1> HIDE DEF p, q, M
<1>15. Works(L, p \o q, fee, M, w)
  BY <1>14, WorksTwice
<1> QED
  BY <1>1, <1>15 DEF p, q, s

\* A claim works for the owner of an escrow, for at most the fees there are.
LEMMA ClaimWorks ==
    ASSUME NEW L, Sound(L), VaultsOpen(L), NEW fee, NEW w \in Wallets, NEW c,
           c.op = "claimLockFee", NEW seen, Current(w, c, seen, L), EscrowOf(w) \in L.open,
           L.holds[Ata(EscrowOf(w), "LP")] >= fee
    PROVE  \E M : Works(L, ClaimLockFeeTx(w, seen), fee, M, w)
<1> DEFINE k == EscrowOf(w)
           l == Ata(w, "LP")
           a == Ata(w, "A")
           b == Ata(w, "SOL")
           v == Ata(k, "LP")
           i1 == IfMissing(seen, w, l)
           i2 == IfMissing(seen, k, v)
           i3 == IfMissing(seen, w, a)
           i4 == IfMissing(seen, w, b)
           x == ClaimIx(w)
<1>1. ClaimLockFeeTx(w, seen) = ((((i1 \o i2) \o i3) \o i4) \o <<x>>) \o UnwrapSol(w)
  BY DEF ClaimLockFeeTx, ClaimIx
<1>2. /\ l \in seen <=> l \in L.open
      /\ a \in seen <=> a \in L.open
      /\ b \in seen <=> b \in L.open
      /\ v \in seen <=> v \in L.open
  <2>1. FirstReads(w, c) = {a, b, l, v}
    BY Zenon DEF FirstReads
  <2>2. l \in Reads(w, c) /\ a \in Reads(w, c) /\ b \in Reads(w, c) /\ v \in Reads(w, c)
    BY <2>1 DEF Reads
  <2> QED
    BY <2>2 DEF Current
<1>3. v \in L.open
  BY DEF VaultsOpen
<1> DEFINE z == <<>>
<1>4. i2 = z
  BY <1>2, <1>3 DEF IfMissing
<1>5. l # a /\ l # b /\ a # b
  BY AtaEqual
<1>6. k = EscrowOf(w) /\ l = Ata(w, "LP") /\ a = Ata(w, "A") /\ b = Ata(w, "SOL")
      /\ v = Ata(k, "LP") /\ k \in L.open /\ L.holds[v] >= fee
  OBVIOUS
<1> HIDE DEF k, l, a, b, v, z, i2
<1>7. PICK K : Works(L, i1, fee, K, w) /\ Opened(L, K, {l})
  BY <1>2, MissingWorks
<1>8. Works(K, z, fee, K, w)
  BY WorksNone DEF z
<1> HIDE DEF i1
<1> DEFINE s == i1 \o z
           X == {l}
           Y == {l, a}
<1>9. Works(L, s, fee, K, w)
  BY <1>7, <1>8, WorksTwice
<1>10. a \notin X /\ b \notin Y /\ X \cup {a} = Y /\ Opened(L, K, X) /\ Y \cup {b} = {l, a, b}
  BY <1>5, <1>7
<1> HIDE DEF X, Y, s
<1>11. PICK J : Works(L, s \o i3, fee, J, w) /\ Opened(L, J, X \cup {a})
  <2>1. a \notin X /\ (a \in seen <=> a \in L.open) /\ Opened(L, K, X)
    BY <1>2, <1>10
  <2> QED
    BY <1>9, <2>1, MissingMore
<1> DEFINE r == s \o i3
<1>12. Works(L, r, fee, J, w) /\ Opened(L, J, Y)
  BY <1>10, <1>11
<1> HIDE DEF r
<1>13. PICK N : Works(L, r \o i4, fee, N, w) /\ Opened(L, N, Y \cup {b})
  <2>1. b \notin Y /\ (b \in seen <=> b \in L.open)
    BY <1>2, <1>10
  <2> QED
    BY <1>12, <2>1, MissingMore
<1>14. Sound(N) /\ N.open = L.open \cup {l, a, b} /\ N.holds = L.holds
  BY <1>10, <1>13 DEF Opened
<1>15. /\ EscrowOf(w) \in N.open /\ Ata(EscrowOf(w), "LP") \in N.open /\ Ata(w, "LP") \in N.open
       /\ Ata(w, "A") \in N.open /\ Ata(w, "SOL") \in N.open
       /\ N.holds[Ata(EscrowOf(w), "LP")] >= fee
  BY <1>3, <1>6, <1>14
<1>16. Allowed(N, x, fee) /\ Declares(x, w, fee)
  BY <1>15, ClaimReady
<1>17. x.op = "claimFee"
  BY ClaimBound DEF ClaimIx
<1>18. x.op \notin NoMoveOps
  BY <1>17 DEF NoMoveOps, QuietOps
<1> HIDE DEF x, i3, i4
<1> DEFINE pre == r \o i4
<1>19. Works(L, pre, fee, N, w)
  BY <1>13
<1> HIDE DEF pre
<1>20. \E M : Works(L, (pre \o <<x>>) \o UnwrapSol(w), fee, M, w)
  BY <1>14, <1>15, <1>16, <1>18, <1>19, ClosingWorks
<1> QED
  BY <1>1, <1>4, <1>20 DEF pre, r, s

\* The index the builder chooses is free while there is one.
LEMMA FreeIndex ==
    ASSUME NEW seen, ~ Configs \subseteq seen
    PROVE  FirstFree(seen) \in 0 .. MaxConfigs /\ ConfigAt(FirstFree(seen)) \notin seen
<1> DEFINE T == {i \in 0 .. MaxConfigs : ConfigAt(i) \notin seen}
<1>1. T # {} /\ T \subseteq Nat
  BY DEF Configs
<1>2. PICK i \in T : \A j \in T : i <= j
  BY <1>1, LeastNat
<1>3. \A j \in 0 .. (i - 1) : ConfigAt(j) \in seen
  <2> SUFFICES ASSUME NEW j \in 0 .. (i - 1), ConfigAt(j) \notin seen PROVE FALSE
    OBVIOUS
  <2>1. j \in 0 .. MaxConfigs /\ ~(i <= j)
    BY <1>2, UserAssumption
  <2> QED
    BY <1>2, <2>1
<1>4. \E n \in 0 .. MaxConfigs :
         ConfigAt(n) \notin seen /\ \A j \in 0 .. (n - 1) : ConfigAt(j) \in seen
  BY <1>2, <1>3
<1> QED
  BY <1>4 DEF FirstFree

\* The creation of a config works while an index is free.
LEMMA ConfigWorks ==
    ASSUME NEW L, NEW fee, NEW w, NEW c, c.op = "createConfig", NEW seen, Current(w, c, seen, L),
           ~ Configs \subseteq L.open
    PROVE  \E M : Works(L, CreateConfigTx(w, seen), fee, M, w)
<1> DEFINE i == FirstFree(seen)
           x == ConfigIx(w, i)
<1>1. \A k \in Configs : k \in seen <=> k \in L.open
  <2>1. FirstReads(w, c) = Configs
    BY Zenon DEF FirstReads
  <2> QED
    BY <2>1 DEF Reads, Current
<1>2. ~ Configs \subseteq seen
  BY <1>1
<1>3. i \in 0 .. MaxConfigs /\ ConfigAt(i) \notin seen
  BY <1>2, FreeIndex
<1> HIDE DEF i
<1>4. ConfigAt(i) \in Configs
  BY <1>3 DEF Configs
<1>5. ConfigAt(i) \notin L.open
  BY <1>1, <1>3, <1>4
<1>6. Allowed(L, x, fee) /\ Declares(x, w, fee)
  BY <1>5, ConfigReady
<1>7. CreateConfigTx(w, seen) = <<x>>
  BY DEF CreateConfigTx, ConfigIx, i
<1> HIDE DEF x
<1>8. Works(L, <<x>>, fee, After(L, x, fee), w)
  BY <1>6, WorksOne
<1> QED
  BY <1>7, <1>8

\* What is under way is what a builder returned for the call.
Returned(t) ==
    /\ Fair(t.payer, t.call, t.seen)
    /\ t.ixs = Built(t.payer, t.call, t.seen, t.empty)

AllReturned == \A t \in net : Returned(t)

\* It stays so, as the kind of the pool does.
LEMMA ReturnedKept ==
    ASSUME NEW t, Returned(t), stable' = stable
    PROVE  Returned(t)'
<1>1. Fair(t.payer, t.call, t.seen)'
  BY DEF Returned, Fair
<1>2. \A e : DepositMethod(e)' = DepositMethod(e)
  BY DEF DepositMethod
<1>3. \A w, c, s, e : DepositTx(w, c, s, e)' = DepositTx(w, c, s, e)
  BY <1>2 DEF DepositTx
<1>4. \A w, c, s : WithdrawTx(w, c, s)' = WithdrawTx(w, c, s)
  BY DEF WithdrawTx
<1>5. \A w, c, s, e : Built(w, c, s, e)' = Built(w, c, s, e)
  BY <1>3, <1>4 DEF Built
<1> QED
  BY <1>1, <1>5 DEF Returned

\* Initially nothing is under way, a builder sends what it returns, and no other step does.
LEMMA ReturnedStep ==
    ASSUME UserInv, AllReturned, [Next]_vars
    PROVE  AllReturned'
<1>1. stable' = stable
  BY DEF Next, vars, Begin, Send, UpdateState, Land, Drop, CloseConfigs
<1>2. ASSUME net' \subseteq net PROVE AllReturned'
  BY <1>1, <1>2, ReturnedKept DEF AllReturned
<1>3. ASSUME NEW p \in pending, Send(p) PROVE AllReturned'
  <2> DEFINE seen == p.seen \cup (SecondReads(p.payer, p.call) \cap ledger.open)
             t == [call |-> p.call, payer |-> p.payer, seen |-> seen,
                   empty |-> p.empty, blockhash |-> calls,
                   ixs |-> Built(p.payer, p.call, seen, p.empty)]
  <2>1. net' = net \cup {t}
    BY <1>3 DEF Send
  <2>2. Fair(p.payer, p.call, seen)
    BY DEF UserInv, Fair
  <2>3. /\ t.payer = p.payer /\ t.call = p.call /\ t.seen = seen /\ t.empty = p.empty
        /\ t.ixs = Built(p.payer, p.call, seen, p.empty)
    OBVIOUS
  <2> HIDE DEF t, seen
  <2>4. Returned(t)
    BY <2>2, <2>3 DEF Returned
  <2>5. \A x \in net' : Returned(x)
    BY <2>1, <2>4 DEF AllReturned
  <2> QED
    BY <1>1, <2>5, ReturnedKept DEF AllReturned
<1>4. (\E p \in pending : Send(p)) \/ net' \subseteq net
  BY DEF Next, vars, Begin, UpdateState, Land, Drop, CloseConfigs
<1> QED
  BY <1>2, <1>3, <1>4

\* What a builder returned works while what it was built from has not changed.
LEMMA UndisturbedWorks ==
    ASSUME UserInv, NEW t, Returned(t), Undisturbed(t), NEW fee \in Fees(t)
    PROVE  \E M : Works(ledger, t.ixs, fee, M, t.payer)
<1> DEFINE w == t.payer
           c == t.call
           seen == t.seen
           empty == t.empty
           L == ledger
<1>1. Sound(L) /\ VaultsOpen(L)
  BY DEF UserInv
<1>2. /\ w \in Wallets /\ c \in Calls /\ (c.op = "swap" => c.who # w)
      /\ c.op \in {"deposit", "withdraw"} /\ c.sides # "both" => stable
      /\ t.ixs = Built(w, c, seen, empty)
  BY DEF Returned, Fair
<1>3. c.op \in Ops /\ c.sides \in SidesOf(c.op) /\ c.who \in PartnersOf(c.op)
  BY <1>2, UserAssumption
<1>4. /\ Current(w, c, seen, L) /\ Affords(w, c)
      /\ c.op = "deposit" => (empty <=> Supply(L) = 0)
  BY DEF Undisturbed, Current
<1>5. fee \in Fees(t)
  OBVIOUS
<1>6. c = t.call /\ w = t.payer /\ L = ledger
  OBVIOUS
<1> HIDE DEF w, c, seen, empty
<1>7. CASE c.op = "swap"
  <2>1. t.ixs = SwapTx(w, c, seen)
    BY <1>2, <1>7, Zenon DEF Built
  <2>2. c.sides \in {"A", "SOL"} /\ c.who \in Wallets \cup {NoCall}
    <3>1. SidesOf(c.op) = {"A", "SOL"}
      BY <1>7, Zenon DEF SidesOf
    <3>2. PartnersOf(c.op) = Wallets \cup {NoCall}
      BY <1>7, Zenon DEF PartnersOf
    <3> QED
      BY <1>3, <3>1, <3>2
  <2>3. IF c.sides = "SOL" THEN L.lamports[w] >= AmountIn ELSE L.holds[Ata(w, "A")] >= AmountIn
    BY <1>4, <1>7, Zenon DEF Affords
  <2>4. CASE c.sides = "A"
    <3>1. L.holds[Ata(w, "A")] >= AmountIn /\ c.who # w
      BY <1>2, <1>7, <2>3, <2>4
    <3> HIDE DEF L
    <3>2. \E M : Works(L, SwapTx(w, c, seen), fee, M, w)
      BY <1>1, <1>2, <1>4, <1>7, <2>2, <2>4, <3>1, SwapAWorks
    <3> QED
      BY <1>6, <2>1, <3>2
  <2>5. CASE c.sides = "SOL"
    <3>1. L.lamports[w] >= AmountIn /\ c.who # w
      BY <1>2, <1>7, <2>3, <2>5
    <3> HIDE DEF L
    <3>2. \E M : Works(L, SwapTx(w, c, seen), fee, M, w)
      BY <1>1, <1>2, <1>4, <1>7, <2>2, <2>5, <3>1, SwapSolWorks
    <3> QED
      BY <1>6, <2>1, <3>2
  <2> QED
    BY <2>2, <2>4, <2>5
<1>8. CASE c.op = "deposit"
  <2>1. t.ixs = DepositTx(w, c, seen, empty)
    BY <1>2, <1>8, Zenon DEF Built
  <2>2. L.holds[Ata(w, "A")] >= AskedIn(c, "A") /\ L.lamports[w] >= AskedIn(c, "SOL")
    BY <1>4, <1>8, Zenon DEF Affords
  <2>3. (c.sides # "both" => stable) /\ (empty <=> Supply(L) = 0)
    BY <1>2, <1>4, <1>8
  <2> HIDE DEF L
  <2>4. \E M : Works(L, DepositTx(w, c, seen, empty), fee, M, w)
    BY <1>1, <1>2, <1>4, <1>8, <2>2, <2>3, DepositWorks
  <2> QED
    BY <1>6, <2>1, <2>4
<1>9. CASE c.op = "withdraw"
  <2>1. t.ixs = WithdrawTx(w, c, seen)
    BY <1>2, <1>9, Zenon DEF Built
  <2>2. L.holds[Ata(w, "LP")] >= LpAmount
    BY <1>4, <1>9, Zenon DEF Affords
  <2>3. (c.sides # "both" => stable) /\ c.sides \in {"both", "A", "SOL"}
    <3>1. SidesOf(c.op) = {"both", "A", "SOL"}
      BY <1>9, Zenon DEF SidesOf
    <3> QED
      BY <1>2, <1>3, <1>9, <3>1
  <2> HIDE DEF L
  <2>4. \E M : Works(L, WithdrawTx(w, c, seen), fee, M, w)
    BY <1>1, <1>2, <1>4, <1>9, <2>2, <2>3, WithdrawWorks
  <2> QED
    BY <1>6, <2>1, <2>4
<1>10. CASE c.op = "lockLiquidity"
  <2>1. t.ixs = LockLiquidityTx(w, c, seen)
    BY <1>2, <1>10, Zenon DEF Built
  <2>2. L.holds[Ata(w, "LP")] >= LpAmount
    BY <1>4, <1>10, Zenon DEF Affords
  <2>3. c.who \in Wallets
    BY <1>3, <1>10, Zenon DEF PartnersOf
  <2> HIDE DEF L
  <2>4. \E M : Works(L, LockLiquidityTx(w, c, seen), fee, M, w)
    BY <1>1, <1>2, <1>4, <1>10, <2>2, <2>3, LockWorks
  <2> QED
    BY <1>6, <2>1, <2>4
<1>11. CASE c.op = "claimLockFee"
  <2>1. t.ixs = ClaimLockFeeTx(w, seen)
    BY <1>2, <1>11, Zenon DEF Built
  <2>2. EscrowOf(w) \in L.open
    BY <1>4, <1>11, Zenon DEF Affords
  <2>3. L.holds[Ata(EscrowOf(w), "LP")] >= fee
    <3>1. L.holds[Ata(EscrowOf(w), "LP")] \in Nat
      BY <1>1, <1>2, TokenAtas DEF Sound
    <3>2. fee \in 0 .. (IF L.holds[Ata(EscrowOf(w), "LP")] > 0 THEN LpAmount ELSE 0)
      BY <1>5, <1>6, <1>11 DEF Fees
    <3> QED
      BY <3>1, <3>2 DEF LpAmount
  <2> HIDE DEF L
  <2>4. \E M : Works(L, ClaimLockFeeTx(w, seen), fee, M, w)
    BY <1>1, <1>2, <1>4, <1>11, <2>2, <2>3, ClaimWorks
  <2> QED
    BY <1>6, <2>1, <2>4
<1>12. CASE c.op = "createConfig"
  <2>1. t.ixs = CreateConfigTx(w, seen)
    BY <1>2, <1>12, Zenon DEF Built
  <2>2. ~ Configs \subseteq L.open
    BY <1>4, <1>12, Zenon DEF Affords
  <2> HIDE DEF L
  <2>3. \E M : Works(L, CreateConfigTx(w, seen), fee, M, w)
    BY <1>4, <1>12, <2>2, ConfigWorks
  <2> QED
    BY <1>6, <2>1, <2>3
<1> QED
  BY <1>3, <1>7, <1>8, <1>9, <1>10, <1>11, <1>12 DEF Ops

\* Whatever a builder returned runs for as long as nothing it was built from has changed.
THEOREM UndisturbedTxLandsHolds == Spec => []UndisturbedTxLands
<1>1. Init => AllReturned
  BY DEF Init, AllReturned
<1>2. UserInv /\ AllReturned /\ [Next]_vars => AllReturned'
  BY ReturnedStep
<1>3. UserInv /\ AllReturned => UndisturbedTxLands
  <2> SUFFICES ASSUME UserInv, AllReturned, NEW t \in net, Undisturbed(t), NEW fee \in Fees(t)
               PROVE  Lands(t, fee)
    BY DEF UndisturbedTxLands
  <2>1. Returned(t)
    BY DEF AllReturned
  <2>2. PICK M : Works(ledger, t.ixs, fee, M, t.payer)
    BY <2>1, UndisturbedWorks
  <2>3. UNION {ix.signers : ix \in Range(t.ixs)} = {t.payer}
    BY ShapedSigned DEF UserInv
  <2>4. Executed(ledger, t, fee).ok
    BY <2>2, <2>3, WorksLands
  <2> QED
    BY <2>4 DEF Lands
<1> QED
  BY <1>1, <1>2, <1>3, Invariant, PTL DEF Spec
=============================================================================
