------------------------- MODULE Liquidity_proofs -------------------------
(***************************************************************************)
(* Proofs about deposits and withdrawals of a constant-product pool, for   *)
(* amounts of any size, on top of what PoolSwap_proofs shows of its swaps  *)
(* and vaults: the books stay in range, and what a withdrawal pays out is  *)
(* neither paid by those who stay nor raised by splitting it, nor more     *)
(* than a deposit just before it put in.                                   *)
(***************************************************************************)
EXTENDS Liquidity, PoolSwap_proofs, WellFoundedInduction

(***************************************************************************)
(* Shares.                                                                 *)
(***************************************************************************)

\* getShareByAmount without roundUp: the share l / L of p never exceeds p, and what is
\* left of p stands for at least as much per unit of what is left of L.
LEMMA ProportionFloor ==
    ASSUME NEW p \in Nat, NEW L \in Nat \ {0}, NEW l \in 0 .. L
    PROVE  /\ Proportion(l, p, L) \in 0 .. p
           /\ (p - Proportion(l, p, L)) * L >= p * (L - l)
BY WithdrawalKeepsSharePrice DEF Proportion, AmountByShare

\* Part of a share is less than what it is a share of.
LEMMA ProportionBelow ==
    ASSUME NEW p \in Nat \ {0}, NEW L \in Nat \ {0}, NEW l \in 0 .. L - 1
    PROVE  Proportion(l, p, L) \in 0 .. p - 1
<1>1. l * p \in Nat /\ l * p < L * p
  <2>1. (L - l) * p > 0 /\ L * p = l * p + (L - l) * p /\ (L - l) * p \in Nat
    <3>1. L - l \in Nat \ {0}
      OBVIOUS
    <3>2. L * p = l * p + (L - l) * p
      BY Z3
    <3> QED
      BY <3>1, <3>2, Z3
  <2> QED
    BY <2>1, ProductNat
<1> DEFINE a == l * p
<1> HIDE DEF a
<1>2. a \in Nat /\ a < L * p
  BY <1>1 DEF a
<1>3. a \div L < p /\ a \div L \in Nat
  BY <1>2, DivBelow, DivNat
<1> QED
  BY <1>3 DEF Proportion, a

\* Two shares taken one after the other are together at most what they are at once: what
\* the first leaves behind by rounding is shared with those who stay.
LEMMA SplitProportion ==
    ASSUME NEW p \in Nat, NEW L \in Nat \ {0}, NEW l \in Nat, NEW k \in Nat \ {0}, l + k <= L
    PROVE  LET a == Proportion(l, p, L)
               b == Proportion(k, p - a, L - l)
               c == Proportion(l + k, p, L)
           IN  a \in Nat /\ b \in Nat /\ c \in Nat /\ a + b <= c
<1> DEFINE a == Proportion(l, p, L)
           b == Proportion(k, p - a, L - l)
<1>1. l \in 0 .. L /\ L - l \in Nat \ {0} /\ k \in 0 .. (L - l) /\ l + k \in 0 .. L
  OBVIOUS
<1>2. a \in 0 .. p /\ (p - a) * L >= p * (L - l)
  BY <1>1, ProportionFloor
<1>3. l * p \in Nat /\ L * a <= l * p
  BY <1>1, ProductNat, DivBounds DEF Proportion
<1> HIDE DEF a
<1>4. p - a \in Nat /\ b \in Nat /\ (L - l) * b <= k * (p - a)
  <2>1. p - a \in Nat
    BY <1>2
  <2>2. k * (p - a) \in Nat
    BY <2>1, ProductNat
  <2> DEFINE n == k * (p - a)
             d == L - l
  <2> HIDE DEF n, d
  <2>3. n \in Nat /\ d \in Nat \ {0}
    BY <1>1, <2>2 DEF n, d
  <2>4. n \div d \in Nat
    BY <2>3, DivNat
  <2>5. d * (n \div d) <= n
    BY <2>3, DivBounds
  <2>6. b = n \div d
    BY <2>3 DEF Proportion, n, d
  <2> QED
    BY <2>1, <2>4, <2>5, <2>6 DEF n, d
<1> HIDE DEF b
<1>5. (L - l) * (L * (a + b)) <= (L - l) * ((l + k) * p)
  \* the remainder r of the first division is shared by L - l, of which the second takes k
  <2> DEFINE r == l * p - L * a
             M == L - l
  <2>1. r \in Nat /\ M \in Nat \ {0} /\ M - k \in Nat
    <3>1. L * a \in Nat
      BY <1>2, ProductNat
    <3> QED
      BY <1>1, <1>3, <3>1
  <2>2. L * (M * b) <= L * (k * (p - a))
    <3>1. M * b \in Int /\ k * (p - a) \in Int
      BY <1>1, <1>4, ProductNat
    <3> QED
      BY <1>4, <3>1, ProductMono
  <2>3. L * (k * (p - a)) = k * (M * p) + k * r
    BY <1>2, Z3
  <2>4. M * (L * (a + b)) = M * (L * a) + L * (M * b)
    BY <1>2, <1>4, Z3
  <2>5. M * (L * a) = M * (l * p) - M * r
    BY <1>2, Z3
  <2>6. M * ((l + k) * p) = M * (l * p) + k * (M * p)
    BY Z3
  <2> HIDE DEF r, M
  <2>7. k * r <= M * r
    <3>1. k <= M /\ M \in Int
      BY <2>1
    <3> QED
      BY <2>1, <3>1, ProductMono
  <2>8. /\ k * r \in Int /\ M * r \in Int /\ M * (l * p) \in Int /\ k * (M * p) \in Int
        /\ L * (M * b) \in Int /\ M * (L * a) \in Int
    BY <1>2, <1>4, <2>1, Z3
  <2>9. M * (L * (a + b)) <= M * ((l + k) * p)
    BY <2>2, <2>3, <2>4, <2>5, <2>6, <2>7, <2>8
  <2> QED
    BY <2>9 DEF M
<1>6. L * (a + b) <= (l + k) * p /\ (l + k) * p \in Nat
  <2>1. L * (a + b) \in Int /\ (l + k) * p \in Nat
    <3>1. a + b \in Nat /\ l + k \in Nat
      BY <1>2, <1>4
    <3> QED
      BY <3>1, ProductNat
  <2> QED
    BY <1>1, <1>5, <2>1, Cancel
<1>7. a + b <= ((l + k) * p) \div L
  <2>1. a + b \in Int
    BY <1>2, <1>4
  <2> QED
    BY <1>6, <2>1, DivAtLeast
<1>8. Proportion(l + k, p, L) \in 0 .. p /\ Proportion(l + k, p, L) = ((l + k) * p) \div L
  BY <1>1, ProportionFloor DEF Proportion
<1> QED
  BY <1>2, <1>4, <1>7, <1>8 DEF a, b

(***************************************************************************)
(* Numbers of the quotes.                                                  *)
(***************************************************************************)

\* A set of natural numbers has a least one.
LEMMA LeastNat ==
    ASSUME NEW T, T \subseteq Nat, T # {}
    PROVE  \E x \in T : \A y \in T : x <= y
<1> DEFINE R == OpToRel(<, Nat)
<1>1. IsWellFoundedOn(R, Nat)
  BY NatLessThanWellFounded
<1>2. \A x, y \in Nat : <<x, y>> \in R <=> x < y
  BY DEF OpToRel
<1> HIDE DEF R
<1>3. PICK x \in T : \A y \in T : ~(<<y, x>> \in R)
  BY <1>1, WFMin
<1>4. \A y \in T : ~(y < x)
  BY <1>2, <1>3
<1>5. \A y \in T : y \in Nat /\ x \in Nat
  OBVIOUS
<1> QED
  BY <1>4, <1>5

\* computeD of the constant-product curve has a value, and more than none for amounts that
\* are more than none.
LEMMA ComputeDValue ==
    ASSUME NEW a \in Nat, NEW b \in Nat
    PROVE  /\ ComputeD(a, b) \in 0 .. (a + b)
           /\ ComputeD(a, b) * ComputeD(a, b) <= a * b
           /\ a * b < (ComputeD(a, b) + 1) * (ComputeD(a, b) + 1)
           /\ a > 0 /\ b > 0 => ComputeD(a, b) > 0
<1> DEFINE T == {n \in Nat : a * b < (n + 1) * (n + 1)}
<1>1. a * b \in Nat
  BY ProductNat
<1>2. a + b \in T
  <2>1. (a + b + 1) * (a + b + 1) = a * b + (a * a + a * b + b * b + 2 * a + 2 * b + 1)
    BY Z3
  <2>2. a * a \in Nat /\ b * b \in Nat
    BY ProductNat
  <2> QED
    BY <1>1, <2>1, <2>2
<1>3. PICK x \in T : \A y \in T : x <= y
  <2>1. T \subseteq Nat /\ T # {}
    BY <1>2
  <2> HIDE DEF T
  <2> QED
    BY <2>1, LeastNat
<1>4. x \in Nat /\ x <= a + b /\ a * b < (x + 1) * (x + 1)
  BY <1>2, <1>3
<1>5. x * x <= a * b
  <2>1. CASE x = 0
    BY <1>1, <2>1
  <2>2. CASE x # 0
    <3>1. x - 1 \in Nat /\ ~(x - 1 \in T)
      BY <1>3, <1>4, <2>2
    <3>2. ~(a * b < ((x - 1) + 1) * ((x - 1) + 1))
      BY <3>1
    <3>3. (x - 1) + 1 = x /\ x * x \in Nat
      BY <1>4, ProductNat
    <3> QED
      BY <1>1, <3>2, <3>3
  <2> QED
    BY <2>1, <2>2
<1>6. \E d \in 0 .. (a + b) : d * d <= a * b /\ a * b < (d + 1) * (d + 1)
  BY <1>4, <1>5
<1>7. /\ ComputeD(a, b) \in 0 .. (a + b)
      /\ ComputeD(a, b) * ComputeD(a, b) <= a * b
      /\ a * b < (ComputeD(a, b) + 1) * (ComputeD(a, b) + 1)
  BY <1>6, Zenon DEF ComputeD
<1>8. ASSUME a > 0, b > 0 PROVE ComputeD(a, b) > 0
  <2>1. a * b > 0
    BY <1>8, Z3
  <2>2. ComputeD(a, b) # 0
    <3> SUFFICES ASSUME ComputeD(a, b) = 0 PROVE FALSE
      OBVIOUS
    <3>1. a * b < (0 + 1) * (0 + 1)
      BY <1>7
    <3> QED
      BY <1>1, <2>1, <3>1
  <2> QED
    BY <1>7, <2>2
<1> QED
  BY <1>7, <1>8

\* Shares of amounts are amounts, whichever way they are rounded.
LEMMA ProportionTypes ==
    ASSUME NEW a \in Nat, NEW n \in Nat, NEW d \in Nat
    PROVE  /\ Proportion(a, n, d) \in Nat
           /\ ProportionRounded(a, n, d) \in Nat
           /\ ProportionUp(a, n, d) \in Nat
<1> DEFINE m == a * n
<1>1. m \in Nat
  BY ProductNat
<1> HIDE DEF m
<1>2. CASE d = 0
  BY <1>2 DEF Proportion, ProportionRounded, ProportionUp
<1>3. CASE d # 0
  <2>1. d \in Nat \ {0} /\ 2 * d \in Nat \ {0} /\ 2 * m + d \in Nat /\ m + d - 1 \in Nat
    BY <1>1, <1>3
  <2>2. m \div d \in Nat
    BY <1>1, <2>1, DivNat
  <2>3. (2 * m + d) \div (2 * d) \in Nat
    <3> DEFINE k == 2 * m + d
               e == 2 * d
    <3>1. k \in Nat /\ e \in Nat \ {0}
      BY <2>1
    <3> HIDE DEF k, e
    <3>2. k \div e \in Nat
      BY <3>1, DivNat
    <3> QED
      BY <3>2 DEF k, e
  <2>4. (m + d - 1) \div d \in Nat
    <3> DEFINE k == m + d - 1
    <3>1. k \in Nat
      BY <2>1
    <3> HIDE DEF k
    <3>2. k \div d \in Nat
      BY <2>1, <3>1, DivNat
    <3> QED
      BY <3>2 DEF k
  <2> QED
    BY <1>3, <2>2, <2>3, <2>4
       DEF Proportion, ProportionRounded, ProportionUp, DivRound, DivUp, m
<1> QED
  BY <1>2, <1>3

(***************************************************************************)
(* What a landed transaction changes.                                      *)
(***************************************************************************)

\* Moving tokens and vault LP tokens on both sides, within what there is, keeps the books
\* and moves what the vaults have unlocked by just the tokens.
LEMMA ChangedSides ==
    ASSUME TypeOK, NEW t \in [Sides -> Int], NEW m \in [Sides -> Int], NEW lp,
           Becomes(Changed(Liquid, t, m, lp)), steps' \in 0 .. MaxSteps,
           \A x \in Sides : /\ UnlockedAmount(vault[x], time) + t[x] > 0
                            /\ reserve[x] + t[x] >= 0
                            /\ poolLp[x] + m[x] >= 0 /\ vault[x].supply + m[x] > 0
    PROVE  /\ TypeOK' /\ lpSupply' = lpSupply + lp
           /\ \A x \in Sides :
                 /\ UnlockedAmount(vault'[x], time') = UnlockedAmount(vault[x], time) + t[x]
                 /\ vault'[x].supply = vault[x].supply + m[x]
                 /\ poolLp'[x] = poolLp[x] + m[x]
<1>1. /\ vault \in [Sides -> VaultRecord] /\ poolLp \in [Sides -> Nat]
      /\ reserve \in [Sides -> Nat] /\ time \in Nat
      /\ \A x \in Sides : /\ vault[x].report <= time
                          /\ UnlockedAmount(vault[x], time) \in 1 .. vault[x].total
                          /\ poolLp[x] <= vault[x].supply
                          /\ reserve[x] <= vault[x].total
  BY DEF TypeOK, VaultRecord
<1>2. /\ time' = time /\ enabled' = enabled /\ collected' = collected
      /\ lpSupply' = lpSupply + lp
      /\ vault' = [x \in Sides |->
            [total |-> vault[x].total + t[x], supply |-> vault[x].supply + m[x],
             locked |-> vault[x].locked, report |-> vault[x].report]]
      /\ poolLp' = [x \in Sides |-> poolLp[x] + m[x]]
      /\ reserve' = [x \in Sides |-> reserve[x] + t[x]]
  BY DEF Becomes, Changed, Moved, Liquid
<1>3. ASSUME NEW x \in Sides
      PROVE  /\ vault[x].total \in Nat /\ vault[x].supply \in Nat
             /\ vault[x].locked \in Nat /\ vault[x].report \in Nat
             /\ LockedProfit(vault[x], time) \in Nat
             /\ t[x] \in Int /\ m[x] \in Int /\ poolLp[x] \in Nat /\ reserve[x] \in Nat
  BY <1>1, LockedProfitFalls DEF VaultRecord
<1>4. ASSUME NEW x \in Sides
      PROVE  /\ UnlockedAmount(vault'[x], time') = UnlockedAmount(vault[x], time) + t[x]
             /\ vault'[x].supply = vault[x].supply + m[x]
             /\ vault'[x].total = vault[x].total + t[x]
             /\ vault'[x].locked = vault[x].locked /\ vault'[x].report = vault[x].report
             /\ poolLp'[x] = poolLp[x] + m[x] /\ reserve'[x] = reserve[x] + t[x]
  <2>1. /\ vault'[x].total = vault[x].total + t[x]
        /\ vault'[x].supply = vault[x].supply + m[x]
        /\ vault'[x].locked = vault[x].locked /\ vault'[x].report = vault[x].report
        /\ poolLp'[x] = poolLp[x] + m[x] /\ reserve'[x] = reserve[x] + t[x]
    BY <1>2
  <2>2. LockedProfit(vault'[x], time) = LockedProfit(vault[x], time)
    BY <2>1, SameLocked
  <2>3. UnlockedAmount(vault'[x], time') = UnlockedAmount(vault[x], time) + t[x]
    BY <1>2, <1>3, <2>1, <2>2 DEF UnlockedAmount
  <2> QED
    BY <2>1, <2>3
<1>5. ASSUME NEW x \in Sides
      PROVE  /\ UnlockedAmount(vault[x], time) + t[x] \in 1 .. vault[x].total + t[x]
             /\ vault[x].total + t[x] \in Nat /\ vault[x].supply + m[x] \in Nat \ {0}
             /\ poolLp[x] + m[x] \in 0 .. vault[x].supply + m[x]
             /\ reserve[x] + t[x] \in 0 .. vault[x].total + t[x]
  <2>1. /\ UnlockedAmount(vault[x], time) + t[x] > 0
        /\ reserve[x] + t[x] >= 0
        /\ poolLp[x] + m[x] >= 0 /\ vault[x].supply + m[x] > 0
    OBVIOUS
  <2> QED
    BY <1>1, <1>3, <2>1
<1>6. /\ vault' \in [Sides -> VaultRecord] /\ poolLp' \in [Sides -> Nat]
      /\ reserve' \in [Sides -> Nat]
  BY <1>2, <1>3, <1>5 DEF VaultRecord
<1>7. \A x \in Sides :
          /\ vault'[x].supply > 0 /\ vault'[x].report <= time'
          /\ UnlockedAmount(vault'[x], time') \in 1 .. vault'[x].total
          /\ poolLp'[x] <= vault'[x].supply
          /\ reserve'[x] <= vault'[x].total
  BY <1>1, <1>2, <1>3, <1>4, <1>5
<1>8. time' \in 0 .. MaxTime /\ enabled' \in BOOLEAN /\ collected' \in [Sides -> Nat]
  BY <1>2 DEF TypeOK
<1>9. TypeOK'
  BY <1>6, <1>7, <1>8 DEF TypeOK, VaultRecord
<1> QED
  BY <1>2, <1>4, <1>9

(***************************************************************************)
(* The books.                                                              *)
(***************************************************************************)

\* What the other depositors of a vault hold never changes.
OthersKeepLp == \A x \in Sides : vault[x].supply - poolLp[x] = LpSupply - PoolShare

\* The inductive invariant: with the other depositors' LP tokens, a withdrawal of all the
\* pool's leaves the vault something to divide by.
BooksInv == BooksOK /\ OthersKeepLp

\* One side of the pool, in numbers.
LEMMA BooksSide ==
    ASSUME BooksInv, NEW x \in Sides
    PROVE  /\ UnlockedAmount(vault[x], time) \in Nat \ {0} /\ vault[x].supply \in Nat \ {0}
           /\ poolLp[x] \in 0 .. vault[x].supply - 1 /\ reserve[x] \in Nat /\ lpSupply \in Nat
           /\ lpSupply = 0 => poolLp[x] = 0
           /\ vault[x].supply - poolLp[x] = LpSupply - PoolShare
<1>1. LpSupply - PoolShare \in Nat \ {0}
  BY BoundsAssumption, LiquidityAssumption
<1>2. /\ vault[x].supply \in Nat \ {0} /\ poolLp[x] \in Nat /\ reserve[x] \in Nat
      /\ UnlockedAmount(vault[x], time) \in 1 .. vault[x].total /\ vault[x].total \in Nat
      /\ lpSupply \in Nat /\ (lpSupply = 0 => poolLp[x] = 0)
      /\ vault[x].supply - poolLp[x] = LpSupply - PoolShare
  BY DEF BooksInv, BooksOK, TypeOK, OthersKeepLp
<1> QED
  BY <1>1, <1>2

\* A deposit of any tokens keeps the books, if it is for some LP tokens of the pool.
LEMMA DepositKeepsBooks ==
    ASSUME BooksInv, NEW in \in [Sides -> Nat], NEW lp \in Nat \ {0}, Step,
           Becomes(AfterDeposit(Liquid, in, lp))
    PROVE  /\ BooksInv' /\ lpSupply' = lpSupply + lp
           /\ \A x \in Sides :
                 UnlockedAmount(vault'[x], time') * vault[x].supply
                    >= UnlockedAmount(vault[x], time) * vault'[x].supply
<1> DEFINE U(x) == UnlockedAmount(vault[x], time)
           m == [x \in Sides |-> UnmintAmount(in[x], U(x), vault[x].supply)]
<1>1. ASSUME NEW x \in Sides
      PROVE  /\ U(x) \in Nat \ {0} /\ vault[x].supply \in Nat \ {0} /\ in[x] \in Nat
             /\ poolLp[x] \in Nat /\ reserve[x] \in Nat /\ lpSupply \in Nat
             /\ vault[x].supply - poolLp[x] = LpSupply - PoolShare
             /\ LpSupply \in Nat /\ PoolShare \in Nat
  BY BooksSide, BoundsAssumption
<1>2. ASSUME NEW x \in Sides
      PROVE  /\ m[x] \in Nat
             /\ (U(x) + in[x]) * vault[x].supply >= U(x) * (vault[x].supply + m[x])
  <2> HIDE DEF U
  <2>1. m[x] = UnmintAmount(in[x], U(x), vault[x].supply)
    OBVIOUS
  <2> HIDE DEF m
  <2> DEFINE u == U(x)
             P == vault[x].supply
             n == in[x]
  <2>2. u \in Nat \ {0} /\ P \in Nat /\ n \in Nat
    BY <1>1
  <2> HIDE DEF u, P, n
  <2>3. UnmintAmount(n, u, P) \in Nat /\ (u + n) * P >= u * (P + UnmintAmount(n, u, P))
    BY <2>2, DepositKeepsSharePrice
  <2> QED
    BY <2>1, <2>3 DEF u, P, n
<1>3. Becomes(Changed(Liquid, in, m, lp))
  BY DEF AfterDeposit, Unlocked, Liquid
<1>4. steps' \in 0 .. MaxSteps
  BY BoundsAssumption DEF BooksInv, BooksOK, TypeOK, Step
<1>5. m \in [Sides -> Int] /\ in \in [Sides -> Int]
  BY <1>2
<1> HIDE DEF m
<1>6. ASSUME NEW x \in Sides
      PROVE  /\ U(x) + in[x] > 0 /\ reserve[x] + in[x] >= 0
             /\ poolLp[x] + m[x] >= 0 /\ vault[x].supply + m[x] > 0
  <2> HIDE DEF U
  <2> QED
    BY <1>1, <1>2
<1>7. /\ TypeOK' /\ lpSupply' = lpSupply + lp
      /\ \A x \in Sides : /\ UnlockedAmount(vault'[x], time') = U(x) + in[x]
                          /\ vault'[x].supply = vault[x].supply + m[x]
                          /\ poolLp'[x] = poolLp[x] + m[x]
  <2>1. TypeOK
    BY DEF BooksInv, BooksOK
  <2> QED
    BY <1>3, <1>4, <1>5, <1>6, <2>1, ChangedSides
<1> HIDE DEF U
<1>8. lpSupply' \in Nat \ {0}
  BY <1>1, <1>7 DEF Sides
<1>9. ASSUME NEW x \in Sides
      PROVE  vault'[x].supply - poolLp'[x] = LpSupply - PoolShare
  BY <1>1, <1>2, <1>7
<1>10. BooksInv'
  BY <1>7, <1>8, <1>9 DEF BooksInv, BooksOK, OthersKeepLp
<1>11. ASSUME NEW x \in Sides
       PROVE  UnlockedAmount(vault'[x], time') * vault[x].supply
                 >= U(x) * vault'[x].supply
  BY <1>2, <1>7
<1> QED
  BY <1>7, <1>10, <1>11 DEF U

\* What a balanced withdrawal quotes for one side: LP tokens that the pool has, and tokens
\* that the vault has unlocked.
LEMMA WithdrawalSide ==
    ASSUME BooksInv, NEW lp \in Nat, lp <= lpSupply, NEW x \in Sides
    PROVE  LET U == UnlockedAmount(vault[x], time)
               q == BalancedWithdrawal(Liquid, lp)
           IN  /\ q.burn[x] = Proportion(lp, poolLp[x], lpSupply)
               /\ q.out[x] = Proportion(q.burn[x], U, vault[x].supply)
               /\ q.burn[x] \in 0 .. poolLp[x] /\ q.out[x] \in 0 .. U - 1
               /\ (U - q.out[x]) * vault[x].supply >= U * (vault[x].supply - q.burn[x])
               /\ lp = lpSupply => q.burn[x] = poolLp[x]
<1> DEFINE U == UnlockedAmount(vault[x], time)
           P == vault[x].supply
           p == poolLp[x]
           q == BalancedWithdrawal(Liquid, lp)
<1>1. /\ U \in Nat \ {0} /\ P \in Nat \ {0} /\ p \in 0 .. P - 1 /\ lpSupply \in Nat
      /\ lpSupply = 0 => p = 0
  BY BooksSide
<1>2. q.burn[x] = Proportion(lp, p, lpSupply) /\ q.out[x] = Proportion(q.burn[x], U, P)
  BY DEF BalancedWithdrawal, Burn, Returned, Unlocked, Liquid
<1> HIDE DEF q, U, P, p
<1>3. q.burn[x] \in 0 .. p /\ (lp = lpSupply => q.burn[x] = p)
  <2>1. CASE lpSupply = 0
    BY <1>1, <1>2, <2>1 DEF Proportion
  <2>2. CASE lpSupply # 0
    <3>1. lpSupply \in Nat \ {0} /\ lp \in 0 .. lpSupply /\ p \in Nat
      BY <1>1, <2>2
    <3>2. q.burn[x] \in 0 .. p /\ (p - q.burn[x]) * lpSupply >= p * (lpSupply - lp)
      BY <1>2, <3>1, ProportionFloor
    <3>3. ASSUME lp = lpSupply PROVE q.burn[x] = p
      <4>1. q.burn[x] = (lpSupply * p) \div lpSupply
        BY <1>2, <2>2, <3>3 DEF Proportion
      <4>2. lpSupply * p \in Nat
        BY <3>1, ProductNat
      <4>3. p <= (lpSupply * p) \div lpSupply
        BY <3>1, <4>2, DivAtLeast
      <4> QED
        BY <3>1, <3>2, <4>1, <4>3
    <3> QED
      BY <3>2, <3>3
  <2> QED
    BY <2>1, <2>2
<1>4. q.burn[x] \in 0 .. P - 1 /\ q.burn[x] \in 0 .. P
  BY <1>1, <1>3
<1>5. q.out[x] \in 0 .. U - 1
  BY <1>1, <1>2, <1>4, ProportionBelow
<1>6. (U - q.out[x]) * P >= U * (P - q.burn[x])
  BY <1>1, <1>2, <1>4, ProportionFloor
<1> QED
  BY <1>2, <1>3, <1>5, <1>6 DEF q, U, P, p

\* What a balanced withdrawal leaves of one side.
LEMMA WithdrawalKeepsBooks ==
    ASSUME BooksInv, NEW lp \in Nat, Withdraw(lp)
    PROVE  /\ BooksInv' /\ lpSupply' = lpSupply - lp
           /\ \A x \in Sides :
                 /\ poolLp'[x] = poolLp[x] - Proportion(lp, poolLp[x], lpSupply)
                 /\ UnlockedAmount(vault'[x], time') * vault[x].supply
                       >= UnlockedAmount(vault[x], time) * vault'[x].supply
<1> DEFINE U(x) == UnlockedAmount(vault[x], time)
           q == BalancedWithdrawal(Liquid, lp)
           t == [x \in Sides |-> -q.out[x]]
           m == [x \in Sides |-> -q.burn[x]]
<1>1. /\ lp <= lpSupply /\ \A x \in Sides : q.out[x] <= reserve[x]
      /\ Becomes(Changed(Liquid, t, m, -lp)) /\ Step
  BY DEF Withdraw, AfterWithdrawal
<1>2. ASSUME NEW x \in Sides
      PROVE  /\ U(x) \in Nat \ {0} /\ vault[x].supply \in Nat \ {0}
             /\ poolLp[x] \in 0 .. vault[x].supply - 1 /\ reserve[x] \in Nat /\ lpSupply \in Nat
             /\ vault[x].supply - poolLp[x] = LpSupply - PoolShare
             /\ LpSupply \in Nat /\ PoolShare \in Nat
  BY BooksSide, BoundsAssumption
<1>3. ASSUME NEW x \in Sides
      PROVE  /\ q.burn[x] = Proportion(lp, poolLp[x], lpSupply)
             /\ q.burn[x] \in 0 .. poolLp[x] /\ q.out[x] \in 0 .. U(x) - 1
             /\ (U(x) - q.out[x]) * vault[x].supply >= U(x) * (vault[x].supply - q.burn[x])
             /\ lp = lpSupply => q.burn[x] = poolLp[x]
  BY <1>1, WithdrawalSide
<1>4. steps' \in 0 .. MaxSteps
  BY <1>1, BoundsAssumption DEF BooksInv, BooksOK, TypeOK, Step
<1> HIDE DEF q, U
<1>5. t \in [Sides -> Int] /\ m \in [Sides -> Int]
      /\ \A x \in Sides : t[x] = -q.out[x] /\ m[x] = -q.burn[x]
  BY <1>2, <1>3
<1> HIDE DEF t, m
<1>6. ASSUME NEW x \in Sides
      PROVE  /\ U(x) + t[x] > 0 /\ reserve[x] + t[x] >= 0
             /\ poolLp[x] + m[x] >= 0 /\ vault[x].supply + m[x] > 0
  BY <1>1, <1>2, <1>3, <1>5
<1>7. /\ TypeOK' /\ lpSupply' = lpSupply + (-lp)
      /\ \A x \in Sides : /\ UnlockedAmount(vault'[x], time') = U(x) + t[x]
                          /\ vault'[x].supply = vault[x].supply + m[x]
                          /\ poolLp'[x] = poolLp[x] + m[x]
  <2>1. TypeOK
    BY DEF BooksInv, BooksOK
  <2> QED
    BY <1>1, <1>4, <1>5, <1>6, <2>1, ChangedSides DEF U
<1>8. lpSupply' \in Nat /\ lpSupply' = lpSupply - lp /\ (lpSupply' = 0 => lp = lpSupply)
  <2>1. lpSupply \in Nat
    BY DEF BooksInv, BooksOK
  <2> QED
    BY <1>1, <1>7, <2>1
<1>9. ASSUME NEW x \in Sides
      PROVE  /\ vault'[x].supply - poolLp'[x] = LpSupply - PoolShare
             /\ poolLp'[x] = poolLp[x] - q.burn[x]
             /\ lpSupply' = 0 => poolLp'[x] = 0
  BY <1>2, <1>3, <1>5, <1>7, <1>8
<1>10. BooksInv'
  BY <1>7, <1>8, <1>9 DEF BooksInv, BooksOK, OthersKeepLp
<1>11. ASSUME NEW x \in Sides
       PROVE  UnlockedAmount(vault'[x], time') * vault[x].supply
                 >= U(x) * vault'[x].supply
  <2>1. /\ UnlockedAmount(vault'[x], time') = U(x) - q.out[x]
        /\ vault'[x].supply = vault[x].supply - q.burn[x]
    BY <1>2, <1>3, <1>5, <1>7
  <2> QED
    BY <1>3, <2>1
<1> QED
  BY <1>3, <1>8, <1>9, <1>10, <1>11 DEF U

\* What a deposit of LP tokens costs is some tokens of both sides, and the LP tokens that a
\* quote promises are a number of them.
LEMMA DepositTypes ==
    ASSUME BooksInv, NEW lp \in Nat
    PROVE  ActualIn(Liquid, lp) \in [Sides -> Nat] /\ ActualInUp(Liquid, lp) \in [Sides -> Nat]
<1>1. ASSUME NEW x \in Sides
      PROVE  /\ ActualIn(Liquid, lp)[x] \in Nat /\ ActualInUp(Liquid, lp)[x] \in Nat
  <2> DEFINE U == UnlockedAmount(vault[x], time)
             P == vault[x].supply
             p == poolLp[x]
  <2>1. U \in Nat /\ P \in Nat /\ p \in Nat /\ lpSupply \in Nat
    BY BooksSide
  <2> DEFINE a == ProportionRounded(lp, p, lpSupply)
             b == ProportionUp(lp, p, lpSupply)
  <2>2. /\ ActualIn(Liquid, lp)[x] = ProportionRounded(a, U, P)
        /\ ActualInUp(Liquid, lp)[x] = ProportionUp(b, U, P)
    BY DEF ActualIn, ActualInUp, Unlocked, Liquid
  <2>3. a \in Nat /\ b \in Nat
    BY <2>1, ProportionTypes
  <2> HIDE DEF U, P, p, a, b
  <2>4. ProportionRounded(a, U, P) \in Nat
    BY <2>1, <2>3, ProportionTypes
  <2>5. ProportionUp(b, U, P) \in Nat
    BY <2>1, <2>3, ProportionTypes
  <2> QED
    BY <2>2, <2>4, <2>5
<1>2. /\ ActualIn(Liquid, lp) = [x \in Sides |-> ActualIn(Liquid, lp)[x]]
      /\ ActualInUp(Liquid, lp) = [x \in Sides |-> ActualInUp(Liquid, lp)[x]]
  BY DEF ActualIn, ActualInUp
<1> QED
  BY <1>1, <1>2

\* The LP tokens an amount stands for before the buffer is taken off.
LEMMA DepositShare ==
    ASSUME BooksInv, NEW x \in Sides, NEW amount \in DepositAmounts
    PROVE  Proportion(amount, lpSupply, TokenAmount(Liquid, x)) \in Nat
<1>1. /\ UnlockedAmount(vault[x], time) \in Nat /\ vault[x].supply \in Nat \ {0}
      /\ poolLp[x] \in 0 .. vault[x].supply /\ lpSupply \in Nat
  BY BooksSide
<1>2. TokenAmount(Liquid, x)
         = AmountByShare(poolLp[x], UnlockedAmount(vault[x], time), vault[x].supply)
  BY DEF TokenAmount, Liquid
<1>3. TokenAmount(Liquid, x) \in Nat /\ amount \in Nat
  <2> DEFINE U == UnlockedAmount(vault[x], time)
             t == AmountByShare(poolLp[x], U, vault[x].supply)
  <2>1. t \in 0 .. U
    BY <1>1, WithdrawalKeepsSharePrice
  <2> HIDE DEF t
  <2> QED
    BY <1>1, <1>2, <2>1, LiquidityAssumption DEF t
<1> QED
  BY <1>1, <1>3, ProportionTypes

\* The buffer takes some off.
LEMMA BufferedBelow ==
    ASSUME NEW s \in Nat
    PROVE  Buffered(s) \in 0 .. s
<1>1. s * BufferFactor \in Nat /\ BasisPoints \in Nat \ {0} /\ s * BufferFactor < BasisPoints * (s + 1)
  BY DEF BufferFactor, BasisPoints
<1>2. Buffered(s) < s + 1
  BY <1>1, DivBelow DEF Buffered
<1>3. Buffered(s) \in Nat
  BY <1>1, DivNat DEF Buffered
<1> QED
  BY <1>2, <1>3

\* A deposit that lands takes tokens and adds LP tokens.
LEMMA DepositIsOne ==
    ASSUME BooksInv, NEW x \in Sides, NEW amount \in DepositAmounts, Deposit(x, amount)
    PROVE  \E in \in [Sides -> Nat] : \E lp \in Nat \ {0} :
              Step /\ Becomes(AfterDeposit(Liquid, in, lp))
<1> DEFINE q == BalancedDeposit(Liquid, x, amount)
<1>1. PICK cost \in {ActualIn(Liquid, q.lp), ActualInUp(Liquid, q.lp)} :
          Becomes(AfterDeposit(Liquid, cost, q.lp))
  BY DEF Deposit
<1>2. Step /\ q.lp > 0
  BY DEF Deposit
<1>3. q.lp \in Nat
  <2> DEFINE share == Proportion(amount, lpSupply, TokenAmount(Liquid, x))
  <2>1. share \in Nat /\ q.lp = Buffered(share)
    BY DepositShare DEF BalancedDeposit, Liquid
  <2> HIDE DEF share, q
  <2> QED
    BY <2>1, BufferedBelow
<1> HIDE DEF q
<1>4. cost \in [Sides -> Nat]
  BY <1>1, <1>3, DepositTypes
<1> QED
  BY <1>1, <1>2, <1>3, <1>4

\* So does the first deposit, of an amount of each token.
LEMMA BootstrapIsOne ==
    ASSUME BooksInv, NEW a \in DepositAmounts, NEW b \in DepositAmounts,
           BootstrapLiquidity(a, b)
    PROVE  \E in \in [Sides -> Nat] : \E lp \in Nat \ {0} :
              Step /\ Becomes(AfterDeposit(Liquid, in, lp))
<1> DEFINE q == FirstDeposit(a, b)
<1>1. Step /\ Becomes(AfterDeposit(Liquid, q.in, q.lp))
  BY DEF BootstrapLiquidity
<1>2. a \in Nat \ {0} /\ b \in Nat \ {0}
  BY LiquidityAssumption
<1>3. q.lp = ComputeD(a, b) /\ q.in = [x \in Sides |-> IF x = "A" THEN a ELSE b]
  BY DEF FirstDeposit
<1> HIDE DEF q
<1>4. q.lp \in Nat \ {0}
  <2>1. ComputeD(a, b) \in 0 .. (a + b) /\ ComputeD(a, b) > 0
    BY <1>2, ComputeDValue
  <2> QED
    BY <1>2, <1>3, <2>1
<1>5. q.in \in [Sides -> Nat]
  BY <1>2, <1>3
<1> QED
  BY <1>1, <1>4, <1>5

\* A step of the pool and its vaults alone keeps the pool's LP tokens and the vaults' supply
\* in step, and a pool without LP tokens has nothing to swap.
LEMMA PoolStepKeepsBooks ==
    ASSUME BooksInv, Next, UNCHANGED lpSupply
    PROVE  BooksInv'
<1>1. TypeOK /\ lpSupply \in Nat
  BY DEF BooksInv, BooksOK
<1>2. TypeOK'
  BY <1>1, NextType
<1>3. ASSUME NEW x \in Sides
      PROVE  /\ vault[x].supply \in Nat /\ poolLp[x] \in Nat
             /\ vault[x].supply - poolLp[x] = LpSupply - PoolShare
             /\ lpSupply = 0 => poolLp[x] = 0
  BY BooksSide
<1>4. ASSUME \A x \in Sides : vault'[x].supply = vault[x].supply /\ poolLp'[x] = poolLp[x]
      PROVE  BooksInv'
  BY <1>1, <1>2, <1>3, <1>4 DEF BooksInv, BooksOK, OthersKeepLp
<1>5. ASSUME NEW src \in Sides, NEW amount \in Amounts, NEW w \in BOOLEAN, Swap(src, amount, w)
      PROVE  BooksInv'
  <2> DEFINE dst == Other(src)
             q == TsQuote(Snapshot, src, amount, w)
             st == AfterSwap(Snapshot, src, amount, q)
  <2>1. q.ok /\ q.curveIn >= 0 /\ vault' = st.vault /\ poolLp' = st.poolLp
    BY <1>5 DEF Swap, Traded
  <2>2. amount \in Nat /\ Books(Snapshot)
    BY <1>1, BoundsAssumption, TypeGivesBooks
  <2>3. /\ vault'[src].supply = vault[src].supply + q.lpIn
        /\ vault'[dst].supply = vault[dst].supply - q.lpOut
        /\ poolLp'[src] = poolLp[src] + q.lpIn
        /\ poolLp'[dst] = poolLp[dst] - q.lpOut
    BY <1>1, <2>1, <2>2, AfterSwapUnlocked
  <2>4. q.lpIn \in Nat /\ q.lpOut \in Nat /\ q.lpOut < poolLp[dst]
    BY <2>1, <2>2, TsQuoteIn, TsQuoteOut DEF Snapshot
  <2>5. dst \in Sides /\ \A x \in Sides : x = src \/ x = dst
    BY DEF Sides, Other
  <2> HIDE DEF q, st, dst
  <2>6. lpSupply # 0
    BY <1>3, <2>4, <2>5
  <2>7. \A x \in Sides : vault'[x].supply - poolLp'[x] = LpSupply - PoolShare
    <3>1. vault'[src].supply - poolLp'[src] = LpSupply - PoolShare
      BY <1>3, <2>3, <2>4
    <3>2. vault'[dst].supply - poolLp'[dst] = LpSupply - PoolShare
      BY <1>3, <2>3, <2>4, <2>5
    <3> QED
      BY <2>5, <3>1, <3>2
  <2> QED
    BY <1>1, <1>2, <2>6, <2>7 DEF BooksInv, BooksOK, OthersKeepLp
<1>6. ASSUME NEW enable \in BOOLEAN, EnableOrDisablePool(enable)
      PROVE  BooksInv'
  BY <1>4, <1>6 DEF EnableOrDisablePool
<1>7. ASSUME NEW x \in Sides, NEW profit \in Profits, Report(x, profit)
      PROVE  BooksInv'
  <2>1. \A y \in Sides : vault'[y].supply = vault[y].supply
    BY <1>1, <1>7, ReportKeepsUnlocked
  <2>2. poolLp' = poolLp
    BY <1>7 DEF Report
  <2> QED
    BY <1>4, <2>1, <2>2
<1>8. ASSUME NEW x \in Sides, Rebalance(x)
      PROVE  BooksInv'
  BY <1>4, <1>8 DEF Rebalance
<1>9. CASE Tick
  BY <1>4, <1>9 DEF Tick
<1> QED
  BY <1>5, <1>6, <1>7, <1>8, <1>9 DEF Next

\* The books at first: the other depositors' LP tokens are what the pool's share leaves.
LEMMA InitBooks == LiquidityInit => BooksInv
<1> SUFFICES ASSUME LiquidityInit PROVE BooksInv
  OBVIOUS
<1>1. TypeOK /\ lpSupply \in Nat \ {0}
  BY InitType, LiquidityAssumption DEF LiquidityInit
<1>2. \A x \in Sides : vault[x].supply = LpSupply /\ poolLp[x] = PoolShare
  BY DEF LiquidityInit, Init
<1> QED
  BY <1>1, <1>2 DEF BooksInv, BooksOK, OthersKeepLp

\* Every step keeps the books.
LEMMA NextBooks == BooksInv /\ [LiquidityNext]_liquidityVars => BooksInv'
<1> SUFFICES ASSUME BooksInv, [LiquidityNext]_liquidityVars PROVE BooksInv'
  OBVIOUS
<1>1. CASE Next /\ UNCHANGED lpSupply
  BY <1>1, PoolStepKeepsBooks
<1>2. ASSUME NEW x \in Sides, NEW amount \in DepositAmounts, Deposit(x, amount)
      PROVE  BooksInv'
  BY <1>2, DepositIsOne, DepositKeepsBooks
<1>3. ASSUME NEW a \in DepositAmounts, NEW b \in DepositAmounts, BootstrapLiquidity(a, b)
      PROVE  BooksInv'
  BY <1>3, BootstrapIsOne, DepositKeepsBooks
<1>4. ASSUME NEW lp \in LpAmounts \cup {lpSupply}, Withdraw(lp)
      PROVE  BooksInv'
  <2>1. lp \in Nat
    BY LiquidityAssumption DEF BooksInv, BooksOK
  <2> QED
    BY <1>4, <2>1, WithdrawalKeepsBooks
<1>5. CASE UNCHANGED liquidityVars
  BY <1>5 DEF liquidityVars, vars, BooksInv, BooksOK, OthersKeepLp, TypeOK
<1> QED
  BY <1>1, <1>2, <1>3, <1>4, <1>5 DEF LiquidityNext

\* The books of pool and vaults stay in range, whatever the fees, the amounts and the order
\* of swaps, deposits, withdrawals and events of the vaults; a pool whose last LP token is
\* withdrawn leaves nothing of its own in its vaults.
THEOREM BooksCorrect == LiquiditySpec => []BooksOK
<1>1. LiquidityInit => BooksInv
  BY InitBooks
<1>2. BooksInv /\ [LiquidityNext]_liquidityVars => BooksInv'
  BY NextBooks
<1>3. BooksInv => BooksOK
  BY DEF BooksInv
<1> QED
  BY <1>1, <1>2, <1>3, PTL DEF LiquiditySpec

\* A step that lowers the supply of the pool's LP tokens is a withdrawal, and each side keeps
\* for those who stay at least their part of the vault LP tokens.
LEMMA StepLeavesOthersWhole ==
    BooksInv /\ [LiquidityNext]_liquidityVars => LeavesOthersWhole
<1> SUFFICES ASSUME BooksInv, [LiquidityNext]_liquidityVars,
                    lpSupply' \in 1 .. (lpSupply - 1), NEW x \in Sides
             PROVE  poolLp'[x] * lpSupply >= poolLp[x] * lpSupply'
  BY DEF LeavesOthersWhole
<1>1. lpSupply \in Nat /\ poolLp[x] \in Nat
  BY BooksSide
<1>2. lpSupply' < lpSupply /\ lpSupply' > 0 /\ lpSupply \in Nat \ {0}
  BY <1>1
<1>3. ASSUME NEW lp \in LpAmounts \cup {lpSupply}, Withdraw(lp)
      PROVE  poolLp'[x] * lpSupply >= poolLp[x] * lpSupply'
  <2>1. lp \in Nat /\ lp <= lpSupply
    BY <1>1, <1>3, LiquidityAssumption DEF Withdraw
  <2>2. /\ lpSupply' = lpSupply - lp
        /\ poolLp'[x] = poolLp[x] - Proportion(lp, poolLp[x], lpSupply)
    BY <1>3, <2>1, WithdrawalKeepsBooks
  <2>3. lp \in 0 .. lpSupply
    BY <1>1, <2>1
  <2>4. (poolLp[x] - Proportion(lp, poolLp[x], lpSupply)) * lpSupply
           >= poolLp[x] * (lpSupply - lp)
    BY <1>1, <1>2, <2>3, ProportionFloor
  <2> QED
    BY <2>2, <2>4
<1>4. ASSUME NEW in \in [Sides -> Nat], NEW lp \in Nat \ {0}, Step,
             Becomes(AfterDeposit(Liquid, in, lp))
      PROVE  FALSE
  <2>1. lpSupply' = lpSupply + lp
    BY <1>4, DepositKeepsBooks
  <2> QED
    BY <1>1, <1>2, <2>1
<1>5. ASSUME NEW y \in Sides, NEW amount \in DepositAmounts, Deposit(y, amount)
      PROVE  FALSE
  BY <1>4, <1>5, DepositIsOne
<1>6. ASSUME NEW a \in DepositAmounts, NEW b \in DepositAmounts, BootstrapLiquidity(a, b)
      PROVE  FALSE
  BY <1>4, <1>6, BootstrapIsOne
<1>7. lpSupply' # lpSupply
  BY <1>1, <1>2
<1> QED
  BY <1>3, <1>5, <1>6, <1>7 DEF LiquidityNext, liquidityVars

\* No withdrawal, and nothing else that lowers the supply of LP tokens, takes from those who
\* stay: of neither vault does an LP token of the pool stand for less than before.
THEOREM WithdrawalLeavesOthersWholeHolds == LiquiditySpec => WithdrawalLeavesOthersWhole
<1>1. LiquidityInit => BooksInv
  BY InitBooks
<1>2. BooksInv /\ [LiquidityNext]_liquidityVars => BooksInv'
  BY NextBooks
<1>3. BooksInv /\ [LiquidityNext]_liquidityVars => LeavesOthersWhole
  BY StepLeavesOthersWhole
<1> QED
  BY <1>1, <1>2, <1>3, PTL DEF LiquiditySpec, WithdrawalLeavesOthersWhole

\* A larger share is worth at least as much.
LEMMA ProportionMono ==
    ASSUME NEW p \in Nat, NEW L \in Nat \ {0}, NEW l \in Nat, NEW k \in Nat, l <= k
    PROVE  Proportion(l, p, L) <= Proportion(k, p, L)
<1> DEFINE a == l * p
           b == k * p
<1>1. a \in Nat /\ b \in Nat /\ a <= b
  BY ProductNat, ProductMono
<1>2. Proportion(l, p, L) = a \div L /\ Proportion(k, p, L) = b \div L
  BY DEF Proportion
<1> HIDE DEF a, b
<1> QED
  BY <1>1, <1>2, DivMono

\* The second share may also be none.
LEMMA SplitOrNone ==
    ASSUME NEW p \in Nat, NEW L \in Nat \ {0}, NEW l \in Nat, NEW k \in Nat, l + k <= L
    PROVE  LET a == Proportion(l, p, L)
               b == Proportion(k, p - a, L - l)
               c == Proportion(l + k, p, L)
           IN  a \in 0 .. p /\ b \in Nat /\ c \in 0 .. p /\ a + b <= c
<1> DEFINE a == Proportion(l, p, L)
<1>1. l \in 0 .. L /\ l + k \in 0 .. L
  OBVIOUS
<1>2. a \in 0 .. p /\ Proportion(l + k, p, L) \in 0 .. p
  BY <1>1, ProportionFloor
<1>3. CASE k # 0
  BY <1>2, <1>3, SplitProportion
<1>4. CASE k = 0
  <2>1. Proportion(0, p - a, L - l) = 0
    <3>1. p - a \in Nat /\ L - l \in Nat
      BY <1>1, <1>2
    <3> DEFINE n == p - a
               d == L - l
    <3>2. n \in Nat /\ d \in Nat
      BY <3>1
    <3> HIDE DEF n, d
    <3>3. Proportion(0, n, d) = 0
      BY <3>2, Z3 DEF Proportion
    <3> QED
      BY <3>3 DEF n, d
  <2>2. l + k = l
    BY <1>4
  <2> HIDE DEF a
  <2> QED
    BY <1>2, <1>4, <2>1, <2>2 DEF a
<1> QED
  BY <1>3, <1>4

\* One side of two withdrawals, in numbers: of the pool's p of the vault's P LP tokens the
\* first burns b1 and the second b2, for U tokens unlocked.
LEMMA SplitSide ==
    ASSUME NEW U \in Nat, NEW P \in Nat, NEW p \in 0 .. P - 1,
           NEW L \in Nat \ {0}, NEW l \in Nat, NEW k \in Nat, l + k <= L
    PROVE  LET b1 == Proportion(l, p, L)
               o1 == Proportion(b1, U, P)
               b2 == Proportion(k, p - b1, L - l)
               o2 == Proportion(b2, U - o1, P - b1)
           IN  o1 + o2 <= Proportion(Proportion(l + k, p, L), U, P)
<1> DEFINE b1 == Proportion(l, p, L)
           b2 == Proportion(k, p - b1, L - l)
           b == Proportion(l + k, p, L)
<1>1. p \in Nat /\ P \in Nat \ {0}
  OBVIOUS
<1>2. b1 \in 0 .. p /\ b2 \in Nat /\ b \in 0 .. p /\ b1 + b2 <= b
  BY <1>1, SplitOrNone
<1> HIDE DEF b1, b2, b
<1>3. b1 \in Nat /\ b2 \in Nat /\ b \in Nat /\ b1 + b2 \in Nat /\ b1 + b2 <= P
  BY <1>1, <1>2
<1> DEFINE o1 == Proportion(b1, U, P)
           o2 == Proportion(b2, U - o1, P - b1)
<1>4. o1 \in Nat /\ o2 \in Nat /\ o1 + o2 <= Proportion(b1 + b2, U, P)
  <2>1. /\ o1 \in 0 .. U /\ o2 \in Nat /\ Proportion(b1 + b2, U, P) \in 0 .. U
        /\ o1 + o2 <= Proportion(b1 + b2, U, P)
    BY <1>1, <1>3, SplitOrNone, SMTT(60)
  <2> HIDE DEF o1, o2
  <2> QED
    BY <2>1
<1>5. Proportion(b1 + b2, U, P) <= Proportion(b, U, P)
  BY <1>1, <1>2, <1>3, ProportionMono
<1>6. Proportion(b1 + b2, U, P) \in Nat /\ Proportion(b, U, P) \in Nat
  BY <1>1, <1>3, ProportionTypes
<1> HIDE DEF o1, o2
<1>7. o1 + o2 <= Proportion(b, U, P)
  BY <1>4, <1>5, <1>6
<1> QED
  BY <1>7 DEF o1, o2, b1, b2, b

\* The side that a withdrawal of l leaves.
LEMMA AfterWithdrawalSide ==
    ASSUME BooksInv, NEW l \in Nat, l <= lpSupply, NEW x \in Sides
    PROVE  LET q == BalancedWithdrawal(Liquid, l)
               st == AfterWithdrawal(Liquid, l, q)
           IN  /\ st.lp = lpSupply - l
               /\ st.poolLp[x] = poolLp[x] - q.burn[x]
               /\ st.vault[x].supply = vault[x].supply - q.burn[x]
               /\ Unlocked(st, x) = UnlockedAmount(vault[x], time) - q.out[x]
<1> DEFINE q == BalancedWithdrawal(Liquid, l)
           st == AfterWithdrawal(Liquid, l, q)
<1>1. /\ UnlockedAmount(vault[x], time) \in Nat /\ vault[x].supply \in Nat
      /\ poolLp[x] \in Nat /\ lpSupply \in Nat
  BY BooksSide
<1>2. q.burn[x] \in Nat /\ q.out[x] \in Nat
  <2>1. q.burn[x] \in 0 .. poolLp[x] /\ q.out[x] \in 0 .. UnlockedAmount(vault[x], time) - 1
    BY WithdrawalSide
  <2> QED
    BY <1>1, <2>1
<1>3. vault[x].total \in Nat /\ LockedProfit(vault[x], time) \in Nat
  <2>1. vault[x] \in VaultRecord /\ time \in Nat /\ vault[x].report <= time
    BY BoundsAssumption DEF BooksInv, BooksOK, TypeOK, VaultRecord
  <2>2. LockedProfit(vault[x], time) \in 0 .. vault[x].locked
    BY <2>1, LockedProfitFalls
  <2> QED
    BY <2>1, <2>2 DEF VaultRecord
<1> HIDE DEF q
<1>4. /\ st.time = time /\ st.lp = lpSupply + (-l)
      /\ st.poolLp[x] = poolLp[x] + (-q.burn[x])
      /\ st.vault[x].supply = vault[x].supply + (-q.burn[x])
      /\ st.vault[x].total = vault[x].total + (-q.out[x])
      /\ st.vault[x].locked = vault[x].locked /\ st.vault[x].report = vault[x].report
  BY DEF AfterWithdrawal, Changed, Moved, Liquid
<1> HIDE DEF st
<1>5. LockedProfit(st.vault[x], time) = LockedProfit(vault[x], time)
  BY <1>4, SameLocked
<1>6. Unlocked(st, x) = UnlockedAmount(vault[x], time) - q.out[x]
  BY <1>2, <1>3, <1>4, <1>5 DEF Unlocked, UnlockedAmount
<1> QED
  BY <1>1, <1>2, <1>4, <1>6 DEF q, st

\* Two withdrawals one after the other return no more than one of both amounts, whatever the
\* rounding of the first leaves for the second to share in.
THEOREM SplitWithdrawalNeverGainsHolds == LiquiditySpec => []SplitWithdrawalNeverGains
<1>1. BooksInv => SplitWithdrawalNeverGains
  <2> SUFFICES ASSUME BooksInv, NEW l \in LpAmounts, NEW k \in LpAmounts, l + k <= lpSupply,
                      NEW x \in Sides
               PROVE  LET first == BalancedWithdrawal(Liquid, l)
                          second == BalancedWithdrawal(AfterWithdrawal(Liquid, l, first), k)
                          atOnce == BalancedWithdrawal(Liquid, l + k)
                      IN  first.out[x] + second.out[x] <= atOnce.out[x]
    BY DEF SplitWithdrawalNeverGains
  <2> DEFINE U == UnlockedAmount(vault[x], time)
             P == vault[x].supply
             p == poolLp[x]
             first == BalancedWithdrawal(Liquid, l)
             st == AfterWithdrawal(Liquid, l, first)
             second == BalancedWithdrawal(st, k)
             atOnce == BalancedWithdrawal(Liquid, l + k)
  <2>1. U \in Nat /\ P \in Nat /\ p \in 0 .. P - 1 /\ lpSupply \in Nat
    BY BooksSide
  <2>2. /\ l \in Nat /\ k \in Nat /\ l + k \in Nat /\ l <= lpSupply
        /\ lpSupply \in Nat \ {0}
    BY <2>1, LiquidityAssumption
  <2>3. first.burn[x] = Proportion(l, p, lpSupply) /\ first.out[x] = Proportion(first.burn[x], U, P)
    BY <2>2, WithdrawalSide
  <2>4. /\ st.lp = lpSupply - l /\ st.poolLp[x] = p - first.burn[x]
        /\ st.vault[x].supply = P - first.burn[x]
        /\ Unlocked(st, x) = U - first.out[x]
    BY <2>2, AfterWithdrawalSide
  <2>5. atOnce.out[x] = Proportion(Proportion(l + k, p, lpSupply), U, P)
    BY <2>2, WithdrawalSide
  <2> HIDE DEF first, st, atOnce, U, P, p
  <2>6. second.out[x]
           = Proportion(Proportion(k, st.poolLp[x], st.lp), Unlocked(st, x), st.vault[x].supply)
    BY DEF BalancedWithdrawal, Burn, Returned
  <2> HIDE DEF second
  <2>7. first.out[x] + second.out[x] <= atOnce.out[x]
    BY <2>1, <2>2, <2>3, <2>4, <2>5, <2>6, SplitSide
  <2> QED
    BY <2>7 DEF first, st, second, atOnce
<1>2. LiquidityInit => BooksInv
  BY InitBooks
<1>3. BooksInv /\ [LiquidityNext]_liquidityVars => BooksInv'
  BY NextBooks
<1> QED
  BY <1>1, <1>2, <1>3, PTL DEF LiquiditySpec

(***************************************************************************)
(* What PoolSwap_proofs shows of swaps goes on holding.                    *)
(***************************************************************************)

\* The quotes of a swap keep their promises while liquidity comes and goes between the swaps:
\* there and back never gains, the Rust quote never exceeds the TypeScript one, and a
\* launcher's quote is the launched pool's.
THEOREM SwapQuotesHoldWithLiquidity ==
    LiquiditySpec => [](RoundTripNeverGains /\ RustNeverAboveTs /\ LaunchQuoteIsExact)
<1>1. BooksOK => RoundTripNeverGains /\ RustNeverAboveTs /\ LaunchQuoteIsExact
  BY TypeGivesRoundTrip, TypeGivesRustBelow, TypeGivesLaunchQuote DEF BooksOK
<1> QED
  BY <1>1, BooksCorrect, PTL

\* A deposit or a withdrawal of the pool does not lower what an LP token of a vault stands
\* for, any more than a swap, a report of the vault or the time that passes.
LEMMA StepKeepsVaultSharesOfAll ==
    BooksInv /\ [LiquidityNext]_liquidityVars => KeepsVaultShares
<1> SUFFICES ASSUME BooksInv, [LiquidityNext]_liquidityVars PROVE KeepsVaultShares
  OBVIOUS
<1>1. TypeOK
  BY DEF BooksInv, BooksOK
<1>2. CASE [Next]_vars
  BY <1>1, <1>2, StepKeepsVaultShares
<1>3. ASSUME NEW in \in [Sides -> Nat], NEW lp \in Nat \ {0}, Step,
             Becomes(AfterDeposit(Liquid, in, lp))
      PROVE  KeepsVaultShares
  BY <1>3, DepositKeepsBooks DEF KeepsVaultShares
<1>4. ASSUME NEW x \in Sides, NEW amount \in DepositAmounts, Deposit(x, amount)
      PROVE  KeepsVaultShares
  BY <1>3, <1>4, DepositIsOne
<1>5. ASSUME NEW a \in DepositAmounts, NEW b \in DepositAmounts, BootstrapLiquidity(a, b)
      PROVE  KeepsVaultShares
  BY <1>3, <1>5, BootstrapIsOne
<1>6. ASSUME NEW lp \in LpAmounts \cup {lpSupply}, Withdraw(lp)
      PROVE  KeepsVaultShares
  <2>1. lp \in Nat
    BY LiquidityAssumption DEF BooksInv, BooksOK
  <2> QED
    BY <1>6, <2>1, WithdrawalKeepsBooks DEF KeepsVaultShares
<1> QED
  BY <1>2, <1>4, <1>5, <1>6 DEF LiquidityNext, liquidityVars

\* The other depositors of a vault are never diluted, with the pool's deposits and
\* withdrawals among the steps.
THEOREM LiquidityNeverDilutesVaultShares == LiquiditySpec => [][KeepsVaultShares]_liquidityVars
<1>1. LiquidityInit => BooksInv
  BY InitBooks
<1>2. BooksInv /\ [LiquidityNext]_liquidityVars => BooksInv'
  BY NextBooks
<1>3. BooksInv /\ [LiquidityNext]_liquidityVars => KeepsVaultShares
  BY StepKeepsVaultSharesOfAll
<1> QED
  BY <1>1, <1>2, <1>3, PTL DEF LiquiditySpec

(***************************************************************************)
(* A deposit and its withdrawal.                                           *)
(***************************************************************************)

\* divRound is within half of the quotient.
LEMMA DivRoundBounds ==
    ASSUME NEW n \in Nat, NEW d \in Nat \ {0}
    PROVE  /\ DivRound(n, d) \in Nat
           /\ 2 * (d * DivRound(n, d)) <= 2 * n + d
           /\ 2 * n < 2 * (d * DivRound(n, d)) + d
<1> DEFINE k == 2 * n + d
           e == 2 * d
           q == k \div e
<1>1. k \in Nat /\ e \in Nat \ {0}
  OBVIOUS
<1> HIDE DEF k, e
<1>2. q \in Nat /\ e * q <= k /\ k < e * q + e
  BY <1>1, DivNat, DivBounds
<1> HIDE DEF q
<1>3. e * q = 2 * (d * q)
  BY <1>2, Z3 DEF e
<1>4. d * q \in Nat
  BY <1>2, ProductNat
<1>5. DivRound(n, d) = q
  BY DEF DivRound, q, k, e
<1> QED
  BY <1>2, <1>3, <1>4, <1>5 DEF k, e

\* A withdrawal that burns no more vault LP tokens than the deposit minted returns no more
\* than was deposited.
LEMMA MintedReturnsLess ==
    ASSUME NEW U \in Nat \ {0}, NEW P \in Nat \ {0}, NEW i \in Nat, NEW m \in Nat, NEW b \in Nat,
           U * m <= i * P, b <= m
    PROVE  b * (U + i) < (i + 1) * (P + m)
<1>1. b * (U + i) <= m * (U + i)
  BY ProductMono
<1>2. m * (U + i) = U * m + m * i
  BY Z3
<1>3. (i + 1) * (P + m) = i * P + m * i + P + m
  BY Z3
<1>4. b * (U + i) \in Nat /\ m * i \in Nat /\ U * m \in Nat /\ i * P \in Nat
  BY ProductNat
<1> QED
  BY <1>1, <1>2, <1>3, <1>4

\* One that burns more burns no more than the deposit was to mint, and is of a pool that has
\* more vault LP tokens than twice that.
LEMMA UnmintedIsSmall ==
    ASSUME NEW p \in Nat, NEW L \in Nat \ {0}, NEW s \in Nat, NEW lp \in 0 .. s,
           NEW a \in Nat, NEW m \in Nat, NEW b \in Nat,
           2 * (s * p) < 2 * (L * a) + L, (L + lp) * b <= lp * (p + m), b > m
    PROVE  /\ b <= a
           /\ a = b => 2 * a + 1 < p
<1> DEFINE r == p - 1
<1>1. L * b <= lp * r
  <2>1. (L + lp) * b = L * b + lp * b
    BY Z3
  <2>2. lp * (p + m) = lp * r + lp * (m + 1)
    BY Z3
  <2>3. lp * (m + 1) <= lp * b
    BY ProductMono
  <2>4. /\ L * b \in Int /\ lp * b \in Int /\ lp * r \in Int /\ lp * (m + 1) \in Int
    BY Z3
  <2> QED
    BY <2>1, <2>2, <2>3, <2>4
<1>2. L * b \in Nat \ {0}
  <2>1. b >= 1 /\ L >= 1
    OBVIOUS
  <2> QED
    BY <2>1, Z3
<1>3. r \in Nat \ {0}
  <2>1. CASE r <= 0
    <3>1. lp * r <= lp * 0 /\ lp * 0 = 0
      <4>1. r \in Int /\ 0 \in Int /\ lp \in Nat
        OBVIOUS
      <4>2. lp * 0 = 0
        OBVIOUS
      <4> HIDE DEF r
      <4> QED
        BY <2>1, <4>1, <4>2, ProductMono
    <3> QED
      BY <1>1, <1>2, <3>1, Z3
  <2> QED
    BY <2>1
<1>4. /\ lp * r \in Nat /\ s * r \in Nat /\ s * p \in Nat /\ L * a \in Nat
      /\ lp * r <= s * r /\ s * r <= s * p /\ s * p = s * r + s
  <2>1. lp \in Nat /\ lp <= s
    OBVIOUS
  <2>2. s * p = s * r + s
    BY Z3
  <2> HIDE DEF r
  <2> QED
    BY <1>3, <2>1, <2>2, ProductNat, ProductMono
<1>5. b <= a
  <2>1. 2 * (L * b) < 2 * (L * a) + L
    BY <1>1, <1>2, <1>4
  <2>2. L * (2 * b) < L * (2 * a + 1)
    <3>1. L * (2 * b) = 2 * (L * b) /\ L * (2 * a + 1) = 2 * (L * a) + L
      BY Z3
    <3> QED
      BY <2>1, <3>1
  <2>3. 2 * b < 2 * a + 1
    <3>1. 2 * b \in Int /\ 2 * a + 1 \in Int
      OBVIOUS
    <3> QED
      BY <2>2, <3>1, Cancel
  <2> QED
    BY <2>3
<1>6. ASSUME a = b PROVE 2 * a + 1 < p
  <2>1. p * (L * a) <= p * (lp * r)
    <3>1. L * a \in Int /\ lp * r \in Int /\ L * a <= lp * r
      BY <1>1, <1>4, <1>6
    <3> HIDE DEF r
    <3> QED
      BY <3>1, ProductMono
  <2>2. p * (lp * r) <= r * (s * p)
    <3>1. p * (lp * r) = r * (lp * p)
      BY Z3
    <3>2. lp * p <= s * p /\ lp * p \in Int /\ s * p \in Int
      BY <1>4, ProductMono, Z3
    <3> HIDE DEF r
    <3>3. r * (lp * p) <= r * (s * p)
      BY <1>3, <3>2, ProductMono
    <3> QED
      BY <3>1, <3>3
  <2>3. r * (2 * (s * p)) < r * (2 * (L * a) + L)
    <3> DEFINE u == 2 * (s * p)
               v == 2 * (L * a) + L
    <3>1. u \in Int /\ v \in Int /\ u + 1 <= v
      BY <1>4
    <3> HIDE DEF u, v, r
    <3>2. r * (u + 1) <= r * v /\ r * (u + 1) = r * u + r
      BY <1>3, <3>1, ProductMono, Z3
    <3>3. r * u \in Int /\ r * v \in Int
      BY <1>3, <3>1, Z3
    <3>4. r * u < r * v
      BY <1>3, <3>2, <3>3
    <3> QED
      BY <3>4 DEF u, v
  <2>4. /\ p * (L * a) = L * (a * r) + L * a
        /\ r * (2 * (s * p)) = 2 * (r * (s * p))
        /\ r * (2 * (L * a) + L) = 2 * (L * (a * r)) + L * r
    BY Z3
  <2>5. L * (a * r) \in Int /\ r * (s * p) \in Int /\ L * r \in Int /\ p * (lp * r) \in Int
    BY <1>3, Z3
  <2>6. 2 * (L * a) < L * r
    <3> HIDE DEF r
    <3> QED
      BY <1>4, <2>1, <2>2, <2>3, <2>4, <2>5
  <2>7. L * (2 * a) < L * r /\ 2 * a \in Int /\ r \in Int
    <3>1. L * (2 * a) = 2 * (L * a)
      BY Z3
    <3> QED
      BY <2>6, <3>1
  <2>8. 2 * a < r
    <3> HIDE DEF r
    <3> QED
      BY <2>7, Cancel
  <2> QED
    BY <2>8
<1> QED
  BY <1>5, <1>6

\* One that burns more returns no more all the same if the vault's LP tokens stand for at
\* most two tokens: the tokens were rounded down from those of a whole LP token more.
LEMMA UnmintedReturnsLess ==
    ASSUME NEW U \in Nat \ {0}, NEW P \in Nat \ {0}, NEW i \in Nat, NEW a \in Nat,
           NEW m \in Nat, NEW b \in Nat, U <= 2 * P, b > m, b <= a, a = b => 2 * a + 1 < P,
           i * P < U * m + U, 2 * (a * U) < 2 * (P * i) + P
    PROVE  b * (U + i) < (i + 1) * (P + m)
<1> SUFFICES ASSUME b * (U + i) >= (i + 1) * (P + m) PROVE FALSE
  <2>1. b * (U + i) \in Int /\ (i + 1) * (P + m) \in Int
    BY Z3
  <2> QED
    BY <2>1
<1>1. i * P = P * i /\ P * i \in Nat /\ a * U \in Nat /\ U * m \in Nat /\ b * U \in Nat
  BY ProductNat
<1>2. CASE 2 * U < P
  <2> DEFINE K == U + i
             Q == (i + 1) * P - b * U
  <2>1. K \in Nat \ {0} /\ Q \in Int /\ Q >= U
    <3>1. (i + 1) * P = P * i + P
      BY Z3
    <3>2. b * U <= a * U
      BY ProductMono
    <3> QED
      BY <1>1, <1>2, <3>1, <3>2
  <2>2. (i + 1) * (K * P - U + 1) <= (i + 1) * (U * (P + m))
    <3>1. K * P = U * P + i * P /\ U * (P + m) = U * P + U * m /\ U * P \in Int
      BY Z3
    <3>2. K * P - U + 1 <= U * (P + m) /\ K * P - U + 1 \in Int /\ U * (P + m) \in Int
      BY <1>1, <3>1
    <3> DEFINE u == K * P - U + 1
               v == U * (P + m)
    <3>3. u \in Int /\ v \in Int /\ u <= v
      BY <3>2
    <3> HIDE DEF u, v
    <3>4. (i + 1) * u <= (i + 1) * v
      BY <3>3, ProductMono
    <3> QED
      BY <3>4 DEF u, v
  <2>3. U * ((i + 1) * (P + m)) <= U * (b * K)
    <3>1. (i + 1) * (P + m) \in Int /\ b * K \in Int
      BY Z3
    <3> HIDE DEF K
    <3> QED
      BY <3>1, ProductMono DEF K
  <2>4. /\ U * ((i + 1) * (P + m)) = (i + 1) * (U * (P + m))
        /\ U * (b * K) = K * (b * U)
        /\ (i + 1) * (K * P - U + 1) = K * ((i + 1) * P) - (i + 1) * (U - 1)
        /\ K * Q = K * ((i + 1) * P) - K * (b * U)
    BY Z3
  <2>5. /\ K * ((i + 1) * P) \in Int /\ K * (b * U) \in Int /\ (i + 1) * (U - 1) \in Int
        /\ (i + 1) * (U * (P + m)) \in Int /\ K * Q \in Int /\ (i + 1) * U \in Int
    BY Z3
  <2> HIDE DEF K, Q
  <2>6. K * Q <= (i + 1) * (U - 1)
    BY <2>2, <2>3, <2>4, <2>5
  <2>7. K * U <= K * Q
    BY <2>1, ProductMono
  <2>8. (i + 1) * U <= K * U
    <3>1. i + 1 <= K /\ i + 1 \in Int /\ K \in Int
      BY DEF K
    <3> QED
      BY <3>1, ProductMono
  <2>9. (i + 1) * (U - 1) = (i + 1) * U - (i + 1) /\ K * U \in Int
    BY <2>1, Z3
  <2> QED
    BY <2>5, <2>6, <2>7, <2>8, <2>9
<1>3. CASE 2 * U >= P
  <2>1. a = b /\ m = a - 1
    <3>1. U * (2 * (m + 1)) = 2 * (U * m) + 2 * U /\ U * (2 * a - 2) = 2 * (a * U) - 2 * U
      BY Z3
    <3>2. U * (2 * a - 2) < U * (2 * (m + 1))
      BY <1>1, <1>3, <3>1
    <3>3. 2 * a - 2 < 2 * (m + 1)
      <4>1. 2 * a - 2 \in Int /\ 2 * (m + 1) \in Int
        OBVIOUS
      <4> QED
        BY <3>2, <4>1, Cancel
    <3> QED
      BY <3>3
  <2>2. i * P - i <= a * U - P - a + 1
    <3>1. b * (U + i) = a * U + a * i
      BY <2>1, Z3
    <3>2. (i + 1) * (P + m) = i * P + (a * i - i) + P + (a - 1)
      BY <2>1, Z3
    <3>3. a * i \in Int
      BY Z3
    <3> QED
      BY <1>1, <3>1, <3>2, <3>3
  <2> DEFINE u == i * P - i
             v == a * U - P - a + 1
             w == 2 * (a * U)
             z == 2 * (P * i) + P
             r == P - 1
  <2>3. u \in Int /\ v \in Int /\ w \in Int /\ z \in Int /\ r \in Nat /\ u <= v /\ w <= z
    BY <1>1, <2>2
  <2>4. /\ P * u = P * (P * i) - P * i
        /\ P * v = P * (a * U) - P * P - P * a + P
        /\ r * w = 2 * (P * (a * U)) - 2 * (a * U)
        /\ r * z = 2 * (P * (P * i)) - 2 * (P * i) + P * P - P
    BY Z3
  <2> HIDE DEF u, v, w, z, r
  <2>5. P * u <= P * v /\ r * w <= r * z
    BY <2>3, ProductMono
  <2>6. P * (P * i) \in Int /\ P * (a * U) \in Int /\ P * P \in Int /\ P * a \in Int
    BY Z3
  <2>7. P * P + 2 * (P * a) <= 2 * (a * U) + P
    BY <1>1, <2>4, <2>5, <2>6
  <2>8. a * U <= 2 * (P * a)
    <3>1. a * U <= a * (2 * P)
      BY ProductMono
    <3>2. a * (2 * P) = 2 * (P * a)
      BY Z3
    <3> QED
      BY <3>1, <3>2
  <2>9. P * P <= P * (2 * a + 1)
    <3>1. P * (2 * a + 1) = 2 * (P * a) + P
      BY Z3
    <3> QED
      BY <1>1, <2>6, <2>7, <2>8, <3>1
  <2>10. P <= 2 * a + 1
    <3>1. P \in Int /\ 2 * a + 1 \in Int
      OBVIOUS
    <3> QED
      BY <2>9, <3>1, Cancel
  <2> QED
    BY <2>1, <2>10
<1> QED
  BY <1>2, <1>3

\* One side of a deposit and its withdrawal, in numbers: s LP tokens cost i tokens, for which
\* the vault mints m of its LP tokens, and the withdrawal of lp of them burns b.
LEMMA DepositWithdrawSide ==
    ASSUME NEW U \in Nat \ {0}, NEW P \in Nat \ {0}, NEW p \in 0 .. P, NEW L \in Nat \ {0},
           NEW s \in Nat, NEW lp \in 0 .. s, U <= 2 * P
    PROVE  LET i == ProportionRounded(ProportionRounded(s, p, L), U, P)
               m == UnmintAmount(i, U, P)
               b == Proportion(lp, p + m, L + lp)
           IN  Proportion(b, U + i, P + m) <= i
<1> DEFINE a == ProportionRounded(s, p, L)
           i == ProportionRounded(a, U, P)
           m == UnmintAmount(i, U, P)
           b == Proportion(lp, p + m, L + lp)
<1>1. a \in Nat /\ 2 * (s * p) < 2 * (L * a) + L
  <2>1. s * p \in Nat
    BY ProductNat
  <2> DEFINE n == s * p
  <2> HIDE DEF n
  <2>2. DivRound(n, L) \in Nat /\ 2 * n < 2 * (L * DivRound(n, L)) + L
    BY <2>1, DivRoundBounds DEF n
  <2> QED
    BY <2>2 DEF ProportionRounded, n
<1> HIDE DEF a
<1>2. i \in Nat /\ 2 * (a * U) < 2 * (P * i) + P
  <2> DEFINE n == a * U
  <2>1. n \in Nat
    BY <1>1, ProductNat
  <2> HIDE DEF n
  <2>2. DivRound(n, P) \in Nat /\ 2 * n < 2 * (P * DivRound(n, P)) + P
    BY <2>1, DivRoundBounds
  <2> QED
    BY <2>2 DEF ProportionRounded, n
<1> HIDE DEF i
<1>3. m \in Nat /\ U * m <= i * P /\ i * P < U * m + U
  <2> DEFINE n == i * P
  <2>1. n \in Nat
    BY <1>2, ProductNat
  <2> HIDE DEF n
  <2>2. n \div U \in Nat /\ U * (n \div U) <= n /\ n < U * (n \div U) + U
    BY <2>1, DivNat, DivBounds
  <2> QED
    BY <2>2 DEF UnmintAmount, n
<1> HIDE DEF m
<1>4. b \in Nat /\ (L + lp) * b <= lp * (p + m)
  <2> DEFINE n == lp * (p + m)
             d == L + lp
  <2>1. n \in Nat /\ d \in Nat \ {0}
    <3>1. lp \in Nat /\ p + m \in Nat
      BY <1>3
    <3> QED
      BY <3>1, ProductNat
  <2>2. b = IF d = 0 THEN 0 ELSE n \div d
    BY DEF Proportion
  <2> HIDE DEF n, d, b
  <2>3. n \div d \in Nat /\ d * (n \div d) <= n
    BY <2>1, DivNat, DivBounds
  <2> QED
    BY <2>1, <2>2, <2>3 DEF n, d
<1> HIDE DEF b
<1>5. b * (U + i) < (i + 1) * (P + m)
  <2>1. CASE b <= m
    BY <1>2, <1>3, <1>4, <2>1, MintedReturnsLess
  <2>2. CASE b > m
    <3>1. p \in Nat
      OBVIOUS
    <3>2. b <= a /\ (a = b => 2 * a + 1 < p)
      BY <1>1, <1>3, <1>4, <2>2, <3>1, UnmintedIsSmall
    <3>3. a = b => 2 * a + 1 < P
      BY <1>1, <3>1, <3>2
    <3> QED
      BY <1>1, <1>2, <1>3, <1>4, <2>2, <3>2, <3>3, UnmintedReturnsLess
  <2> QED
    BY <1>3, <1>4, <2>1, <2>2
<1>6. Proportion(b, U + i, P + m) <= i
  <2> DEFINE n == b * (U + i)
             d == P + m
             j == i + 1
  <2>1. n \in Int /\ d \in Nat \ {0} /\ j \in Int /\ n < d * j
    <3>1. d * j = (i + 1) * (P + m)
      BY <1>2, <1>3, Z3
    <3>2. b * (U + i) \in Nat
      <4>1. U + i \in Nat
        BY <1>2
      <4> QED
        BY <1>4, <4>1, ProductNat
    <3> QED
      BY <1>2, <1>3, <1>5, <3>1, <3>2
  <2>2. Proportion(b, U + i, P + m) = IF d = 0 THEN 0 ELSE n \div d
    BY DEF Proportion
  <2>3. j = i + 1
    OBVIOUS
  <2> HIDE DEF n, d, j
  <2>4. n \div d < j /\ n \div d \in Int
    BY <2>1, DivBelow, DivBounds
  <2> QED
    BY <1>2, <2>1, <2>2, <2>3, <2>4
<1> QED
  BY <1>6 DEF a, i, m, b

\* Depositing a quote's amounts and withdrawing the LP tokens it promised returns no more of
\* a token than was deposited, for any pool, vaults and amount, as long as the token's vault
\* has not earned as much again as was deposited with it.
THEOREM DepositThenWithdrawNeverGainsHolds == LiquiditySpec => []DepositThenWithdrawNeverGains
<1>1. BooksInv => DepositThenWithdrawNeverGains
  <2> SUFFICES ASSUME BooksInv, NEW x \in Sides, NEW amount \in DepositAmounts,
                      lpSupply > 0, BalancedDeposit(Liquid, x, amount).lp > 0, NEW y \in Sides,
                      Unlocked(Liquid, y) <= DearShare * vault[y].supply
               PROVE  LET q == BalancedDeposit(Liquid, x, amount)
                          back == BalancedWithdrawal(AfterDeposit(Liquid, q.in, q.lp), q.lp)
                      IN  back.out[y] <= q.in[y]
    BY DEF DepositThenWithdrawNeverGains
  <2> DEFINE U == UnlockedAmount(vault[y], time)
             P == vault[y].supply
             p == poolLp[y]
             s == Proportion(amount, lpSupply, TokenAmount(Liquid, x))
             q == BalancedDeposit(Liquid, x, amount)
             i == q.in[y]
             m == UnmintAmount(i, U, P)
             st == AfterDeposit(Liquid, q.in, q.lp)
             back == BalancedWithdrawal(st, q.lp)
  <2>1. U \in Nat \ {0} /\ P \in Nat \ {0} /\ p \in 0 .. P /\ lpSupply \in Nat \ {0}
    <3>1. /\ UnlockedAmount(vault[y], time) \in Nat \ {0} /\ vault[y].supply \in Nat \ {0}
          /\ poolLp[y] \in 0 .. vault[y].supply - 1 /\ lpSupply \in Nat
      BY BooksSide
    <3> QED
      BY <3>1
  <2>2. U <= 2 * P
    BY DEF Unlocked, Liquid, DearShare
  <2>3. s \in Nat
    BY DepositShare
  <2>4. q.lp = Buffered(s) /\ i = ProportionRounded(ProportionRounded(s, p, lpSupply), U, P)
    BY DEF BalancedDeposit, ActualIn, Unlocked, Liquid
  <2> HIDE DEF s, q
  <2>5. q.lp \in 0 .. s
    BY <2>3, <2>4, BufferedBelow
  <2>6. /\ st.lp = lpSupply + q.lp /\ st.poolLp[y] = p + m
        /\ st.vault[y].supply = P + m
        /\ st.vault[y].total = vault[y].total + i
        /\ st.vault[y].locked = vault[y].locked /\ st.vault[y].report = vault[y].report
        /\ st.time = time
    BY DEF AfterDeposit, Changed, Moved, Unlocked, Liquid
  <2> HIDE DEF i
  <2>7. Unlocked(st, y) = U + i
    <3>1. i \in Nat
      <4> DEFINE a == ProportionRounded(s, p, lpSupply)
      <4>1. a \in Nat
        <5>1. p \in Nat /\ lpSupply \in Nat
          BY <2>1
        <5> HIDE DEF U, P, p
        <5> QED
          BY <2>3, <5>1, ProportionTypes
      <4>2. i = ProportionRounded(a, U, P)
        BY <2>4
      <4> HIDE DEF a, U, P, p
      <4> QED
        BY <2>1, <4>1, <4>2, ProportionTypes
    <3>2. vault[y].total \in Nat /\ LockedProfit(vault[y], time) \in Nat
      <4>1. vault[y] \in VaultRecord /\ time \in Nat /\ vault[y].report <= time
        BY BoundsAssumption DEF BooksInv, BooksOK, TypeOK, VaultRecord
      <4>2. LockedProfit(vault[y], time) \in 0 .. vault[y].locked
        BY <4>1, LockedProfitFalls
      <4> QED
        BY <4>1, <4>2 DEF VaultRecord
    <3> HIDE DEF st
    <3>3. LockedProfit(st.vault[y], time) = LockedProfit(vault[y], time)
      BY <2>6, SameLocked
    <3> QED
      BY <2>6, <3>1, <3>2, <3>3 DEF Unlocked, UnlockedAmount
  <2> HIDE DEF U, P, p, m, st
  <2>8. back.out[y]
           = Proportion(Proportion(q.lp, st.poolLp[y], st.lp), Unlocked(st, y), st.vault[y].supply)
    BY DEF BalancedWithdrawal, Burn, Returned
  <2> HIDE DEF back
  <2>9. back.out[y] = Proportion(Proportion(q.lp, p + m, lpSupply + q.lp), U + i, P + m)
    BY <2>6, <2>7, <2>8
  <2>10. back.out[y] <= i
    BY <2>1, <2>2, <2>3, <2>4, <2>5, <2>9, DepositWithdrawSide DEF m
  <2> QED
    BY <2>10 DEF back, st, q, i
<1>2. LiquidityInit => BooksInv
  BY InitBooks
<1>3. BooksInv /\ [LiquidityNext]_liquidityVars => BooksInv'
  BY NextBooks
<1> QED
  BY <1>1, <1>2, <1>3, PTL DEF LiquiditySpec
=============================================================================
