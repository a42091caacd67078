----------------------------- MODULE SearchProofs -----------------------------
(***************************************************************************)
(* Proofs about the search for the amounts: for any balance, any number of *)
(* ingredients and revenues, whatever simulations fail.                    *)
(***************************************************************************)
EXTENDS Search, SequenceFacts

LEMMA Numbers ==
    /\ Balance \in Nat /\ Base \in Nat \ {0} /\ GiveUp \in Nat \ {0}
    /\ \A a \in Amounts : a \in Nat /\ a <= Balance
    /\ \A a \in Nat : a <= Balance => a \in Amounts
    /\ \A i \in Cuts : i \in Nat /\ i <= 15
BY SearchAssumption DEF Amounts, Cuts, K

LEMMA ProfileAt ==
    ASSUME TypeOK
    PROVE  /\ n \in 1..Len(profile) /\ Len(profile) \in Nat
           /\ profile[n] \in [Amounts -> Nat] /\ profile[n][0] = 0
<1>1. profile \in Seq([Amounts -> Nat]) /\ \A i \in DOMAIN profile : profile[i][0] = 0
  BY SearchAssumption DEF TypeOK
<1>2. n \in DOMAIN profile
  BY DEF TypeOK, Ingredients
<1>3. \A list \in Seq([Amounts -> Nat]) :
          /\ DOMAIN list = 1..Len(list) /\ Len(list) \in Nat
          /\ \A i \in DOMAIN list : list[i] \in [Amounts -> Nat]
  OBVIOUS
<1>. QED  BY <1>1, <1>2, <1>3

LEMMA ToleranceNat ==
    ASSUME NEW u \in Nat
    PROVE  Tolerance(u) \in Nat
<1>1. u \div 2 \in Nat
  OBVIOUS
<1>2. \A a \in Nat, b \in Nat \ {0} : a \div b \in Nat
  OBVIOUS
<1>. QED  BY <1>1, <1>2, Numbers DEF Tolerance

\* The cuts of an interval lie in it, in their order.
LEMMA CutsInOrder ==
    ASSUME lower \in Nat, upper \in Nat, lower <= upper, NEW i \in Cuts
    PROVE  /\ Interval(i) \in Nat /\ lower <= Interval(i) /\ Interval(i) <= upper
           /\ i # K => Interval(i) <= Interval(i + 1)
<1>. DEFINE w == upper - lower
<1>1. w \in Nat /\ i \in Nat /\ i <= 15 /\ upper = lower + w
  BY Numbers
<1>. HIDE DEF w
<1>2. \A a, b \in Nat : a * b \in Nat
  OBVIOUS
<1>3. w * i \in Nat /\ w * (i + 1) = w * i + w /\ w * i <= 15 * w
  <2>1. w * (15 - i) = 15 * w - w * i
    BY <1>1
  <2>2. w * (15 - i) \in Nat /\ w * i \in Nat
    BY <1>1, <1>2
  <2>3. w * (i + 1) = w * i + w
    BY <1>1
  <2>. QED  BY <1>1, <2>1, <2>2, <2>3
<1>4. \A a, b \in Nat : a <= b => a \div 15 \in Nat /\ a \div 15 <= b \div 15
  OBVIOUS
<1>5. (15 * w) \div 15 = w
  BY <1>1
<1>6. /\ (w * i) \div 15 \in Nat /\ (w * i) \div 15 <= w
      /\ (w * i) \div 15 <= (w * (i + 1)) \div 15
      /\ (w * (i + 1)) \div 15 \in Nat
  <2>. DEFINE x == w * i
  <2>1. x \in Nat /\ x <= 15 * w /\ x + w \in Nat /\ 15 * w \in Nat /\ w * (i + 1) = x + w
    BY <1>1, <1>3
  <2>. HIDE DEF x
  <2>2. x \div 15 \in Nat /\ x \div 15 <= w /\ x \div 15 <= (x + w) \div 15
        /\ (x + w) \div 15 \in Nat
    BY <1>1, <1>4, <1>5, <2>1
  <2>. QED  BY <2>1, <2>2 DEF x
<1>7. /\ Interval(i) = lower + ((w * i) \div 15)
      /\ Interval(i + 1) = lower + ((w * (i + 1)) \div 15)
  BY DEF Interval, K, w
<1>. QED  BY <1>1, <1>6, <1>7

\* There is no revenue at zero: a best cut with revenue is above it.
LEMMA RevenueAboveZero ==
    ASSUME TypeOK, NEW fails, NEW i \in Cuts, Interval(i) \in Amounts,
           Revenue(i, fails) > 0
    PROVE  Interval(i) > 0
BY ProfileAt, Numbers DEF Revenue
-----------------------------------------------------------------------------
(* Totals                                                                  *)

\* a function that is the total of amounts, up to k of them
IsTotal(f, amounts, k) ==
    f = [m \in 0..k |-> IF m = 0 THEN 0 ELSE f[m - 1] + amounts[m]]

\* Two of them agree as far as the amounts do.
LEMMA TotalsAgree ==
    ASSUME NEW a, NEW b, NEW k \in Nat, NEW l \in Nat, k <= l,
           NEW f, NEW g, IsTotal(f, a, k), IsTotal(g, b, l),
           \A m \in 1..k : a[m] = b[m]
    PROVE  f[k] = g[k]
<1>. DEFINE T == {m \in 0..k : f[m] # g[m]}
<1>1. /\ f[0] = 0 /\ g[0] = 0
      /\ \A m \in 1..k : f[m] = f[m - 1] + a[m] /\ g[m] = g[m - 1] + b[m]
  <2>. DEFINE F == [m \in 0..k |-> IF m = 0 THEN 0 ELSE f[m - 1] + a[m]]
              G == [m \in 0..l |-> IF m = 0 THEN 0 ELSE g[m - 1] + b[m]]
  <2>1. F[0] = 0 /\ G[0] = 0
    OBVIOUS
  <2>2. \A m \in 1..k : F[m] = f[m - 1] + a[m] /\ G[m] = g[m - 1] + b[m]
    OBVIOUS
  <2>3. f = F /\ g = G
    BY DEF IsTotal
  <2>. HIDE DEF F, G
  <2>. QED  BY <2>1, <2>2, <2>3
<1>2. CASE T = {}
  BY <1>2
<1>3. CASE T # {}
  <2>1. PICK i \in T : \A m \in T : i <= m
    <3>1. T \in SUBSET Nat
      OBVIOUS
    <3>. HIDE DEF T
    <3>. QED  BY <1>3, <3>1, Least
  <2>2. i \in 1..k /\ i - 1 \in 0..k /\ i - 1 \notin T
    BY <1>1, <2>1
  <2>3. f[i - 1] = g[i - 1]
    BY <2>2
  <2>. QED  BY <1>1, <2>1, <2>2, <2>3
<1>. QED  BY <1>2, <1>3

\* There is one, for any number of them.
LEMMA TotalExists ==
    ASSUME NEW amounts, NEW k \in Nat, \A m \in 1..k : amounts[m] \in Nat
    PROVE  \E f \in [0..k -> Nat] : IsTotal(f, amounts, k)
<1>. DEFINE step == [m \in 1..k |-> [total \in Nat |-> total + amounts[m]]]
<1>1. step \in [1..k -> [Nat -> Nat]]
  OBVIOUS
<1>2. PICK f \in [0..k -> Nat] : IsRecursion(f, 0, step, k)
  <2>1. 0 \in Nat
    OBVIOUS
  <2>. HIDE DEF step
  <2>. QED  BY <1>1, <2>1, RecursionExists
<1>3. f[0] = 0 /\ \A m \in 1..k : f[m] = f[m - 1] + amounts[m]
  <2>1. ASSUME NEW m \in 1..k
        PROVE  step[m][f[m - 1]] = f[m - 1] + amounts[m]
    <3>1. f[m - 1] \in Nat
      OBVIOUS
    <3>. QED  BY <3>1
  <2>. HIDE DEF step
  <2>. QED  BY <1>2, <2>1 DEF IsRecursion
<1>4. f = [m \in 0..k |-> IF m = 0 THEN 0 ELSE f[m - 1] + amounts[m]]
  <2>1. \A m \in 0..k : f[m] = IF m = 0 THEN 0 ELSE f[m - 1] + amounts[m]
    BY <1>3
  <2>. QED  BY <2>1
<1>. QED  BY <1>4 DEF IsTotal

LEMMA TotalIs ==
    ASSUME NEW amounts, NEW k \in Nat, \A m \in 1..k : amounts[m] \in Nat
    PROVE  \E f \in [0..k -> Nat] : IsTotal(f, amounts, k) /\ Total(amounts, k) = f[k]
<1>. DEFINE h == CHOOSE f : f = [m \in 0..k |-> IF m = 0 THEN 0 ELSE f[m - 1] + amounts[m]]
<1>1. PICK f \in [0..k -> Nat] : IsTotal(f, amounts, k)
  BY TotalExists
<1>2. h = [m \in 0..k |-> IF m = 0 THEN 0 ELSE h[m - 1] + amounts[m]]
  BY <1>1 DEF IsTotal
<1>3. Total(amounts, k) = h[k]
  BY DEF Total
<1>. HIDE DEF h
<1>4. IsTotal(h, amounts, k)
  BY <1>2 DEF IsTotal
<1>5. h[k] = f[k]
  BY <1>1, <1>4, TotalsAgree
<1>. QED  BY <1>1, <1>3, <1>5

\* Amounts that agree have one total.
LEMMA TotalOfSame ==
    ASSUME NEW a, NEW b, NEW k \in Nat,
           \A m \in 1..k : a[m] \in Nat /\ a[m] = b[m]
    PROVE  Total(a, k) \in Nat /\ Total(a, k) = Total(b, k)
<1>1. PICK f \in [0..k -> Nat] : IsTotal(f, a, k) /\ Total(a, k) = f[k]
  BY TotalIs
<1>2. PICK g \in [0..k -> Nat] : IsTotal(g, b, k) /\ Total(b, k) = g[k]
  <2>1. \A m \in 1..k : b[m] \in Nat
    OBVIOUS
  <2>. QED  BY <2>1, TotalIs
<1>3. f[k] = g[k]
  BY <1>1, <1>2, TotalsAgree
<1>. QED  BY <1>1, <1>2, <1>3

\* One more of them.
LEMMA TotalOfNext ==
    ASSUME NEW a, NEW k \in Nat \ {0}, \A m \in 1..k : a[m] \in Nat
    PROVE  Total(a, k) = Total(a, k - 1) + a[k]
<1>1. PICK f \in [0..k -> Nat] : IsTotal(f, a, k) /\ Total(a, k) = f[k]
  BY TotalIs
<1>2. PICK g \in [0..(k - 1) -> Nat] :
          IsTotal(g, a, k - 1) /\ Total(a, k - 1) = g[k - 1]
  <2>1. k - 1 \in Nat /\ \A m \in 1..(k - 1) : a[m] \in Nat
    OBVIOUS
  <2>. QED  BY <2>1, TotalIs
<1>3. g[k - 1] = f[k - 1]
  <2>. DEFINE j == k - 1
  <2>1. j \in Nat /\ j <= k /\ IsTotal(g, a, j) /\ \A m \in 1..j : a[m] = a[m]
    BY <1>2
  <2>. HIDE DEF j
  <2>2. g[j] = f[j]
    BY <1>1, <2>1, TotalsAgree
  <2>. QED  BY <2>2 DEF j
<1>4. f[k] = f[k - 1] + a[k]
  <2>. DEFINE F == [m \in 0..k |-> IF m = 0 THEN 0 ELSE f[m - 1] + a[m]]
  <2>1. F[k] = f[k - 1] + a[k]
    OBVIOUS
  <2>2. f = F
    BY <1>1 DEF IsTotal
  <2>. HIDE DEF F
  <2>. QED  BY <2>1, <2>2
<1>. QED  BY <1>1, <1>2, <1>3, <1>4

LEMMA TotalOfNone ==
    ASSUME NEW a
    PROVE  Total(a, 0) = 0
<1>1. PICK f \in [0..0 -> Nat] : IsTotal(f, a, 0) /\ Total(a, 0) = f[0]
  <2>1. 0 \in Nat /\ \A m \in 1..0 : a[m] \in Nat
    OBVIOUS
  <2>. QED  BY <2>1, TotalIs
<1>2. f[0] = 0
  BY <1>1 DEF IsTotal
<1>. QED  BY <1>1, <1>2
-----------------------------------------------------------------------------
LEMMA InitTypes ==
    ASSUME Init
    PROVE  TypeOK /\ NoPanic
<1>1. profile \in Seq([Amounts -> Nat]) \ {<<>>}
  BY SearchAssumption DEF Init
<1>2. 1 \in Ingredients
  BY <1>1 DEF Ingredients
<1>3. Tolerance(Balance) \in Nat /\ 0 \in Amounts /\ Balance \in Amounts
  BY Numbers, ToleranceNat
<1>. QED  BY <1>2, <1>3, Numbers DEF Init, TypeOK, NoPanic

\* The search for an ingredient returns, and that for the next one begins.
LEMMA ReturnTypes ==
    ASSUME TypeOK, NoPanic, NEW amount \in Amounts, Return(amount),
           failed' \in [Ingredients -> BOOLEAN]
    PROVE  TypeOK' /\ NoPanic'
<1>1. left' \in Amounts
  BY Numbers DEF Return, TypeOK
<1>2. optimals' \in [Ingredients -> Amounts] /\ Ingredients' = Ingredients /\ profile' = profile
  BY DEF Return, TypeOK, Ingredients
<1>3. CASE n < Len(profile)
  <2>1. n' \in Ingredients
    BY <1>3, ProfileAt DEF Return, Ingredients
  <2>2. lower' = 0 /\ upper' \in Amounts /\ tolerance' \in Nat /\ counter' = 0 /\ highest' = 0
    BY <1>1, <1>3, Numbers, ToleranceNat DEF Return, Begin
  <2>. QED  BY <1>1, <1>2, <1>3, <2>1, <2>2, Numbers DEF TypeOK, NoPanic, Return
<1>4. CASE ~(n < Len(profile))
  BY <1>1, <1>2, <1>4 DEF TypeOK, NoPanic, Return, searchVars
<1>. QED  BY <1>3, <1>4

LEMMA ProbeTypes ==
    ASSUME TypeOK, NoPanic, Probe
    PROVE  TypeOK' /\ NoPanic'
<1>1. lower \in Nat /\ upper \in Nat /\ lower <= upper /\ upper <= Balance
  BY Numbers DEF Probe, ShouldTerminate, TypeOK
<1>2. PICK fails \in FailSets : \E i \in Best(fails) :
          /\ failed' = [failed EXCEPT ![n] = @ \/ fails # {}]
          /\ \/ NoRevenueGiveUp(i, fails)
             \/ NoRevenueShrink(i, fails)
             \/ Narrow(i, fails)
  BY DEF Probe
<1>3. PICK i \in Cuts :
          /\ failed' = [failed EXCEPT ![n] = @ \/ fails # {}]
          /\ \/ NoRevenueGiveUp(i, fails)
             \/ NoRevenueShrink(i, fails)
             \/ Narrow(i, fails)
  BY <1>2 DEF Best
<1>4. failed' \in [Ingredients -> BOOLEAN]
  BY <1>3 DEF TypeOK
<1>5. \A k \in Cuts : /\ Interval(k) \in Nat /\ Interval(k) \in Amounts
                      /\ Interval(k) <= upper
                      /\ k # K => Interval(k) <= Interval(k + 1)
  BY <1>1, CutsInOrder, Numbers
<1>6. Counted \in 0..GiveUp
  BY Numbers DEF Counted, TypeOK
<1>7. CASE NoRevenueGiveUp(i, fails)
  BY <1>4, <1>7, ReturnTypes, Numbers DEF NoRevenueGiveUp
<1>8. CASE NoRevenueShrink(i, fails)
  <2>1. (K + 1) \div 3 \in Cuts
    BY DEF K, Cuts
  <2>2. upper' \in Amounts
    BY <1>5, <1>8, <2>1, Numbers DEF NoRevenueShrink
  <2>. QED  BY <1>4, <1>5, <1>6, <1>8, <2>2 DEF NoRevenueShrink, TypeOK, NoPanic, Ingredients
<1>9. CASE Narrow(i, fails)
  <2>1. Interval(i) > 0
    BY <1>5, <1>9, RevenueAboveZero DEF Narrow
  <2>2. upper' \in Amounts /\ pc' = pc
    <3>1. CASE i = K
      BY <1>9, <3>1 DEF Narrow, TypeOK
    <3>2. CASE i # K
      <4>1. i + 1 \in Cuts
        BY <3>2 DEF Cuts, K
      <4>2. Interval(i + 1) \in Amounts /\ Interval(i + 1) > 0
        BY <1>5, <2>1, <3>2, <4>1, Numbers
      <4>. QED  BY <1>9, <3>2, <4>2, Numbers DEF Narrow
    <3>. QED  BY <3>1, <3>2
  <2>3. lower' \in Nat
    <3>1. CASE i = 0
      BY <1>1, <1>9, <3>1 DEF Narrow
    <3>2. CASE i # 0
      <4>1. i - 1 \in Cuts
        BY <3>2 DEF Cuts, K
      <4>. QED  BY <1>5, <1>9, <3>2, <4>1 DEF Narrow
    <3>. QED  BY <3>1, <3>2
  <2>. QED  BY <1>4, <1>5, <1>6, <1>9, <2>2, <2>3 DEF Narrow, TypeOK, NoPanic, Ingredients
<1>. QED  BY <1>3, <1>7, <1>8, <1>9
-----------------------------------------------------------------------------
LEMMA InitInv ==
    ASSUME Init
    PROVE  Accounts
<1>1. TypeOK /\ NoPanic
  BY InitTypes
<1>2. Used(0) = 0
  BY TotalOfNone DEF Used
<1>. QED  BY <1>1, <1>2, Numbers DEF Init, Accounts, StakesWithinBalance

\* What the search returns is taken off what is left.
LEMMA ReturnInv ==
    ASSUME Accounts, pc = "search", NEW amount \in Amounts, amount <= left, Return(amount),
           failed' \in [Ingredients -> BOOLEAN]
    PROVE  Accounts'
<1>1. TypeOK' /\ NoPanic'
  BY ReturnTypes DEF Accounts
<1>2. left' = left - amount /\ left \in Nat /\ amount \in Nat
  BY Numbers DEF Return, Accounts, TypeOK
<1>3. /\ n \in Nat \ {0} /\ n \in 1..Len(profile) /\ profile' = profile
      /\ optimals \in [1..Len(profile) -> Amounts]
      /\ Len(profile) \in Nat
      /\ optimals' = [optimals EXCEPT ![n] = amount]
  <2>1. DOMAIN profile = 1..Len(profile)
    BY SearchAssumption DEF Accounts, TypeOK
  <2>. QED  BY <2>1, ProfileAt DEF Return, Accounts, TypeOK, Ingredients
<1>4. Total(optimals', n) = Used(n - 1) + amount /\ Used(n - 1) \in Nat
  <2>1. \A m \in 1..n : optimals'[m] \in Nat
    BY <1>1, <1>3, Numbers
  <2>2. Total(optimals', n) = Total(optimals', n - 1) + optimals'[n]
    BY <1>3, <2>1, TotalOfNext
  <2>3. n - 1 \in Nat /\ \A m \in 1..(n - 1) : optimals[m] \in Nat /\ optimals[m] = optimals'[m]
    BY <1>3, Numbers
  <2>4. Total(optimals, n - 1) \in Nat /\ Total(optimals, n - 1) = Total(optimals', n - 1)
    BY <2>3, TotalOfSame
  <2>5. optimals'[n] = amount
    BY <1>3
  <2>. QED  BY <2>2, <2>4, <2>5 DEF Used
<1>5. Total(optimals', n) + left' = Balance
  BY <1>2, <1>4, Numbers DEF Accounts
<1>6. CASE n < Len(profile)
  <2>1. n' = n + 1 /\ pc' = "search" /\ upper' = left' /\ highest' = 0 /\ n' - 1 = n
    BY <1>3, <1>6 DEF Return, Begin
  <2>2. 0 <= left' /\ left' <= left'
    BY <1>1, Numbers DEF TypeOK
  <2>3. Total(optimals', n' - 1) + left' = Balance
    BY <1>5, <2>1
  <2>. QED  BY <1>1, <2>1, <2>2, <2>3 DEF Accounts, StakesWithinBalance, Used
<1>7. CASE ~(n < Len(profile))
  <2>1. n = Len(profile) /\ pc' = "done"
    BY <1>3, <1>7 DEF Return
  <2>2. Total(optimals', n) <= Balance
    BY <1>1, <1>4, <1>5, <1>2, Numbers DEF TypeOK
  <2>. QED  BY <1>1, <1>3, <2>1, <2>2 DEF Accounts, StakesWithinBalance, Used
<1>. QED  BY <1>6, <1>7

LEMMA ProbeInv ==
    ASSUME Accounts, Probe
    PROVE  Accounts'
<1>1. TypeOK' /\ NoPanic'
  BY ProbeTypes DEF Accounts
<1>2. /\ lower \in Nat /\ upper \in Nat /\ left \in Nat /\ pc = "search"
      /\ lower <= upper /\ upper <= left /\ upper <= Balance
  BY Numbers DEF Probe, ShouldTerminate, Accounts, TypeOK
<1>3. PICK fails \in FailSets, i \in Cuts :
          /\ failed' = [failed EXCEPT ![n] = @ \/ fails # {}]
          /\ \/ NoRevenueGiveUp(i, fails)
             \/ NoRevenueShrink(i, fails)
             \/ Narrow(i, fails)
  BY DEF Probe, Best
<1>4. \A k \in Cuts : Interval(k) \in Nat /\ Interval(k) <= upper
  BY <1>2, CutsInOrder
<1>5. CASE NoRevenueGiveUp(i, fails)
  <2>1. failed' \in [Ingredients -> BOOLEAN] /\ 0 \in Amounts /\ 0 <= left
    BY <1>2, <1>3, Numbers DEF Accounts, TypeOK
  <2>. QED  BY <1>2, <1>5, <2>1, ReturnInv DEF NoRevenueGiveUp
<1>6. ASSUME pc' = "search", n' = n, left' = left, optimals' = optimals,
             highest' = Interval(i),
             upper' = upper \/ upper' <= left
      PROVE  Accounts'
  <2>1. highest' <= left' /\ upper' <= left'
    BY <1>2, <1>4, <1>6
  <2>2. Total(optimals', n' - 1) + left' = Balance
    BY <1>2, <1>6 DEF Accounts, Used
  <2>. QED  BY <1>1, <1>6, <2>1, <2>2 DEF Accounts, StakesWithinBalance, Used
<1>7. CASE NoRevenueShrink(i, fails)
  <2>1. (K + 1) \div 3 \in Cuts
    BY DEF K, Cuts
  <2>2. upper' <= left
    BY <1>2, <1>4, <1>7, <2>1 DEF NoRevenueShrink
  <2>. QED  BY <1>2, <1>6, <1>7, <2>2 DEF NoRevenueShrink
<1>8. CASE Narrow(i, fails)
  <2>1. pc' = "search"
    BY <1>1, <1>2, <1>8 DEF Narrow, NoPanic
  <2>2. upper' = upper \/ upper' <= left
    <3>1. CASE i = K
      BY <1>8, <3>1 DEF Narrow
    <3>2. CASE i # K
      <4>1. i + 1 \in Cuts
        BY <3>2 DEF Cuts, K
      <4>2. upper' = upper \/ upper' = Interval(i + 1) - 1
        BY <1>8, <3>2 DEF Narrow
      <4>. QED  BY <1>2, <1>4, <4>1, <4>2
    <3>. QED  BY <3>1, <3>2
  <2>. QED  BY <1>2, <1>6, <1>8, <2>1, <2>2 DEF Narrow
<1>. QED  BY <1>3, <1>5, <1>7, <1>8
-----------------------------------------------------------------------------
\* Every step of the search keeps its accounts: bounds, cuts and amounts never
\* leave what is left of the balance.
THEOREM AccountsInvariance == Spec => []Accounts
<1>1. Init => Accounts
  BY InitInv
<1>2. Accounts /\ [Next]_vars => Accounts'
  <2>1. ASSUME Accounts, Terminate
        PROVE  Accounts'
    <3>1. /\ failed' \in [Ingredients -> BOOLEAN] /\ highest \in Amounts
          /\ highest <= left /\ pc = "search"
      BY <2>1 DEF Terminate, Accounts, TypeOK
    <3>. QED  BY <2>1, <3>1, ReturnInv DEF Terminate
  <2>2. ASSUME Accounts, UNCHANGED vars
        PROVE  Accounts'
    BY <2>2 DEF Accounts, TypeOK, NoPanic, StakesWithinBalance, Used, vars, Ingredients
  <2>. QED  BY <2>1, <2>2, ProbeInv DEF Next, Done
<1>. QED  BY <1>1, <1>2, PTL DEF Spec

\* The subtraction at the right neighbour of the best cut does not underflow.
THEOREM NoPanicHolds == Spec => []NoPanic
<1>1. Accounts => NoPanic
  BY DEF Accounts
<1>. QED  BY <1>1, AccountsInvariance, PTL

\* What is found for all the ingredients together is there to be spent.
THEOREM StakesWithinBalanceHolds == Spec => []StakesWithinBalance
<1>1. Accounts => StakesWithinBalance
  BY DEF Accounts
<1>. QED  BY <1>1, AccountsInvariance, PTL
-----------------------------------------------------------------------------
(* The cuts                                                                *)

\* The first and the last cut, and the steps from one cut to the next one: at
\* least one in an interval of at least K, at most one in a smaller one.
LEMMA CutSteps ==
    ASSUME lower \in Nat, upper \in Nat, lower <= upper
    PROVE  /\ Interval(0) = lower /\ Interval(K) = upper
           /\ \A i \in 1..K : /\ i \in Cuts /\ i - 1 \in Cuts
                              /\ Interval(i - 1) \in Nat /\ Interval(i) \in Nat
                              /\ Interval(i - 1) <= Interval(i)
                              /\ upper - lower >= K => Interval(i - 1) < Interval(i)
                              /\ upper - lower < K => Interval(i) <= Interval(i - 1) + 1
           /\ Interval(1) = lower + ((upper - lower) \div K)
<1>. DEFINE w == upper - lower
<1>1. w \in Nat /\ upper = lower + w
  OBVIOUS
<1>2. \A i \in Cuts : Interval(i) = lower + ((w * i) \div 15)
  BY DEF Interval, K
<1>. HIDE DEF w
<1>3. 0 \in Cuts /\ 15 \in Cuts /\ 1 \in Cuts
  BY DEF Cuts, K
<1>4. Interval(0) = lower /\ Interval(15) = upper /\ Interval(1) = lower + (w \div 15)
  <2>1. w * 0 = 0 /\ 0 \div 15 = 0 /\ (w * 15) \div 15 = w /\ w * 1 = w
    BY <1>1
  <2>. QED  BY <1>1, <1>2, <1>3, <2>1
<1>5. ASSUME NEW i \in 1..K
      PROVE  /\ i \in Cuts /\ i - 1 \in Cuts
             /\ Interval(i - 1) \in Nat /\ Interval(i) \in Nat
             /\ Interval(i - 1) <= Interval(i)
             /\ w >= 15 => Interval(i - 1) < Interval(i)
             /\ w < 15 => Interval(i) <= Interval(i - 1) + 1
  <2>1. i \in Cuts /\ i - 1 \in Cuts /\ i \in Nat /\ i - 1 \in Nat
    BY DEF Cuts, K
  <2>. DEFINE x == w * (i - 1)
  <2>2. x \in Nat /\ w * i = x + w
    <3>1. \A a, b \in Nat : a * b \in Nat
      OBVIOUS
    <3>2. w * i = w * (i - 1) + w
      BY <1>1, <2>1
    <3>. QED  BY <1>1, <2>1, <3>1, <3>2
  <2>3. Interval(i - 1) = lower + (x \div 15) /\ Interval(i) = lower + ((x + w) \div 15)
    BY <1>2, <2>1, <2>2
  <2>. HIDE DEF x
  <2>4. /\ x \div 15 \in Nat /\ (x + w) \div 15 \in Nat
        /\ x \div 15 <= (x + w) \div 15
        /\ w >= 15 => x \div 15 < (x + w) \div 15
        /\ w < 15 => (x + w) \div 15 <= (x \div 15) + 1
    BY <1>1, <2>2
  <2>. QED  BY <2>1, <2>3, <2>4
<1>. QED  BY <1>3, <1>4, <1>5 DEF K, w

\* The cuts of an interval of fewer than K amounts are all of its amounts.
LEMMA SmallCut ==
    ASSUME lower \in Nat, upper \in Nat, lower <= upper, upper - lower < K,
           NEW y \in lower..upper
    PROVE  \E j \in Cuts : Interval(j) = y
<1>. DEFINE T == {j \in Cuts : y <= Interval(j)}
<1>1. K \in Cuts /\ 0 \in Cuts /\ Cuts \subseteq Nat /\ K \in T
  BY CutSteps DEF Cuts, K
<1>2. PICK j \in T : \A k \in T : j <= k
  <2>1. T \in SUBSET Nat
    BY <1>1
  <2>. HIDE DEF T
  <2>. QED  BY <1>1, <2>1, Least
<1>3. CASE j = 0
  BY <1>1, <1>2, <1>3, CutSteps
<1>4. CASE j # 0
  <2>1. j \in 1..K /\ j - 1 < j
    BY <1>2, <1>4 DEF Cuts, K
  <2>2. j - 1 \in Cuts /\ j - 1 \notin T /\ Interval(j - 1) \in Nat /\ Interval(j) \in Nat
    <3>1. j - 1 \in Cuts /\ Interval(j - 1) \in Nat /\ Interval(j) \in Nat
      BY <2>1, CutSteps
    <3>2. ~(j <= j - 1)
      BY <2>1
    <3>. QED  BY <1>2, <3>1, <3>2
  <2>3. Interval(j - 1) < y /\ y <= Interval(j) /\ Interval(j) <= Interval(j - 1) + 1
    BY <1>2, <2>1, <2>2, CutSteps
  <2>. QED  BY <1>2, <2>2, <2>3
<1>. QED  BY <1>3, <1>4


\* The bounds of a search without revenue.
LEMMA ShrunkSteps ==
    ASSUME NEW u \in Nat
    PROVE  /\ Shrunk(u)[0] = u
           /\ \A k \in 0..GiveUp : Shrunk(u)[k] \in Nat
           /\ \A k \in 1..GiveUp :
                 Shrunk(u)[k] = LET third == (Shrunk(u)[k - 1] * ((K + 1) \div 3)) \div K
                                IN  IF third = 0 THEN 0 ELSE third - 1
<1>. DEFINE shrink(w) == LET third == (w * ((K + 1) \div 3)) \div K
                         IN  IF third = 0 THEN 0 ELSE third - 1
            step == [k \in 1..GiveUp |-> [w \in Nat |-> shrink(w)]]
            next(f) == [k \in 0..GiveUp |-> IF k = 0 THEN u ELSE shrink(f[k - 1])]
            bound == CHOOSE f : f = next(f)
<1>1. \A w \in Nat : shrink(w) \in Nat
  BY DEF K
<1>. HIDE DEF shrink
<1>2. step \in [1..GiveUp -> [Nat -> Nat]]
  BY <1>1
<1>3. PICK f \in [0..GiveUp -> Nat] : IsRecursion(f, u, step, GiveUp)
  <2>. HIDE DEF step
  <2>. QED  BY <1>2, Numbers, RecursionExists
<1>4. f = next(f)
  <2>1. f[0] = u /\ \A k \in 1..GiveUp : f[k] = step[k][f[k - 1]]
    <3>. HIDE DEF step
    <3>. QED  BY <1>3 DEF IsRecursion
  <2>2. \A k \in 1..GiveUp : k - 1 \in 0..GiveUp /\ f[k - 1] \in Nat
    BY Numbers
  <2>3. \A k \in 1..GiveUp : f[k] = shrink(f[k - 1])
    BY <2>1, <2>2
  <2>4. \A k \in 0..GiveUp : f[k] = IF k = 0 THEN u ELSE shrink(f[k - 1])
    BY <2>1, <2>3, Numbers
  <2>. QED  BY <2>4
<1>5. bound = next(bound)
  BY <1>4
<1>6. Shrunk(u) = bound
  BY DEF Shrunk, shrink
<1>. HIDE DEF bound
<1>7. bound[0] = u /\ \A k \in 1..GiveUp : bound[k] = shrink(bound[k - 1])
  <2>. DEFINE g == next(bound)
  <2>1. g[0] = u /\ \A k \in 1..GiveUp : g[k] = shrink(bound[k - 1])
    BY Numbers
  <2>2. bound = g
    BY <1>5
  <2>. HIDE DEF g
  <2>. QED  BY <2>1, <2>2
<1>8. \A k \in 0..GiveUp : bound[k] \in Nat
  <2>. DEFINE T == {k \in 0..GiveUp : bound[k] \in Nat}
  <2>1. 0 \in T /\ \A k \in 1..GiveUp : k - 1 \in T => k \in T
    <3>1. ASSUME NEW k \in 1..GiveUp, bound[k - 1] \in Nat
          PROVE  bound[k] \in Nat
      BY <1>1, <1>7, <3>1
    <3>2. bound[0] \in Nat
      BY <1>7
    <3>. QED  BY <3>1, <3>2, Numbers
  <2>2. 0 + 1 = 1 /\ 0 \in Nat /\ 0 <= GiveUp /\ GiveUp \in Nat
    BY Numbers
  <2>3. \A k \in 0..GiveUp : k \in T
    <3>. HIDE DEF T
    <3>. QED  BY <2>1, <2>2, UpTo
  <2>. QED  BY <2>3
<1>. QED  BY <1>6, <1>7, <1>8 DEF shrink

\* The million and the ten of the code are as GiveUpAssumption says.
LEMMA CodeGivesUp ==
    ASSUME Base = 1000000, GiveUp = 10, NEW u \in Nat, NEW k \in 0..(GiveUp - 1)
    PROVE  Tolerance(u) <= Shrunk(u)[k]
<1>. DEFINE s == Shrunk(u)
            power == [m \in 0..9 |-> CASE m = 0 -> 1 [] m = 1 -> 3 [] m = 2 -> 9 [] m = 3 -> 27
                                       [] m = 4 -> 81 [] m = 5 -> 243 [] m = 6 -> 729
                                       [] m = 7 -> 2187 [] m = 8 -> 6561 [] OTHER -> 19683]
            T == {m \in 0..9 : power[m] * (s[m] + 3) >= u}
<1>1. /\ power[0] = 1 /\ \A m \in 1..9 : power[m] = 3 * power[m - 1]
      /\ \A m \in 0..9 : power[m] \in Nat /\ power[m] <= 19683
  OBVIOUS
<1>2. /\ s[0] = u /\ \A m \in 0..9 : s[m] \in Nat
      /\ \A m \in 1..9 : s[m] = LET third == (s[m - 1] * ((K + 1) \div 3)) \div K
                                IN  IF third = 0 THEN 0 ELSE third - 1
  BY ShrunkSteps
<1>. HIDE DEF s, power
<1>3. ASSUME NEW m \in 1..9
      PROVE  3 * (s[m] + 3) >= s[m - 1] + 3
  <2>1. s[m - 1] \in Nat
    BY <1>2
  <2>2. \A w \in Nat : LET third == (w * 5) \div 15
                       IN  3 * ((IF third = 0 THEN 0 ELSE third - 1) + 3) >= w + 3
    OBVIOUS
  <2>3. (K + 1) \div 3 = 5 /\ K = 15
    BY DEF K
  <2>. QED  BY <1>2, <2>1, <2>2, <2>3
<1>4. ASSUME NEW m \in 1..9, m - 1 \in T
      PROVE  m \in T
  <2>. DEFINE a == power[m - 1]
              b == s[m - 1] + 3
              c == s[m] + 3
  <2>1. a \in Nat /\ b \in Nat /\ c \in Nat /\ b <= 3 * c /\ a * b >= u /\ power[m] = 3 * a
    <3>1. m - 1 \in 0..9 /\ m \in 0..9
      OBVIOUS
    <3>. QED  BY <1>1, <1>2, <1>3, <1>4, <3>1
  <2>2. power[m] * c >= u
    <3>. HIDE DEF a, b, c
    <3>1. \A x, y, z \in Nat : y <= z => x * y <= x * z
      OBVIOUS
    <3>2. a * b <= a * (3 * c) /\ a * (3 * c) = (3 * a) * c
      BY <2>1, <3>1
    <3>3. a * b \in Nat /\ (3 * a) * c \in Nat
      <4>1. \A x, y \in Nat : x * y \in Nat
        OBVIOUS
      <4>. QED  BY <2>1, <4>1
    <3>. QED  BY <2>1, <3>2, <3>3
  <2>. QED  BY <2>2
<1>5. k \in T
  <2>1. 0 \in T
    BY <1>1, <1>2
  <2>2. 0 + 1 = 1 /\ 0 \in Nat /\ 9 \in Nat /\ 0 <= 9
    OBVIOUS
  <2>3. \A m \in 0..9 : m \in T
    <3>. HIDE DEF T
    <3>. QED  BY <1>4, <2>1, <2>2, UpTo
  <2>. QED  BY <2>3
<1>6. 19683 * (s[k] + 3) >= u /\ s[k] \in Nat
  <2>1. k \in 0..9
    OBVIOUS
  <2>2. power[k] \in Nat /\ power[k] <= 19683 /\ s[k] + 3 \in Nat /\ power[k] * (s[k] + 3) >= u
    BY <1>1, <1>2, <1>5, <2>1
  <2>3. \A x, y, z \in Nat : x <= y => x * z <= y * z /\ x * z \in Nat /\ y * z \in Nat
    OBVIOUS
  <2>4. power[k] * (s[k] + 3) <= 19683 * (s[k] + 3)
    BY <2>2, <2>3
  <2>5. power[k] * (s[k] + 3) \in Nat /\ 19683 * (s[k] + 3) \in Nat
    BY <2>2, <2>3
  <2>. QED  BY <1>2, <2>1, <2>2, <2>4, <2>5
<1>7. Tolerance(u) = (u \div 2) \div 1000000
  BY DEF Tolerance
<1>8. \A x, y \in Nat : 19683 * (y + 3) >= x => (x \div 2) \div 1000000 <= y
  OBVIOUS
<1>. QED  BY <1>6, <1>7, <1>8 DEF s
-----------------------------------------------------------------------------
(* The peak                                                                *)

\* top is the peak of the amounts up to u
IsTop(p, top, u) ==
    /\ top \in 0..u
    /\ \A y \in 0..top : \A x \in 0..(y - 1) : p[x] < p[y]
    /\ \A x \in top..u : \A y \in (x + 1)..u : p[y] < p[x] \/ p[y] = 0

\* There is one, and it is the only amount of greatest revenue if it has any.
LEMMA TopExists ==
    ASSUME NEW p \in [Amounts -> Nat], Peaked(p), NEW u \in Amounts
    PROVE  \E top : /\ IsTop(p, top, u) /\ top \in Peaks(p, u)
                    /\ \A x \in Peaks(p, u) : p[x] > 0 => x = top
<1>1. PICK peak \in Amounts :
          /\ \A y \in 0..peak : \A x \in 0..(y - 1) : p[x] < p[y]
          /\ \A x \in peak..Balance : \A y \in (x + 1)..Balance : p[y] < p[x] \/ p[y] = 0
  BY DEF Peaked
<1>. DEFINE top == IF u < peak THEN u ELSE peak
<1>2. /\ u \in Nat /\ u <= Balance /\ peak \in Nat /\ Balance \in Nat
      /\ top \in Nat /\ top <= u /\ top <= peak /\ (top = u \/ top = peak)
  BY Numbers
<1>3. \A x \in 0..u : p[x] \in Nat
  BY <1>2, Numbers
<1>4. IsTop(p, top, u)
  <2>1. ASSUME NEW x \in top..u, NEW y \in (x + 1)..u
        PROVE  p[y] < p[x] \/ p[y] = 0
    <3>1. top = peak /\ x \in peak..Balance /\ y \in (x + 1)..Balance
      BY <1>2
    <3>. QED  BY <1>1, <3>1
  <2>2. ASSUME NEW y \in 0..top, NEW x \in 0..(y - 1)
        PROVE  p[x] < p[y]
    <3>1. y \in 0..peak
      BY <1>2
    <3>. QED  BY <1>1, <3>1
  <2>. HIDE DEF top
  <2>. QED  BY <1>2, <2>1, <2>2 DEF IsTop
<1>. HIDE DEF top
<1>5. ASSUME NEW x \in 0..u
      PROVE  p[x] <= p[top] /\ (p[x] = p[top] /\ p[x] > 0 => x = top)
  <2>1. CASE x < top
    <3>1. x \in 0..(top - 1) /\ top \in 0..top
      BY <1>2, <2>1
    <3>. QED  BY <1>3, <1>4, <3>1 DEF IsTop
  <2>2. CASE top < x
    <3>1. top \in top..u /\ x \in (top + 1)..u
      BY <1>2, <2>2
    <3>. QED  BY <1>2, <1>3, <1>4, <3>1 DEF IsTop
  <2>. QED  BY <1>2, <1>3, <2>1, <2>2
<1>6. top \in Peaks(p, u)
  BY <1>2, <1>5 DEF Peaks
<1>7. \A x \in Peaks(p, u) : p[x] > 0 => x = top
  BY <1>2, <1>3, <1>5 DEF Peaks
<1>. QED  BY <1>4, <1>6, <1>7

\* Beyond an amount above zero without revenue there is none.
LEMMA NothingBeyond ==
    ASSUME NEW p \in [Amounts -> Nat], Peaked(p), NEW u \in Amounts,
           NEW x \in 1..u, p[x] = 0
    PROVE  \A y \in x..u : p[y] = 0
<1>1. PICK top : IsTop(p, top, u)
  BY TopExists
<1>2. u \in Nat /\ \A y \in 0..u : p[y] \in Nat
  BY Numbers
<1>3. top < x
  <2>1. CASE x <= top
    <3>1. x \in 0..top /\ 0 \in 0..(x - 1)
      BY <1>1, <2>1 DEF IsTop
    <3>. QED  BY <1>1, <1>2, <3>1 DEF IsTop
  <2>. QED  BY <1>1, <2>1 DEF IsTop
<1>4. ASSUME NEW y \in (x + 1)..u
      PROVE  p[y] = 0
  <2>1. x \in top..u /\ y \in 0..u
    BY <1>1, <1>2, <1>3 DEF IsTop
  <2>. QED  BY <1>1, <1>2, <2>1 DEF IsTop
<1>. QED  BY <1>2, <1>4
-----------------------------------------------------------------------------
(* The search for an ingredient whose simulations do not fail              *)

\* What holds while one is going on.
LEMMA Interval0 ==
    ASSUME Accounts, pc = "search", ~ShouldTerminate
    PROVE  /\ lower \in Nat /\ upper \in Nat /\ left \in Nat /\ Balance \in Nat
           /\ lower <= upper /\ upper <= left /\ left <= Balance /\ left \in Amounts
           /\ n \in Ingredients /\ profile[n] \in [Amounts -> Nat] /\ profile[n][0] = 0
           /\ \A x \in 0..left : profile[n][x] \in Nat
           /\ \A j \in Cuts : Interval(j) \in lower..upper /\ Revenue(j, {}) = profile[n][Interval(j)]
<1>1. /\ lower \in Nat /\ upper \in Nat /\ left \in Nat /\ Balance \in Nat
      /\ lower <= upper /\ upper <= left /\ left <= Balance /\ left \in Amounts
  BY Numbers DEF Accounts, TypeOK, ShouldTerminate
<1>2. n \in Ingredients /\ profile[n] \in [Amounts -> Nat] /\ profile[n][0] = 0
  BY ProfileAt DEF Accounts, TypeOK
<1>3. \A x \in 0..left : profile[n][x] \in Nat
  BY <1>1, <1>2, Numbers
<1>4. \A j \in Cuts : Interval(j) \in lower..upper
  BY <1>1, CutsInOrder
<1>. QED  BY <1>1, <1>2, <1>3, <1>4 DEF Revenue

\* The best cut is the last of those of greatest revenue.
LEMMA BestCut ==
    ASSUME Accounts, pc = "search", ~ShouldTerminate, NEW i \in Best({})
    PROVE  /\ i \in Cuts
           /\ \A j \in Cuts : profile[n][Interval(j)] <= profile[n][Interval(i)]
           /\ \A j \in Cuts : j > i => profile[n][Interval(j)] < profile[n][Interval(i)]
<1>1. i \in Cuts /\ \A j \in Cuts : IF j <= i THEN Revenue(j, {}) <= Revenue(i, {})
                                              ELSE Revenue(j, {}) < Revenue(i, {})
  BY DEF Best
<1>2. \A j \in Cuts : Revenue(j, {}) = profile[n][Interval(j)] /\ Revenue(j, {}) \in Nat
  BY Interval0
<1>3. \A j \in Cuts : j \in Nat
  BY Numbers
<1>. QED  BY <1>1, <1>2, <1>3

\* The peak of what is left is in the interval.
LEMMA PeakWithin ==
    ASSUME Accounts, pc = "search", ~ShouldTerminate, Peaked(profile[n]),
           Shrinking \/ Narrowing, NEW c \in lower..upper, profile[n][c] > 0
    PROVE  \E top \in lower..upper :
               /\ IsTop(profile[n], top, left) /\ top \in Peaks(profile[n], left)
               /\ \A x \in Peaks(profile[n], left) : profile[n][x] > 0 => x = top
<1>1. PICK top : /\ IsTop(profile[n], top, left) /\ top \in Peaks(profile[n], left)
                 /\ \A x \in Peaks(profile[n], left) : profile[n][x] > 0 => x = top
  BY Interval0, TopExists
<1>2. c \in 0..left /\ top \in 0..left /\ profile[n][top] > 0
  <2>1. c \in 0..left /\ top \in 0..left /\ profile[n][c] <= profile[n][top]
    BY <1>1, Interval0 DEF Peaks
  <2>. QED  BY <2>1, Interval0
<1>3. CASE Shrinking
  <2>1. ~(top \in (upper + 1)..left)
    BY <1>2, <1>3, Interval0 DEF Shrinking
  <2>2. top \in lower..upper
    BY <1>2, <1>3, <2>1, Interval0 DEF Shrinking
  <2>. QED  BY <1>1, <2>2
<1>4. CASE Narrowing
  <2>1. PICK x \in Peaks(profile[n], left) :
            \/ x \in lower..upper /\ highest \in lower..upper
            \/ upper < lower /\ highest = x
    BY <1>4 DEF Narrowing
  <2>2. x \in lower..upper
    BY <2>1, Interval0
  <2>3. profile[n][x] > 0
    <3>1. x \in 0..left /\ profile[n][top] <= profile[n][x]
      BY <1>2, <2>1 DEF Peaks
    <3>. QED  BY <1>2, <3>1, Interval0
  <2>. QED  BY <1>1, <2>1, <2>2, <2>3
<1>. QED  BY <1>3, <1>4

\* The interval between the neighbours of the best cut has the peak.
LEMMA NarrowKeeps ==
    ASSUME Accounts, pc = "search", ~ShouldTerminate, Peaked(profile[n]),
           Shrinking \/ Narrowing, NEW i \in Best({}), Narrow(i, {})
    PROVE  Narrowing'
<1>. DEFINE p == profile[n]
            at(j) == Interval(j)
<1>1. /\ i \in Cuts /\ p[at(i)] > 0
      /\ \A j \in Cuts : p[at(j)] <= p[at(i)]
      /\ \A j \in Cuts : j > i => p[at(j)] < p[at(i)]
  <2>1. Revenue(i, {}) > 0
    BY DEF Narrow
  <2>. QED  BY <2>1, BestCut, Interval0
<1>2. at(i) \in lower..upper /\ at(i) \in 0..left /\ at(i) > 0
  BY <1>1, Interval0
<1>3. PICK top \in lower..upper :
          /\ IsTop(p, top, left) /\ top \in Peaks(p, left)
          /\ \A x \in Peaks(p, left) : p[x] > 0 => x = top
  BY <1>1, <1>2, PeakWithin
<1>4. /\ highest' = at(i) /\ profile' = profile /\ n' = n /\ left' = left
      /\ lower' = IF i = 0 THEN lower ELSE at(i - 1) + 1
      /\ i = K => upper' = upper
      /\ i # K => at(i + 1) = 0 \/ upper' = at(i + 1) - 1
  BY DEF Narrow
<1>5. /\ at(0) = lower /\ at(K) = upper
      /\ i # 0 => i \in 1..K /\ i - 1 \in Cuts
      /\ i # K => i + 1 \in 1..K /\ i + 1 \in Cuts /\ (i + 1) - 1 = i /\ i + 1 > i
      /\ i \in Nat
  BY <1>1, Interval0, CutSteps DEF Cuts, K
<1>6. i # 0 => /\ at(i - 1) \in Nat /\ at(i - 1) <= at(i) /\ at(i - 1) \in lower..upper
               /\ upper - lower >= K => at(i - 1) < at(i)
               /\ upper - lower < K => at(i) <= at(i - 1) + 1
  BY <1>5, Interval0, CutSteps
<1>7. i # K => /\ at(i + 1) \in Nat /\ at(i) < at(i + 1) /\ at(i + 1) \in lower..upper
               /\ upper' = at(i + 1) - 1
               /\ upper - lower < K => at(i + 1) <= at(i) + 1
               /\ p[at(i + 1)] < p[at(i)]
  <2>1. SUFFICES ASSUME i # K
                 PROVE  /\ at(i + 1) \in Nat /\ at(i) < at(i + 1) /\ at(i + 1) \in lower..upper
                        /\ upper' = at(i + 1) - 1
                        /\ upper - lower < K => at(i + 1) <= at(i) + 1
                        /\ p[at(i + 1)] < p[at(i)]
    OBVIOUS
  <2>2. /\ at(i + 1) \in Nat /\ at(i) <= at(i + 1) /\ at(i + 1) \in lower..upper
        /\ upper - lower < K => at(i + 1) <= at(i) + 1
    BY <1>5, <2>1, Interval0, CutSteps
  <2>3. p[at(i + 1)] < p[at(i)] /\ p[at(i)] \in Nat
    BY <1>1, <1>2, <1>5, <2>1, Interval0
  <2>4. at(i) # at(i + 1)
    BY <2>3
  <2>. QED  BY <1>2, <1>4, <2>1, <2>2, <2>3, <2>4
<1>. HIDE DEF at
<1>8. lower' > 0
  <2>1. lower \in Nat /\ upper \in Nat
    BY Interval0
  <2>. QED  BY <1>2, <1>4, <1>5, <1>6, <2>1
<1>9. \/ top \in lower'..upper' /\ at(i) \in lower'..upper'
      \/ upper' < lower' /\ at(i) = top
  <2>1. /\ lower \in Nat /\ upper \in Nat /\ left \in Nat /\ lower <= upper /\ upper <= left
        /\ K = 15 /\ \A x \in 0..left : p[x] \in Nat
    BY Interval0 DEF K
  <2>2. CASE upper - lower < K
    <3>1. at(i) = top
      <4>1. PICK j \in Cuts : at(j) = top
        BY <2>1, <2>2, SmallCut DEF at
      <4>2. p[top] <= p[at(i)]
        BY <1>1, <4>1
      <4>3. \A y \in 0..left : p[y] <= p[at(i)]
        <5>1. top \in 0..left /\ \A y \in 0..left : p[y] <= p[top]
          BY <1>3 DEF Peaks
        <5>. QED  BY <1>2, <2>1, <4>2, <5>1
      <4>. QED  BY <1>1, <1>2, <1>3, <4>3 DEF Peaks
    <3>2. upper' = top
      BY <1>2, <1>4, <1>5, <1>7, <2>1, <2>2, <3>1
    <3>3. lower' = top \/ lower' = top + 1
      BY <1>2, <1>4, <1>5, <1>6, <2>1, <2>2, <3>1
    <3>. QED  BY <2>1, <3>1, <3>2, <3>3
  <2>3. CASE upper - lower >= K
    <3>1. lower' <= top /\ lower' <= at(i) /\ lower' \in Nat
      <4>1. CASE i = 0
        BY <1>2, <1>4, <2>1, <4>1
      <4>2. CASE i # 0
        <5>1. at(i - 1) < at(i) /\ at(i - 1) \in Nat /\ i - 1 \in Cuts
          BY <1>5, <1>6, <2>3, <4>2
        <5>2. ~(top <= at(i - 1))
          <6>1. SUFFICES ASSUME top <= at(i - 1)
                         PROVE  FALSE
            OBVIOUS
          <6>2. at(i - 1) \in top..left /\ at(i) \in (at(i - 1) + 1)..left /\ at(i - 1) \in 0..left
            BY <1>2, <2>1, <5>1, <6>1
          <6>3. p[at(i)] < p[at(i - 1)] \/ p[at(i)] = 0
            BY <1>3, <6>2 DEF IsTop
          <6>4. p[at(i - 1)] <= p[at(i)] /\ p[at(i - 1)] \in Nat /\ p[at(i)] \in Nat
            BY <1>1, <1>2, <2>1, <5>1, <6>2
          <6>. QED  BY <1>1, <6>3, <6>4
        <5>. QED  BY <1>2, <1>4, <2>1, <4>2, <5>1, <5>2
      <4>. QED  BY <4>1, <4>2
    <3>2. top <= upper' /\ at(i) <= upper' /\ upper' \in Nat
      <4>1. CASE i = K
        BY <1>2, <1>4, <2>1, <4>1
      <4>2. CASE i # K
        <5>1. ~(at(i + 1) <= top)
          <6>1. SUFFICES ASSUME at(i + 1) <= top
                         PROVE  FALSE
            OBVIOUS
          <6>2. top \in 0..left /\ at(i + 1) \in Nat /\ at(i) < at(i + 1) /\ at(i + 1) \in 0..left
            BY <1>7, <2>1, <4>2
          <6>3. at(i + 1) \in 0..top /\ at(i) \in 0..(at(i + 1) - 1)
            BY <1>2, <6>1, <6>2
          <6>4. p[at(i)] < p[at(i + 1)]
            BY <1>3, <6>3 DEF IsTop
          <6>5. p[at(i + 1)] < p[at(i)] /\ p[at(i + 1)] \in Nat /\ p[at(i)] \in Nat
            BY <1>2, <1>7, <2>1, <4>2, <6>2
          <6>. QED  BY <6>4, <6>5
        <5>. QED  BY <1>2, <1>7, <2>1, <4>2, <5>1
      <4>. QED  BY <4>1, <4>2
    <3>. QED  BY <1>2, <2>1, <3>1, <3>2
  <2>. QED  BY <2>1, <2>2, <2>3
<1>10. p' = p
  BY <1>4
<1>11. Peaks(p, left)' = Peaks(p, left)
  BY <1>4 DEF Peaks
<1>. QED  BY <1>1, <1>3, <1>4, <1>8, <1>9, <1>11 DEF Narrowing

\* the least amount tried in an interval that starts at zero
LeastCut(w) == IF w < K THEN 1 ELSE w \div K

\* Without revenue at any cut, the search has never had any, and there is none
\* from the least cut above zero on.
LEMMA NothingTried ==
    ASSUME Accounts, pc = "search", ~ShouldTerminate, Peaked(profile[n]),
           Shrinking \/ Narrowing, NEW i \in Best({}), Revenue(i, {}) = 0
    PROVE  Shrinking /\ \A x \in LeastCut(upper)..left : profile[n][x] = 0
<1>. DEFINE p == profile[n]
<1>1. \A j \in Cuts : p[Interval(j)] = 0
  <2>1. i \in Cuts /\ \A j \in Cuts : p[Interval(j)] <= p[Interval(i)]
    BY BestCut
  <2>2. p[Interval(i)] = 0
    BY <2>1, Interval0
  <2>3. \A j \in Cuts : Interval(j) \in 0..left
    BY Interval0
  <2>. QED  BY <2>1, <2>2, <2>3, Interval0
<1>2. 0 \in Cuts /\ 1 \in Cuts /\ Interval(0) = lower
      /\ Interval(1) = lower + ((upper - lower) \div K)
  BY Interval0, CutSteps DEF Cuts, K
<1>3. Shrinking
  <2>1. SUFFICES ASSUME Narrowing
                 PROVE  FALSE
    OBVIOUS
  <2>2. PICK x \in Peaks(p, left) :
            \/ x \in lower..upper /\ highest \in lower..upper
            \/ upper < lower /\ highest = x
    BY <2>1 DEF Narrowing
  <2>3. highest \in lower..upper /\ p[highest] > 0
    BY <2>1, <2>2, Interval0 DEF Narrowing
  <2>4. PICK top \in lower..upper : IsTop(p, top, left)
    BY <2>3, PeakWithin
  <2>5. lower > 0 /\ lower \in 0..top /\ lower - 1 \in 0..(lower - 1) /\ lower - 1 \in 0..left
        /\ lower \in 0..left
    BY <2>1, <2>4, Interval0 DEF Narrowing
  <2>6. p[lower - 1] < p[lower]
    BY <2>4, <2>5 DEF IsTop
  <2>7. p[lower] > 0
    BY <2>5, <2>6, Interval0
  <2>. QED  BY <1>1, <1>2, <2>7
<1>4. lower = 0 /\ \A x \in (upper + 1)..left : p[x] = 0
  BY <1>3 DEF Shrinking
<1>5. CASE upper = 0
  <2>1. LeastCut(upper) = upper + 1
    BY <1>5 DEF LeastCut, K
  <2>. QED  BY <1>3, <1>4, <2>1
<1>6. CASE upper # 0 /\ upper < K
  <2>1. 1 \in lower..upper /\ 1 \in 1..left /\ upper - lower < K
    BY <1>4, <1>6, Interval0
  <2>2. PICK j \in Cuts : Interval(j) = 1
    BY <2>1, Interval0, SmallCut
  <2>3. p[1] = 0
    BY <1>1, <2>2
  <2>. QED  BY <1>3, <1>6, <2>1, <2>3, NothingBeyond, Interval0 DEF LeastCut
<1>7. CASE ~(upper < K)
  <2>. DEFINE c == upper \div K
  <2>1. c \in 1..left
    BY <1>7, Interval0 DEF K
  <2>2. p[c] = 0
    <3>1. Interval(1) = c
      BY <1>2, <1>4, Interval0 DEF K
    <3>. QED  BY <1>1, <1>2, <3>1
  <2>3. LeastCut(upper) = c
    BY <1>7 DEF LeastCut
  <2>. HIDE DEF c
  <2>. QED  BY <1>3, <2>1, <2>2, <2>3, NothingBeyond, Interval0
<1>. QED  BY <1>5, <1>6, <1>7

\* The interval gets smaller, and there is still nothing above it.
LEMMA ShrinkKeeps ==
    ASSUME Accounts, pc = "search", ~ShouldTerminate, Peaked(profile[n]),
           Shrinking \/ Narrowing, NEW i \in Best({}), NoRevenueShrink(i, {})
    PROVE  Shrinking'
<1>1. Shrinking /\ \A x \in LeastCut(upper)..left : profile[n][x] = 0
  BY NothingTried DEF NoRevenueShrink
<1>2. /\ counter \in Nat /\ counter < GiveUp /\ GiveUp \in Nat /\ counter + 1 # GiveUp
      /\ counter' = counter + 1
  BY <1>1, Numbers DEF Shrinking, Accounts, TypeOK, NoRevenueShrink, Counted
<1>3. lower = 0 /\ upper = Shrunk(left)[counter] /\ upper \in Nat /\ left \in Nat
  BY <1>1, Interval0 DEF Shrinking
<1>. DEFINE third == (upper * ((K + 1) \div 3)) \div K
<1>4. /\ profile' = profile /\ n' = n /\ left' = left /\ lower' = 0
      /\ upper' = IF third = 0 THEN 0 ELSE third - 1
  <2>1. Interval((K + 1) \div 3) = third
    <3>1. (K + 1) \div 3 = 5
      BY DEF K
    <3>2. Interval((K + 1) \div 3) = 0 + (((upper - 0) * ((K + 1) \div 3)) \div K)
      BY <1>3 DEF Interval
    <3>3. third \in Nat
      BY <1>3 DEF K
    <3>. QED  BY <1>3, <3>2, <3>3
  <2>. HIDE DEF third
  <2>. QED  BY <1>3, <2>1 DEF NoRevenueShrink
<1>5. upper' = Shrunk(left)[counter + 1]
  <2>1. counter + 1 \in 1..GiveUp /\ (counter + 1) - 1 = counter
    BY <1>2
  <2>. QED  BY <1>3, <1>4, <2>1, ShrunkSteps
<1>6. LeastCut(upper) <= upper' + 1 /\ upper' \in Nat /\ LeastCut(upper) \in Nat
  BY <1>3, <1>4 DEF LeastCut, K
<1>7. ASSUME NEW x \in (upper' + 1)..left
      PROVE  profile[n][x] = 0
  <2>1. \A a, b \in Nat : a <= b + 1 => \A y \in (b + 1)..left : y \in a..left
    BY <1>3
  <2>2. x \in LeastCut(upper)..left
    BY <1>6, <2>1
  <2>. QED  BY <1>1, <2>2
<1>8. /\ lower' = 0 /\ counter' < GiveUp /\ upper' = Shrunk(left')[counter']
      /\ \A x \in (upper' + 1)..left' : profile'[n'][x] = 0
  BY <1>2, <1>4, <1>5, <1>7
<1>. QED  BY <1>8 DEF Shrinking

\* Nothing is found within the tolerance before the search is given up.
LEMMA GiveUpFinds ==
    ASSUME Accounts, pc = "search", ~ShouldTerminate, Peaked(profile[n]),
           Shrinking \/ Narrowing, NEW i \in Best({}), NoRevenueGiveUp(i, {})
    PROVE  Found(profile[n], left, 0)
<1>1. Shrinking /\ \A x \in LeastCut(upper)..left : profile[n][x] = 0
  BY NothingTried DEF NoRevenueGiveUp
<1>2. counter = GiveUp - 1 /\ upper = Shrunk(left)[GiveUp - 1]
  BY <1>1, Numbers DEF Shrinking, NoRevenueGiveUp, Accounts, TypeOK
<1>3. Reach(left) = LeastCut(upper)
  BY <1>2 DEF Reach, LeastCut
<1>. QED  BY <1>1, <1>3 DEF Found

\* A search that ends by itself ends at the peak.
LEMMA TerminateFinds ==
    ASSUME Accounts, pc = "search", ShouldTerminate, tolerance = Tolerance(left),
           Peaked(profile[n]), Shrinking \/ Narrowing
    PROVE  Found(profile[n], left, highest)
<1>1. /\ lower \in Nat /\ upper \in Nat /\ left \in Amounts /\ highest \in Nat
      /\ tolerance \in Nat
  BY Numbers DEF Accounts, TypeOK
<1>2. ~Shrinking
  <2>1. SUFFICES ASSUME Shrinking
                 PROVE  FALSE
    OBVIOUS
  <2>2. upper < tolerance
    BY <1>1, <2>1 DEF ShouldTerminate, Shrinking
  <2>3. counter \in 0..(GiveUp - 1) /\ upper = Shrunk(left)[counter]
    BY <2>1, Numbers DEF Shrinking, Accounts, TypeOK
  <2>4. Tolerance(left) <= Shrunk(left)[counter]
    BY <1>1, <2>3, GiveUpAssumption
  <2>. QED  BY <1>1, <2>2, <2>3, <2>4
<1>3. profile[n][highest] > 0 /\ \E x \in Peaks(profile[n], left) :
           \/ x \in lower..upper /\ highest \in lower..upper
           \/ upper < lower /\ highest = x
  BY <1>2 DEF Narrowing
<1>4. PICK x \in Peaks(profile[n], left) :
           \/ x \in lower..upper /\ highest \in lower..upper
           \/ upper < lower /\ highest = x
  BY <1>3
<1>5. highest - x \in -tolerance..tolerance
  <2>1. CASE x \in lower..upper /\ highest \in lower..upper
    <3>1. upper - lower < tolerance
      BY <1>1, <2>1 DEF ShouldTerminate
    <3>. QED  BY <1>1, <2>1, <3>1
  <2>2. CASE highest = x
    BY <1>1, <2>2
  <2>. QED  BY <1>4, <2>1, <2>2
<1>. QED  BY <1>3, <1>4, <1>5 DEF Found
-----------------------------------------------------------------------------
\* What has been found for the ingredients before stays, and the search for the
\* next one begins.
LEMMA ReturnBracketed ==
    ASSUME Accounts, Bracketed, pc = "search", NEW amount \in Amounts, amount <= left,
           Return(amount), failed' \in [Ingredients -> BOOLEAN],
           \A i \in Ingredients : i < n => failed'[i] = failed[i],
           ~failed'[n] /\ Peaked(profile[n]) => Found(profile[n], left, amount)
    PROVE  Bracketed'
<1>1. /\ profile' = profile /\ Ingredients' = Ingredients /\ Ingredients = 1..Len(profile)
      /\ n \in 1..Len(profile) /\ Len(profile) \in Nat
      /\ optimals \in [Ingredients -> Amounts]
      /\ optimals' = [optimals EXCEPT ![n] = amount]
  <2>1. DOMAIN profile = 1..Len(profile)
    BY SearchAssumption DEF Accounts, TypeOK
  <2>. QED  BY <2>1, ProfileAt DEF Return, Accounts, TypeOK, Ingredients
<1>2. /\ optimals'[n] = amount
      /\ \A i \in Ingredients : i < n => optimals'[i] = optimals[i]
  BY <1>1
<1>3. ASSUME NEW i \in Ingredients, i <= n
      PROVE  Total(optimals', i - 1) = Used(i - 1)
  <2>1. i - 1 \in Nat /\ \A m \in 1..(i - 1) : m \in Ingredients /\ m < n
    BY <1>1, <1>3
  <2>2. \A m \in 1..(i - 1) : optimals[m] \in Nat /\ optimals[m] = optimals'[m]
    BY <1>1, <1>2, <2>1, Numbers
  <2>3. Total(optimals, i - 1) = Total(optimals', i - 1)
    BY <2>1, <2>2, TotalOfSame
  <2>. QED  BY <2>3 DEF Used
<1>4. Used(n - 1) + left = Balance
  BY DEF Accounts
<1>5. Balance - Used(n - 1) = left
  <2>1. \A m \in 1..(n - 1) : optimals[m] \in Nat /\ optimals[m] = optimals[m]
    <3>1. \A m \in 1..(n - 1) : m \in Ingredients
      BY <1>1
    <3>. QED  BY <1>1, <3>1, Numbers
  <2>2. Used(n - 1) \in Nat
    <3>1. n - 1 \in Nat
      BY <1>1
    <3>. QED  BY <2>1, <3>1, TotalOfSame DEF Used
  <2>3. left \in Nat
    BY Numbers DEF Accounts, TypeOK
  <2>. QED  BY <1>4, <2>2, <2>3
<1>6. ASSUME NEW i \in Ingredients, i <= n
      PROVE  Settled(i)'
  <2>1. CASE i < n
    <3>1. Settled(i)
      BY <2>1 DEF Bracketed
    <3>2. failed'[i] = failed[i] /\ optimals'[i] = optimals[i]
      BY <1>2, <2>1
    <3>3. Undisturbed(i)' => Undisturbed(i)
      BY <1>1, <3>2 DEF Undisturbed, Peaked
    <3>4. Total(optimals', i - 1) = Used(i - 1)
      BY <1>3, <1>6
    <3>. QED  BY <1>1, <3>1, <3>2, <3>3, <3>4 DEF Settled, Found, Peaks, Used
  <2>2. CASE i = n
    <3>1. Undisturbed(i)' => Found(profile[i], left, amount)
      BY <1>1, <2>2 DEF Undisturbed
    <3>2. Total(optimals', i - 1) = Used(i - 1) /\ Used(i - 1) = Used(n - 1)
      BY <1>3, <1>6, <2>2
    <3>3. profile'[i] = profile[i] /\ optimals'[i] = amount /\ Balance - Total(optimals', i - 1) = left
      BY <1>1, <1>2, <1>5, <2>2, <3>2
    <3>. QED  BY <3>1, <3>3 DEF Settled, Used
  <2>. QED  BY <1>1, <1>6, <2>1, <2>2
<1>7. CASE n < Len(profile)
  <2>1. /\ n' = n + 1 /\ pc' = "search"
        /\ lower' = 0 /\ upper' = left' /\ tolerance' = Tolerance(left') /\ counter' = 0
    BY <1>7 DEF Return, Begin
  <2>2. left' \in Nat
    BY Numbers DEF Return, Accounts, TypeOK
  <2>3. Shrinking'
    <3>1. upper' = Shrunk(left')[0] /\ counter' < GiveUp
      BY <2>1, <2>2, ShrunkSteps, Numbers
    <3>2. \A x \in (upper' + 1)..left' : profile'[n'][x] = 0
      <4>1. \A a \in Nat : (a + 1)..a = {}
        OBVIOUS
      <4>. QED  BY <2>1, <2>2, <4>1
    <3>3. upper' = Shrunk(left')[counter']
      BY <2>1, <3>1
    <3>. QED  BY <2>1, <3>1, <3>2, <3>3 DEF Shrinking
  <2>4. \A i \in Ingredients : i < n' => i <= n
    BY <1>1, <2>1
  <2>5. pc' # "done"
    BY <2>1
  <2>. QED  BY <1>1, <1>6, <2>1, <2>3, <2>4, <2>5 DEF Bracketed
<1>8. CASE ~(n < Len(profile))
  <2>1. pc' = "done" /\ \A i \in Ingredients : i <= n
    BY <1>1, <1>8 DEF Return
  <2>. QED  BY <1>1, <1>6, <2>1 DEF Bracketed
<1>. QED  BY <1>7, <1>8

LEMMA InitBracketed ==
    ASSUME Init
    PROVE  Bracketed
<1>1. Shrinking
  <2>1. upper = Shrunk(left)[0] /\ counter < GiveUp /\ Balance \in Nat
    BY ShrunkSteps, Numbers DEF Init
  <2>2. \A x \in (upper + 1)..left : profile[n][x] = 0
    BY <2>1 DEF Init
  <2>. QED  BY <2>1, <2>2 DEF Init, Shrinking
<1>2. \A i \in Ingredients : ~(i < n)
  <2>1. Ingredients = 1..Len(profile)
    BY SearchAssumption DEF Init, Ingredients
  <2>. QED  BY <2>1 DEF Init
<1>. QED  BY <1>1, <1>2 DEF Init, Bracketed

\* The search for an ingredient ends.
LEMMA TerminateBracketed ==
    ASSUME Accounts, Bracketed, Terminate
    PROVE  Bracketed'
<1>1. /\ pc = "search" /\ highest \in Amounts /\ highest <= left /\ failed' = failed
      /\ failed \in [Ingredients -> BOOLEAN] /\ n \in Ingredients
  BY DEF Terminate, Accounts, TypeOK
<1>2. ~failed[n] /\ Peaked(profile[n]) => Found(profile[n], left, highest)
  BY <1>1, TerminateFinds DEF Bracketed, Undisturbed, Terminate
<1>. QED  BY <1>1, <1>2, ReturnBracketed DEF Terminate

\* One iteration of it.
LEMMA ProbeBracketed ==
    ASSUME Accounts, Bracketed, Probe
    PROVE  Bracketed'
<1>1. /\ pc = "search" /\ ~ShouldTerminate /\ n \in Ingredients
      /\ failed \in [Ingredients -> BOOLEAN]
  BY DEF Probe, Accounts, TypeOK
<1>2. PICK fails \in FailSets : \E j \in Best(fails) :
          /\ failed' = [failed EXCEPT ![n] = @ \/ fails # {}]
          /\ \/ NoRevenueGiveUp(j, fails)
             \/ NoRevenueShrink(j, fails)
             \/ Narrow(j, fails)
  BY DEF Probe
<1>3. PICK i \in Best(fails) :
          /\ failed' = [failed EXCEPT ![n] = @ \/ fails # {}]
          /\ \/ NoRevenueGiveUp(i, fails)
             \/ NoRevenueShrink(i, fails)
             \/ Narrow(i, fails)
  BY <1>2
<1>4. /\ failed' \in [Ingredients -> BOOLEAN]
      /\ \A k \in Ingredients : k < n => failed'[k] = failed[k]
      /\ ~failed'[n] => ~failed[n] /\ fails = {}
  <2>1. \A k \in Ingredients : k # n => failed'[k] = failed[k]
    BY <1>1, <1>3
  <2>2. failed'[n] = (failed[n] \/ fails # {})
    BY <1>1, <1>3
  <2>3. \A k \in Ingredients : k < n => k # n
    <3>1. Ingredients = 1..Len(profile)
      BY SearchAssumption DEF Accounts, TypeOK, Ingredients
    <3>. QED  BY <1>1, <3>1
  <2>4. failed' \in [Ingredients -> BOOLEAN]
    BY <1>1, <1>3
  <2>. QED  BY <2>1, <2>2, <2>3, <2>4
<1>5. ~failed'[n] /\ Peaked(profile[n]) =>
          fails = {} /\ Undisturbed(n) /\ (Shrinking \/ Narrowing)
  BY <1>1, <1>4 DEF Bracketed, Undisturbed
<1>6. CASE NoRevenueGiveUp(i, fails)
  <2>1. ~failed'[n] /\ Peaked(profile[n]) => Found(profile[n], left, 0)
    BY <1>1, <1>3, <1>5, <1>6, GiveUpFinds
  <2>2. 0 \in Amounts /\ 0 <= left
    BY Numbers DEF Accounts, TypeOK
  <2>. QED  BY <1>1, <1>4, <1>6, <2>1, <2>2, ReturnBracketed DEF NoRevenueGiveUp
<1>7. ASSUME n' = n, profile' = profile, left' = left, tolerance' = tolerance,
             optimals' = optimals, pc' = "search",
             ~failed'[n] /\ Peaked(profile[n]) => Shrinking' \/ Narrowing'
      PROVE  Bracketed'
  <2>1. ASSUME NEW k \in Ingredients, k < n
        PROVE  Settled(k)'
    <3>1. Settled(k) /\ failed'[k] = failed[k]
      BY <1>4, <2>1 DEF Bracketed
    <3>2. Undisturbed(k)' => Undisturbed(k)
      BY <1>7, <3>1 DEF Undisturbed, Peaked
    <3>. QED  BY <1>7, <3>1, <3>2 DEF Settled, Found, Peaks, Used
  <2>2. tolerance' = Tolerance(left')
    BY <1>1, <1>7 DEF Bracketed
  <2>3. Undisturbed(n)' => Shrinking' \/ Narrowing'
    BY <1>7 DEF Undisturbed, Peaked
  <2>4. Ingredients' = Ingredients /\ pc' # "done"
    BY <1>7 DEF Ingredients
  <2>. QED  BY <1>7, <2>1, <2>2, <2>3, <2>4 DEF Bracketed
<1>8. CASE NoRevenueShrink(i, fails)
  <2>1. ~failed'[n] /\ Peaked(profile[n]) => Shrinking'
    BY <1>1, <1>3, <1>5, <1>8, ShrinkKeeps
  <2>. QED  BY <1>1, <1>7, <1>8, <2>1 DEF NoRevenueShrink
<1>9. CASE Narrow(i, fails)
  <2>1. ~failed'[n] /\ Peaked(profile[n]) => Narrowing'
    BY <1>1, <1>3, <1>5, <1>9, NarrowKeeps
  <2>2. pc' = "search"
    <3>1. NoPanic'
      BY ProbeInv DEF Accounts
    <3>. QED  BY <1>1, <1>9, <3>1 DEF Narrow, NoPanic
  <2>. QED  BY <1>7, <1>9, <2>1, <2>2 DEF Narrow
<1>. QED  BY <1>3, <1>6, <1>8, <1>9

\* Every step keeps the accounts, and the peak of an undisturbed search in its
\* interval.
THEOREM Invariance == Spec => []IInv
<1>1. Init => Bracketed
  BY InitBracketed
<1>2. Accounts /\ Bracketed /\ [Next]_vars => Bracketed'
  <2>1. ASSUME Bracketed, UNCHANGED vars
        PROVE  Bracketed'
    BY <2>1 DEF Bracketed, Settled, Undisturbed, Peaked, Found, Peaks, Used, Shrinking,
                Narrowing, vars, Ingredients
  <2>. QED  BY <2>1, TerminateBracketed, ProbeBracketed DEF Next, Done
<1>3. Accounts /\ Bracketed => IInv
  BY DEF IInv
<1>. QED  BY <1>1, <1>2, <1>3, AccountsInvariance, PTL DEF Spec

\* When none of its simulations fails and its revenue has one peak, the search
\* for an ingredient ends within the tolerance of the peak, or leaves out what
\* earns nothing.
THEOREM FindsPeakHolds == Spec => []FindsPeak
<1>1. IInv => FindsPeak
  BY DEF IInv, Bracketed, FindsPeak
<1>. QED  BY <1>1, Invariance, PTL
=============================================================================
