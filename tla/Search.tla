-------------------------------- MODULE Search --------------------------------
(***************************************************************************)
(* The search for the amounts to sandwich with                             *)
(* (src/bot/src/simulate/make_sandwich.rs, create_optimal_sandwich and     *)
(* juiced_quadratic_search): for each ingredient in turn, the interval     *)
(* between zero and what is left of the balance is cut in 15, the revenue  *)
(* of every cut is simulated at once, and the search goes on between the   *)
(* neighbours of the best cut.                                             *)
(*                                                                         *)
(* Amounts are small integers; the revenue of an amount is its profile, or *)
(* zero when its simulation failed (unwrap_or_default).                    *)
(***************************************************************************)
EXTENDS Integers, Sequences

CONSTANTS Balance,      \* WETH of the sandwich contract
          Profiles,     \* sequences of revenues by amount, one per ingredient
          FailSets,     \* sets of cuts whose simulations can fail together
          Base,         \* the tolerance is a part in Base of the middle
          GiveUp        \* iterations without revenue before giving up

Amounts == 0..Balance
K == 15                 \* number_of_intervals
Cuts == 0..K

ASSUME SearchAssumption ==
    /\ Balance \in Nat
    /\ Base \in Nat \ {0}
    /\ GiveUp \in Nat \ {0}
    \* nothing is earned by a swap of nothing
    /\ \A list \in Profiles :
           /\ list \in Seq([Amounts -> Nat]) \ {<<>>}
           /\ \A i \in DOMAIN list : list[i][0] = 0
    /\ FailSets \subseteq SUBSET Cuts

VARIABLES
    profile,    \* profile[i]: the revenue of ingredient i
    n,          \* the ingredient at hand
    left,       \* upper_bound of create_optimal_sandwich
    optimals,   \* what was found for the ingredients so far
    lower, upper, tolerance, counter, highest,   \* the running search
    failed,     \* failed[i]: a simulation of the search for i has failed
    pc          \* "search", "panic", or "done"

vars == <<profile, n, left, optimals, lower, upper, tolerance, counter,
          highest, failed, pc>>
searchVars == <<lower, upper, tolerance, counter, highest>>

Ingredients == DOMAIN profile

TypeOK ==
    /\ profile \in Profiles
    /\ n \in Ingredients
    /\ left \in Amounts
    /\ optimals \in [Ingredients -> Amounts]
    /\ lower \in Nat /\ upper \in Amounts
    /\ tolerance \in Nat /\ counter \in 0..GiveUp
    /\ highest \in Amounts
    /\ failed \in [Ingredients -> BOOLEAN]
    /\ pc \in {"search", "panic", "done"}

Tolerance(u) == (u \div 2) \div Base

\* the upper bounds of a search between zero and u that finds no revenue
Shrunk(u) ==
    LET third(w) == (w * ((K + 1) \div 3)) \div K
        bound[k \in 0..GiveUp] ==
            IF k = 0 THEN u
            ELSE IF third(bound[k - 1]) = 0 THEN 0 ELSE third(bound[k - 1]) - 1
    IN  bound

\* A search without revenue is given up before its interval is within the
\* tolerance: after ten intervals, each about a third of the one before, with a
\* tolerance of a two millionth.
ASSUME GiveUpAssumption ==
    \A u \in Amounts : \A k \in 0..(GiveUp - 1) : Tolerance(u) <= Shrunk(u)[k]

\* a new search between zero and u
Begin(u) ==
    /\ lower' = 0
    /\ upper' = u
    /\ tolerance' = Tolerance(u)
    /\ counter' = 0
    /\ highest' = 0

Init ==
    /\ profile \in Profiles
    /\ n = 1
    /\ left = Balance
    /\ optimals = [i \in Ingredients |-> 0]
    /\ lower = 0
    /\ upper = Balance
    /\ tolerance = Tolerance(Balance)
    /\ counter = 0
    /\ highest = 0
    /\ failed = [i \in Ingredients |-> FALSE]
    /\ pc = "search"

\* faulty variant: what the earlier ingredients use is not taken off
ReturnFullBalance(amount) ==
    /\ optimals' = [optimals EXCEPT ![n] = amount]
    /\ left' = left
    /\ IF n < Len(profile)
       THEN n' = n + 1 /\ Begin(left') /\ UNCHANGED pc
       ELSE pc' = "done" /\ UNCHANGED <<n, searchVars>>
    /\ UNCHANGED profile

\* faulty variant: a search too many
ReturnPastLast(amount) ==
    /\ optimals' = [optimals EXCEPT ![n] = amount]
    /\ left' = IF amount <= left THEN left - amount ELSE 0
    /\ n' = n + 1 /\ Begin(left')
    /\ UNCHANGED <<profile, pc>>

\* the search returns; an amount of zero leaves the ingredient out, another
\* one is taken off what the next ingredients may use
Return(amount) ==
    /\ optimals' = [optimals EXCEPT ![n] = amount]
    /\ left' = IF amount <= left THEN left - amount ELSE 0
    /\ IF n < Len(profile)
       THEN n' = n + 1 /\ Begin(left') /\ UNCHANGED pc
       ELSE pc' = "done" /\ UNCHANGED <<n, searchVars>>
    /\ UNCHANGED profile

ShouldTerminate == upper < lower \/ upper - lower < tolerance

Terminate ==
    /\ pc = "search"
    /\ ShouldTerminate
    /\ Return(highest)
    /\ UNCHANGED failed

\* faulty variant: iterations without revenue are not counted
CountedNot == counter

\* the count is only ever compared with GiveUp: beyond it, it stays
Counted == IF counter < GiveUp THEN counter + 1 ELSE counter

Interval(i) == lower + (((upper - lower) * i) \div K)
Revenue(i, fails) == IF i \in fails THEN 0 ELSE profile[n][Interval(i)]

\* max_by: the highest, and the last of several
Best(fails) ==
    LET revenue == [i \in Cuts |-> Revenue(i, fails)]
    IN  {i \in Cuts : \A j \in Cuts :
            IF j <= i THEN revenue[j] <= revenue[i] ELSE revenue[j] < revenue[i]}

\* no revenue: give up after GiveUp iterations
NoRevenueGiveUp(i, fails) ==
    /\ Revenue(i, fails) = 0
    /\ counter + 1 = GiveUp
    /\ Return(0)

\* faulty variant: an unchecked subtraction
NoRevenueShrinkUnchecked(i, fails) ==
    /\ Revenue(i, fails) = 0
    /\ counter + 1 # GiveUp
    /\ LET third == Interval((K + 1) \div 3)
       IN  IF third = 0
           THEN pc' = "panic" /\ UNCHANGED upper
           ELSE upper' = third - 1 /\ UNCHANGED pc
    /\ highest' = Interval(i)
    /\ counter' = Counted
    /\ UNCHANGED <<profile, n, left, optimals, lower, tolerance>>

\* no revenue: most likely the optimum is small
NoRevenueShrink(i, fails) ==
    /\ Revenue(i, fails) = 0
    /\ counter + 1 # GiveUp
    /\ LET third == Interval((K + 1) \div 3)
       IN  upper' = IF third = 0 THEN 0 ELSE third - 1
    /\ highest' = Interval(i)
    /\ counter' = Counted
    /\ UNCHANGED <<profile, n, left, optimals, lower, tolerance, pc>>

\* faulty variant: the upper bound is taken from the best cut, not its neighbour
NarrowShort(i, fails) ==
    /\ Revenue(i, fails) > 0
    /\ highest' = Interval(i)
    /\ counter' = Counted
    /\ lower' = IF i = 0 THEN lower ELSE Interval(i - 1) + 1
    /\ upper' = IF Interval(i) = 0 THEN 0 ELSE Interval(i) - 1
    /\ UNCHANGED <<profile, n, left, optimals, tolerance, pc>>

\* revenue: go on between the neighbours of the best cut; U256 panics when a
\* subtraction underflows
Narrow(i, fails) ==
    /\ Revenue(i, fails) > 0
    /\ highest' = Interval(i)
    /\ counter' = Counted
    /\ lower' = IF i = 0 THEN lower ELSE Interval(i - 1) + 1
    /\ IF i = K
       THEN UNCHANGED <<upper, pc>>
       ELSE IF Interval(i + 1) = 0
            THEN pc' = "panic" /\ UNCHANGED upper
            ELSE upper' = Interval(i + 1) - 1 /\ UNCHANGED pc
    /\ UNCHANGED <<profile, n, left, optimals, tolerance>>

\* one iteration: all cuts are simulated and the best one decides
Probe ==
    /\ pc = "search"
    /\ ~ShouldTerminate
    /\ \E fails \in FailSets : \E i \in Best(fails) :
        /\ failed' = [failed EXCEPT ![n] = @ \/ fails # {}]
        /\ \/ NoRevenueGiveUp(i, fails)
           \/ NoRevenueShrink(i, fails)
           \/ Narrow(i, fails)

Done == pc # "search" /\ UNCHANGED vars

Next == Terminate \/ Probe \/ Done

Spec == Init /\ [][Next]_vars
\* the search is one task that never waits for anything but its simulations
FairSpec == Spec /\ WF_vars(Terminate \/ Probe)
-----------------------------------------------------------------------------
\* The U256 subtraction at a neighbour of the best cut never underflows: no
\* cut at zero is ever the best one with revenue.
NoPanic == pc # "panic"

\* the first k of some amounts together
Total(amounts, k) ==
    LET total[m \in 0..k] == IF m = 0 THEN 0 ELSE total[m - 1] + amounts[m]
    IN  total[k]
Used(k) == Total(optimals, k)

\* The amounts found for the ingredients can be spent together.
StakesWithinBalance == pc = "done" => Used(Len(profile)) <= Balance

\* The revenue of a swap with a slippage limit: it rises to a peak, falls from
\* there, and is nothing once the victim reverts.
Peaked(p) ==
    \E peak \in Amounts :
        /\ \A y \in 0..peak : \A x \in 0..(y - 1) : p[x] < p[y]
        /\ \A x \in peak..Balance : \A y \in (x + 1)..Balance : p[y] < p[x] \/ p[y] = 0

\* The greatest revenue of the amounts up to u.
Peaks(p, u) == {x \in 0..u : \A y \in 0..u : p[y] <= p[x]}

\* The least amount that a search between zero and u tries.
Reach(u) ==
    LET last == Shrunk(u)[GiveUp - 1]
    IN  IF last < K THEN 1 ELSE last \div K

\* A search between zero and u has ended within the tolerance of an amount of
\* greatest revenue, or with nothing because nothing is earned with what it
\* may try.
Found(p, u, amount) ==
    \/ amount = 0 /\ \A x \in Reach(u)..u : p[x] = 0
    \/ p[amount] > 0 /\ \E x \in Peaks(p, u) : amount - x \in -Tolerance(u)..Tolerance(u)

\* none of the simulations for an ingredient has failed
Undisturbed(i) == ~failed[i] /\ Peaked(profile[i])

Settled(i) == Undisturbed(i) => Found(profile[i], Balance - Used(i - 1), optimals[i])

\* When none of its simulations fails, whatever those of the ingredients before
\* it did, the search for an ingredient finds its peak, or leaves it out because
\* nothing is earned with it.
FindsPeak == pc = "done" => \A i \in Ingredients : Settled(i)

\* So far without revenue, and there is none above the interval.
Shrinking ==
    /\ lower = 0
    /\ counter < GiveUp /\ upper = Shrunk(left)[counter]
    /\ \A x \in (upper + 1)..left : profile[n][x] = 0

\* With revenue: the peak is in the interval, or found.
Narrowing ==
    /\ lower > 0
    /\ profile[n][highest] > 0
    /\ \E x \in Peaks(profile[n], left) :
           \/ x \in lower..upper /\ highest \in lower..upper
           \/ upper < lower /\ highest = x

\* What is left is what the ingredients before this one do not use, and the
\* search stays within it.
Accounts ==
    /\ TypeOK
    /\ NoPanic
    /\ pc = "search" =>
           upper <= left /\ highest <= left /\ Used(n - 1) + left = Balance
    /\ StakesWithinBalance

\* The peak is never lost.
Bracketed ==
    /\ \A i \in Ingredients : i < n \/ pc = "done" => Settled(i)
    /\ pc = "search" =>
           /\ tolerance = Tolerance(left)
           /\ Undisturbed(n) => Shrinking \/ Narrowing

\* The inductive invariant of the proofs.
IInv == Accounts /\ Bracketed

\* The loop over the ingredients and each search in it end.
SearchEnds == <>(pc = "done")
=============================================================================
