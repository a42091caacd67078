------------------------------- MODULE Sandwich -------------------------------
(***************************************************************************)
(* From raw ingredients to a recipe (src/bot/src/simulate/make_sandwich.rs,*)
(* create_optimal_sandwich, evaluate_sandwich_revenue and sanity_check):   *)
(* the ingredients that earn something are kept, then one EVM runs the     *)
(* frontrun, the victims' transactions (meats) and the backrun.  The EVM   *)
(* has one transaction environment: each transaction sets some of its      *)
(* fields and inherits the others from the one before.                     *)
(*                                                                         *)
(* What the pools quote and what the contracts do with a transaction is a  *)
(* choice.                                                                 *)
(***************************************************************************)
EXTENDS Encoding, Sequences, SequencesExt

CONSTANTS Orders,   \* sequences of raw ingredients: [variant, meats]
          BaseFee,  \* of the next block
          Stakes,   \* what the search finds to be optimal
          Quotes    \* what the pools may give for a stake

NoTip == -1         \* gas_priority_fee: None
\* hash: its order in the bundle; price: max fee, or gas price of a legacy
\* transaction; tight: its gas limit leaves nothing for an access list, nor
\* for a query
Meat == [hash : Nat, legacy : BOOLEAN, price : Nat, tip : Nat, tight : BOOLEAN]

ASSUME SandwichAssumption ==
    /\ BaseFee \in Nat
    /\ Stakes \subseteq Nat \ {0}
    /\ Quotes \subseteq Nat
    /\ Orders \subseteq Seq([variant : Variants, meats : Seq(Meat)])
    \* one transaction has one hash
    /\ \A order \in Orders : \A i, k \in DOMAIN order :
           \A x \in Range(order[i].meats), y \in Range(order[k].meats) :
               x.hash = y.hash => x = y

VARIABLES
    order,      \* multi_ingredients as they come
    kept,       \* good_ingredients, with their stakes
    i, j,       \* the ingredient and the meat at hand
    env,        \* evm.env.tx: price, tip, tight gas limit, access list
    ins,        \* backrun_ins, with the ingredient an amount belongs to
    front, back,\* the parts of frontrun_data and backrun_data
    good,       \* good_meats, by their hashes
    pc, result

vars == <<order, kept, i, j, env, ins, front, back, good, pc, result>>
built == <<kept, ins, front, back>>

Panics == {"funds or database", "tip", "index", "zero", "overflow"}
\* quote: what the pool gives; asks, sells: the amounts of the payload
FrontPart == [of : Nat, first : BOOLEAN, quote : Nat, asks : Nat]
BackPart == [of : Nat, amountOf : Nat, first : BOOLEAN, sells : Nat]

\* all but good, of which Hashes tells more
BuiltOK ==
    /\ order \in Orders
    /\ kept \in Seq([variant : Variants, meats : Seq(Meat), stake : Stakes])
    /\ i \in Nat \ {0} /\ j \in Nat \ {0}
    /\ env \in [price : Nat, tip : Nat \union {NoTip}, tight : BOOLEAN,
                access : {"empty", "frontrun", "backrun"}]
    /\ ins \in Seq([of : Nat, amount : Nat])
    /\ front \in Seq(FrontPart) /\ back \in Seq(BackPart)
    /\ pc \in {"search", "frontrun_data", "meats", "backrun_data", "report", "done"}
    /\ result \in {"running", "Ok", "Err"} \union Panics

Fresh == [price |-> 0, tip |-> NoTip, tight |-> FALSE, access |-> "empty"]

Init ==
    /\ order \in Orders
    /\ kept = <<>>
    /\ i = 1 /\ j = 1
    /\ env = Fresh
    /\ ins = <<>> /\ front = <<>> /\ back = <<>>
    /\ good = <<>>
    /\ pc = "search" /\ result = "running"

End(r) == pc' = "done" /\ result' = r
Return(r) == End(r) /\ UNCHANGED <<order, i, j, env, built, good>>

\* the fees that revm accepts
Accepted(e) == e.price >= BaseFee /\ e.tip <= e.price

\* a legacy meat leaves the tip of the one before
MeatEnv(e, meat) ==
    [e EXCEPT !.price = meat.price,
              !.tip = IF meat.legacy THEN @ ELSE meat.tip,
              !.tight = meat.tight]

\* set for a query or for one of the searcher's transactions; the tip stays
OwnEnv(e) == [e EXCEPT !.price = BaseFee, !.tight = FALSE]

-----------------------------------------------------------------------------
\* faulty variant: the tip of the last meat is not there in the backrun
EvaluatesUntipped(ingredient) == TRUE

\* evaluate_sandwich_revenue: an error of a meat is ignored; the backrun, at
\* the base fee, inherits the tip of the last meat that has one, and an error
\* there means no revenue
Evaluates(ingredient) ==
    LET meats == ingredient.meats
        tipped(k) == k \in DOMAIN meats /\ ~meats[k].legacy
    IN  \A k \in DOMAIN meats :
            tipped(k) /\ (\A l \in DOMAIN meats : tipped(l) => l <= k)
                => meats[k].tip <= BaseFee

\* an ingredient with which nothing can be earned is left out
Search ==
    /\ pc = "search" /\ i <= Len(order)
    /\ \/ kept' = kept
       \/ /\ Evaluates(order[i])
          /\ \E stake \in Stakes :
                kept' = Append(kept, [variant |-> order[i].variant,
                                      meats |-> order[i].meats, stake |-> stake])
    /\ i' = i + 1
    /\ UNCHANGED <<order, j, env, ins, front, back, good, pc, result>>

SearchDone ==
    /\ pc = "search" /\ i > Len(order)
    /\ IF kept = <<>>
       THEN End("Err")      \* ZeroOptimal
       ELSE pc' = "frontrun_data" /\ UNCHANGED result
    /\ i' = 1
    /\ UNCHANGED <<order, j, env, built, good>>

-----------------------------------------------------------------------------
\* faulty variant: the amount of an ingredient that was passed over is that
\* of the one before
AmountOrLast(k) == IF k > Len(ins) THEN Len(ins) ELSE k

\* backrun_ins[index]
Amount(k) == k

Nothing(ingredient) == EncodeWeth(ingredient.stake) = 0

\* a stake that encodes to zero is passed over
FrontrunSkip ==
    /\ pc = "frontrun_data" /\ i <= Len(kept)
    /\ Nothing(kept[i])
    /\ i' = i + 1
    /\ UNCHANGED <<order, j, env, built, good, pc, result>>

AtStake == pc = "frontrun_data" /\ i <= Len(kept) /\ ~Nothing(kept[i])

\* faulty variant: the quote is asked for as it is
FrontrunPartWhole ==
    /\ AtStake
    /\ env' = OwnEnv(env)
    /\ \E quote \in Quotes :
          /\ Encodable(quote, kept[i].variant)
          /\ ins' = Append(ins, [of |-> i, amount |-> quote])
          /\ front' = Append(front, [of |-> i, first |-> i = 1, quote |-> quote,
                 asks |-> DecodeIntermediary(quote, kept[i].variant)])
    /\ i' = i + 1
    /\ UNCHANGED <<order, kept, j, back, good, pc, result>>

\* dust and amount out are queried; what is left of the amount out when it is
\* encoded is kept for the backrun, and encoded again for the payload
FrontrunPart ==
    /\ AtStake
    /\ env' = OwnEnv(env)
    /\ \E quote \in Quotes :
          LET variant == kept[i].variant
              amount == DecodeIntermediary(quote, variant)
          IN  /\ Encodable(quote, variant)
              /\ ins' = Append(ins, [of |-> i, amount |-> amount])
              /\ front' = Append(front, [of |-> i, first |-> i = 1, quote |-> quote,
                     asks |-> DecodeIntermediary(amount, variant)])
    /\ i' = i + 1
    /\ UNCHANGED <<order, kept, j, back, good, pc, result>>

\* an amount that no shift makes small enough: a power of two overflows
FrontrunPartPanics ==
    /\ AtStake
    /\ \E quote \in Quotes : ~Encodable(quote, kept[i].variant)
    /\ Return("overflow")

\* what backrun_ins has for the ingredient at hand
AtAmount == pc = "backrun_data" /\ i <= Len(kept) /\ Amount(i) \in DOMAIN ins
TheAmount == ins[Amount(i)].amount
Sellable ==
    /\ Encodable(TheAmount, kept[i].variant)
    /\ Encoded(TheAmount, kept[i].variant) # 0

\* a query fails: database, halt, revert, or no decodable balance or quote
QueryFails ==
    /\ \/ AtStake
       \/ AtAmount /\ Sellable
       \/ pc = "report"
    /\ Return("Err")

\* the frontrun is inspected for its access list, where an error is unwrapped,
\* and then committed; a V2 pool reverts a swap for nothing
Frontrun ==
    /\ pc = "frontrun_data" /\ i > Len(kept)
    /\ Accepted(OwnEnv(env))
    /\ \A k \in DOMAIN ins : ins[k].amount = 0 => kept[ins[k].of].variant = "v3"
    /\ env' = [OwnEnv(env) EXCEPT !.access = "frontrun"]
    /\ pc' = "meats" /\ i' = 1 /\ j' = 1
    /\ UNCHANGED <<order, built, good, result>>

\* reverted, halted, not safu, or a database error of the second run
FrontrunFails ==
    /\ pc = "frontrun_data" /\ i > Len(kept)
    /\ Accepted(OwnEnv(env))
    /\ Return("Err")

FrontrunPanics ==
    /\ pc = "frontrun_data" /\ i > Len(kept)
    /\ Return(IF Accepted(OwnEnv(env)) THEN "funds or database" ELSE "tip")

-----------------------------------------------------------------------------
AtMeat == pc = "meats" /\ i <= Len(kept) /\ j <= Len(kept[i].meats)
TheMeat == kept[i].meats[j]

\* the meat is committed and counts unless it is reverted
MeatRuns ==
    /\ AtMeat
    /\ env' = MeatEnv(env, TheMeat)
    /\ Accepted(env') /\ ~(env'.tight /\ env'.access # "empty")
    /\ good' \in {good, Append(good, TheMeat.hash)}
    /\ j' = j + 1
    /\ UNCHANGED <<order, built, i, pc, result>>

\* an error of one meat, of the database or of its own fields, ends it all
MeatFails == AtMeat /\ Return("Err")

MeatsOfNext ==
    /\ pc = "meats" /\ i <= Len(kept) /\ j > Len(kept[i].meats)
    /\ i' = i + 1 /\ j' = 1
    /\ UNCHANGED <<order, env, built, good, pc, result>>

InOrder(f, meats) ==
    /\ \A k \in DOMAIN meats : \E l \in DOMAIN meats : f[l] = k
    /\ \A k, l \in DOMAIN meats : k < l => meats[f[k]] <= meats[f[l]]

\* faulty variant: no sort
SortedNot(meats) == meats

\* the meats at an index that is in their order and leaves none out
Sorted(meats) ==
    LET index == CHOOSE f \in [DOMAIN meats -> DOMAIN meats] : InOrder(f, meats)
    IN  [k \in DOMAIN meats |-> meats[index[k]]]

\* Vec::dedup takes out what equals its neighbour
Dedup(meats) ==
    LET single[k \in 0..Len(meats)] ==
            IF k = 0 THEN <<>>
            ELSE IF k > 1 /\ meats[k] = meats[k - 1] THEN single[k - 1]
            ELSE Append(single[k - 1], meats[k])
    IN  single[Len(meats)]

MeatsEnd ==
    /\ pc = "meats" /\ i > Len(kept)
    /\ good' = Dedup(Sorted(good))
    /\ IF good = <<>>
       THEN End("Err")      \* NoMeat
       ELSE pc' = "backrun_data" /\ UNCHANGED result
    /\ i' = 1
    /\ UNCHANGED <<order, j, env, built>>

-----------------------------------------------------------------------------
\* less than was bought is sold; the amount out is queried in the environment
\* of the last meat
BackrunPart ==
    /\ AtAmount /\ Sellable
    /\ Accepted(env) /\ ~env.tight
    /\ back' = Append(back, [of |-> i, amountOf |-> ins[Amount(i)].of, first |-> i = 1,
           sells |-> EncodeIntermediary(TheAmount, kept[i].variant)])
    /\ i' = i + 1
    /\ UNCHANGED <<order, kept, j, env, ins, front, good, pc, result>>

\* backrun_ins[index] is not there; one less than zero; too large
BackrunPartPanics ==
    /\ pc = "backrun_data" /\ i <= Len(kept)
    /\ \/ ~AtAmount /\ Return("index")
       \/ /\ AtAmount /\ ~Sellable
          /\ Return(IF Encodable(TheAmount, kept[i].variant) THEN "zero" ELSE "overflow")

\* as the frontrun, but the tip of the last meat is still there
Backrun ==
    /\ pc = "backrun_data" /\ i > Len(kept)
    /\ Accepted(OwnEnv(env))
    /\ env' = [OwnEnv(env) EXCEPT !.access = "backrun"]
    /\ pc' = "report"
    /\ UNCHANGED <<order, i, j, built, good, result>>

BackrunFails ==
    /\ pc = "backrun_data" /\ i > Len(kept)
    /\ Accepted(OwnEnv(env))
    /\ Return("Err")

BackrunPanics ==
    /\ pc = "backrun_data" /\ i > Len(kept)
    /\ Return(IF Accepted(OwnEnv(env)) THEN "funds or database" ELSE "tip")

\* the balance is queried, the recipe made
Report ==
    /\ pc = "report"
    /\ Accepted(OwnEnv(env))
    /\ env' = OwnEnv(env)
    /\ End("Ok")
    /\ UNCHANGED <<order, i, j, built, good>>

Done == pc = "done" /\ UNCHANGED vars

Next ==
    \/ Search \/ SearchDone
    \/ FrontrunSkip \/ FrontrunPart \/ FrontrunPartPanics \/ QueryFails
    \/ Frontrun \/ FrontrunFails \/ FrontrunPanics
    \/ MeatRuns \/ MeatFails \/ MeatsOfNext \/ MeatsEnd
    \/ BackrunPart \/ BackrunPartPanics \/ Backrun \/ BackrunFails \/ BackrunPanics
    \/ Report \/ Done

Spec == Init /\ [][Next]_vars
-----------------------------------------------------------------------------
\* Of the panics of sanity_check, the one over a tip above the base fee that
\* the last meat leaves in the environment cannot happen: the search ran into
\* the same error with the ingredient of that meat, and left it out.
TipNeverPanics == result # "tip"

\* Once the backrun was simulated, it sells what the frontrun bought: each
\* ingredient once and in order, first part first, with its own amount, also
\* when the frontrun passed over a stake.
Matched ==
    (pc = "report" \/ result = "Ok") =>
        /\ Len(front) = Len(kept) /\ Len(back) = Len(kept)
        /\ \A k \in DOMAIN kept :
               /\ front[k].of = k /\ front[k].first = (k = 1)
               /\ back[k].of = k /\ back[k].first = (k = 1)
               /\ back[k].amountOf = k

\* Whatever the amounts are cut to, by whom and how often: no pool is asked for
\* more than it quoted, and of what it is asked for some is left when the rest
\* is sold, so that the contract's balance of the token never gets empty.
KeepsDust ==
    (pc = "report" \/ result = "Ok") =>
        \A k \in DOMAIN kept :
            back[k].sells < front[k].asks /\ front[k].asks <= front[k].quote

\* The bundle has a meat, none twice, and only meats of ingredients that were
\* kept, although meats that several ingredients share run several times.
BundleMeats ==
    result = "Ok" =>
        /\ good # <<>>
        /\ \A k, l \in DOMAIN good : k < l => good[k] # good[l]
        /\ \A k \in DOMAIN good : \E m \in DOMAIN kept :
               \E meat \in Range(kept[m].meats) : meat.hash = good[k]
-----------------------------------------------------------------------------
\* The inductive invariant of the proofs.
\* What the first n ingredients added to frontrun_data and backrun_ins: all of
\* them their own, or fewer amounts than there are ingredients.
Bought(n) ==
    \/ /\ Len(ins) = n /\ Len(front) = n
       /\ \A k \in 1..n :
              /\ ins[k].of = k /\ front[k].of = k /\ front[k].first = (k = 1)
              /\ front[k].asks = ins[k].amount /\ front[k].asks <= front[k].quote
    \/ Len(ins) < n

\* The first n ingredients added what they have to backrun_data.
Sold(n) ==
    /\ Len(back) = n /\ n <= Len(ins)
    /\ \A k \in 1..n :
           /\ back[k].of = k /\ back[k].amountOf = ins[k].of /\ back[k].first = (k = 1)
           /\ back[k].sells < ins[k].amount

Steps ==
    /\ pc = "search" => ins = <<>> /\ front = <<>> /\ back = <<>>
    /\ pc = "frontrun_data" => i <= Len(kept) + 1 /\ Bought(i - 1) /\ back = <<>>
    /\ pc = "meats" => Bought(Len(kept)) /\ back = <<>>
    /\ pc = "backrun_data" => i <= Len(kept) + 1 /\ Bought(Len(kept)) /\ Sold(i - 1)
    /\ pc = "report" \/ result = "Ok" => Bought(Len(kept)) /\ Sold(Len(kept))
    /\ pc # "done" => result = "running"

\* A tip above the base fee is followed, among the meats of the same
\* ingredient, by another tip.
Tips ==
    /\ \A k \in DOMAIN kept : Evaluates(kept[k])
    /\ pc \in {"search", "frontrun_data"} => env.tip = NoTip
    /\ pc = "meats" /\ env.tip > BaseFee =>
           /\ i <= Len(kept)
           /\ \E k \in DOMAIN kept[i].meats : k >= j /\ ~kept[i].meats[k].legacy
    /\ pc \in {"backrun_data", "report"} => env.tip <= BaseFee
    /\ result # "tip"

IInv == BuiltOK /\ Steps /\ Tips

\* The meats, with IInv: those of kept ingredients, and once they are sorted
\* in their order without repetition.
OfKept(h) ==
    \E m \in DOMAIN kept : \E meat \in Range(kept[m].meats) : meat.hash = h

Increasing(hashes) ==
    \A k, l \in DOMAIN hashes : k < l => hashes[k] < hashes[l]

Hashes ==
    /\ good \in Seq(Nat)
    /\ \A k \in DOMAIN good : OfKept(good[k])
    /\ (pc \in {"backrun_data", "report"} \/ result = "Ok") =>
           good # <<>> /\ Increasing(good)
=============================================================================
