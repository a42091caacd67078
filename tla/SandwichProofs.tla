--------------------------- MODULE SandwichProofs ---------------------------
(***************************************************************************)
(* Proofs about the making of a sandwich: for any number of ingredients    *)
(* and meats, any base fee, tips and quotes.  First what the encoding does *)
(* to an amount, then the inductive invariant IInv, and with it the order  *)
(* of the meats, from what the sort and dedup make of any hashes; last the *)
(* bundle around it, for any tasks, gas, revenue and share of the bribe.   *)
(***************************************************************************)
EXTENDS Bundle, SequenceFacts

-----------------------------------------------------------------------------
(* Amounts and how they are encoded                                        *)

\* Division by a positive number.
LEMMA Division ==
    ASSUME NEW a \in Nat, NEW p \in Nat \ {0}
    PROVE  /\ a \div p \in Nat
           /\ (a \div p) * p <= a
           /\ a < (a \div p) * p + p
  OBVIOUS

LEMMA DivisionExact ==
    ASSUME NEW m \in Nat, NEW p \in Nat \ {0}
    PROVE  (m * p) \div p = m
  OBVIOUS

\* A larger power is a multiple of a smaller one.
LEMMA PowMultiple ==
    ASSUME NEW s \in Shifts, NEW t \in Shifts, t <= s
    PROVE  \E m \in Nat : Pow[s] = m * Pow[t]
<1> DEFINE a == Pow[s]
           p == Pow[t]
<1>1. a \in Nat /\ p \in Nat \ {0} /\ a % p = 0
  BY EncodingAssumption
<1>2. a = (a \div p) * p /\ a \div p \in Nat
  <2> HIDE DEF a, p
  <2> QED BY <1>1
<1> QED BY <1>2

\* An amount that can be encoded has one shift, and its rest fits.
LEMMA ShiftFits ==
    ASSUME NEW v \in Variants, NEW a \in Nat, Encodable(a, v)
    PROVE  /\ ShiftOf(a, v) \in Shifts
           /\ IsShiftOf(ShiftOf(a, v), a, v)
<1> DEFINE T == {e \in Shifts : a \div Pow[e] <= Limit[v]}
<1>1. T \subseteq Nat /\ MaxShift \in T
  BY EncodingAssumption DEF Encodable, Shifts
<1>2. PICK e \in T : \A k \in T : e <= k
  <2> HIDE DEF T
  <2> QED BY <1>1, Least
<1>3. e \in Shifts /\ IsShiftOf(e, a, v)
  BY <1>2 DEF IsShiftOf
<1> QED BY <1>3 DEF ShiftOf

\* What is left of an amount is no more than the amount.
LEMMA CutsDown ==
    ASSUME NEW v \in Variants, NEW a \in Nat, Encodable(a, v)
    PROVE  /\ Encoded(a, v) \in Nat
           /\ DecodeIntermediary(a, v) \in Nat
           /\ DecodeIntermediary(a, v) <= a
<1> DEFINE p == Pow[ShiftOf(a, v)]
<1>1. p \in Nat \ {0}
  BY ShiftFits, EncodingAssumption
<1>2. /\ a \div p \in Nat
      /\ (a \div p) * p <= a
  <2> HIDE DEF p
  <2> QED BY <1>1, Division
<1>3. (a \div p) * p \in Nat
  <2> HIDE DEF p
  <2> QED BY <1>1, <1>2
<1> QED BY <1>2, <1>3 DEF Encoded, DecodeIntermediary

\* A number that fits, at any shift, is encoded without a loss: the payload may
\* encode again what has been decoded.
LEMMA EncodesExactly ==
    ASSUME NEW v \in Variants, NEW e \in Nat, e <= Limit[v], NEW s \in Shifts
    PROVE  /\ e * Pow[s] \in Nat
           /\ Encodable(e * Pow[s], v)
           /\ DecodeIntermediary(e * Pow[s], v) = e * Pow[s]
<1> DEFINE a == e * Pow[s]
<1>1. /\ Pow[s] \in Nat \ {0}
      /\ Limit[v] \in Nat /\ MaxShift \in Shifts
      /\ Pow[MaxShift] \in Nat \ {0} /\ s <= MaxShift
  <2>1. v \in DOMAIN Limit /\ s \in 0..MaxShift /\ MaxShift \in Nat
    BY EncodingAssumption DEF Shifts
  <2>2. Limit[v] \in Nat
    BY EncodingAssumption
  <2>3. MaxShift \in Shifts /\ s <= MaxShift
    BY <2>1 DEF Shifts
  <2> QED BY <2>1, <2>2, <2>3, EncodingAssumption
<1>2. a \in Nat
  BY <1>1
<1>3. a \div Pow[s] = e
  BY <1>1, DivisionExact
<1>4. Encodable(a, v)
  <2>1. PICK m \in Nat : Pow[MaxShift] = m * Pow[s]
    BY <1>1, PowMultiple
  <2>2. m >= 1
    BY <2>1, <1>1
  <2>3. a <= e * Pow[MaxShift]
    <3>1. Pow[s] <= m * Pow[s]
      BY <1>1, <2>2
    <3>2. \A x, y, z \in Nat : x <= y => z * x <= z * y
      OBVIOUS
    <3> QED BY <3>1, <3>2, <2>1, <1>1
  <2>4. \A x, y \in Nat, q \in Nat \ {0} : x <= y * q => x \div q <= y
    BY Division
  <2>5. a \div Pow[MaxShift] <= e
    <3> HIDE DEF a
    <3> QED BY <2>3, <2>4, <1>1, <1>2
  <2>6. a \div Pow[MaxShift] \in Nat
    BY <1>1, <1>2, Division
  <2> QED BY <2>5, <2>6, <1>1 DEF Encodable
<1>5. DecodeIntermediary(a, v) = a
  <2> DEFINE t == ShiftOf(a, v)
  <2>1. t \in Shifts /\ IsShiftOf(t, a, v)
    BY <1>2, <1>4, ShiftFits
  <2>2. t <= s
    BY <2>1, <1>3 DEF IsShiftOf
  <2>3. PICK m \in Nat : Pow[s] = m * Pow[t]
    BY <2>1, <2>2, PowMultiple
  <2>4. Pow[t] \in Nat \ {0}
    BY <2>1, EncodingAssumption
  <2>5. a = (e * m) * Pow[t] /\ e * m \in Nat
    BY <2>3, <2>4, <1>1
  <2>6. a \div Pow[t] = e * m
    <3> HIDE DEF a, t
    <3> QED BY <2>4, <2>5, DivisionExact
  <2> QED BY <2>5, <2>6 DEF DecodeIntermediary, Encoded
<1> QED BY <1>2, <1>4, <1>5

\* What the bot asks a pool for is the amount of the payload and at most what
\* the pool quoted.
THEOREM AsksAtMostTheQuote ==
    ASSUME NEW v \in Variants, NEW quote \in Nat, Encodable(quote, v)
    PROVE  LET asked == DecodeIntermediary(quote, v)
           IN  /\ asked \in Nat /\ asked <= quote
               /\ Encodable(asked, v)
               /\ DecodeIntermediary(asked, v) = asked
<1>1. ShiftOf(quote, v) \in Shifts /\ Encoded(quote, v) <= Limit[v]
  BY ShiftFits DEF IsShiftOf, Encoded
<1>2. Encoded(quote, v) \in Nat /\ DecodeIntermediary(quote, v) <= quote
  BY CutsDown
<1> QED BY <1>1, <1>2, EncodesExactly DEF DecodeIntermediary

\* What the backrun sells is exactly what its payload says, and less than what
\* was bought: some dust stays.
THEOREM SellsLess ==
    ASSUME NEW v \in Variants, NEW amount \in Nat, Encodable(amount, v),
           Encoded(amount, v) # 0
    PROVE  LET sold == EncodeIntermediary(amount, v)
           IN  /\ sold \in Nat /\ sold < amount
               /\ DecodeIntermediary(sold, v) = sold
<1> DEFINE s == ShiftOf(amount, v)
           e == Encoded(amount, v)
<1>1. s \in Shifts /\ e <= Limit[v] /\ Limit[v] \in Nat
  BY ShiftFits, EncodingAssumption DEF IsShiftOf, Encoded
<1>2. e \in Nat /\ e * Pow[s] <= amount
  BY CutsDown DEF DecodeIntermediary
<1>3. e - 1 \in Nat /\ e - 1 <= Limit[v]
  BY <1>1, <1>2
<1>4. /\ (e - 1) * Pow[s] \in Nat
      /\ DecodeIntermediary((e - 1) * Pow[s], v) = (e - 1) * Pow[s]
  BY <1>1, <1>3, EncodesExactly
<1>5. Pow[s] \in Nat \ {0}
  BY <1>1, EncodingAssumption
<1>6. (e - 1) * Pow[s] < e * Pow[s]
  <2> HIDE DEF e, s
  <2> QED BY <1>2, <1>3, <1>5
<1>7. (e - 1) * Pow[s] < amount
  <2>1. e * Pow[s] \in Nat
    BY <1>2, <1>5
  <2> HIDE DEF e, s
  <2> QED BY <1>2, <1>4, <1>6, <2>1
<1> QED BY <1>4, <1>7 DEF EncodeIntermediary

-----------------------------------------------------------------------------
(* The state                                                               *)

Kept == [variant : Variants, meats : Seq(Meat), stake : Stakes]

Raw == [variant : Variants, meats : Seq(Meat)]
Env == [price : Nat, tip : Nat \union {NoTip}, tight : BOOLEAN,
        access : {"empty", "frontrun", "backrun"}]

In == [of : Nat, amount : Nat]

\* The members of the sequences, one by one.
LEMMA OrderAt ==
    ASSUME BuiltOK, i <= Len(order)
    PROVE  order[i].variant \in Variants /\ order[i].meats \in Seq(Meat)
<1>1. order \in Seq(Raw)
  BY SandwichAssumption DEF BuiltOK, Raw
<1>2. i \in DOMAIN order
  BY <1>1 DEF BuiltOK
<1>3. order[i] \in Raw
  BY <1>1, <1>2
<1>. QED  BY <1>3 DEF Raw

LEMMA KeptAt ==
    ASSUME BuiltOK, i <= Len(kept)
    PROVE  /\ i \in DOMAIN kept /\ kept[i].meats \in Seq(Meat)
           /\ kept[i].variant \in Variants
<1>1. kept \in Seq(Kept)
  BY DEF BuiltOK, Kept
<1>2. i \in DOMAIN kept
  BY <1>1 DEF BuiltOK
<1>3. kept[i] \in Kept
  BY <1>1, <1>2
<1>. QED  BY <1>2, <1>3 DEF Kept

LEMMA OwnEnvType ==
    ASSUME BuiltOK
    PROVE  /\ OwnEnv(env) \in Env
           /\ OwnEnv(env).tip = env.tip
           /\ \A a \in {"frontrun", "backrun"} :
                  LET e == [OwnEnv(env) EXCEPT !.access = a]
                  IN  e \in Env /\ e.tip = env.tip
<1>1. env \in Env
  BY DEF BuiltOK, Env
<1>2. OwnEnv(env) \in Env /\ OwnEnv(env).tip = env.tip
  BY <1>1, SandwichAssumption DEF OwnEnv, Env
<1>. QED  BY <1>2 DEF Env

LEMMA InitInv ==
    ASSUME Init
    PROVE  IInv
<1>1. BuiltOK
  BY DEF Init, BuiltOK, Fresh, FrontPart, BackPart
<1>2. Steps /\ Tips
  BY DEF Init, Steps, Tips, Fresh
<1>. QED  BY <1>1, <1>2 DEF IInv

-----------------------------------------------------------------------------
(* The admission                                                           *)

LEMMA SearchInv ==
    ASSUME IInv, Search
    PROVE  IInv'
<1>. USE DEF IInv
<1>1. order[i].variant \in Variants /\ order[i].meats \in Seq(Meat)
  BY OrderAt DEF Search
<1>2. CASE kept' = kept
  <2>1. BuiltOK' BY <1>2 DEF Search, BuiltOK
  <2>2. Steps' BY <1>2 DEF Search, Steps
  <2>3. Tips' BY <1>2 DEF Search, Tips
  <2>. QED  BY <2>1, <2>2, <2>3
<1>3. ASSUME NEW stake \in Stakes, Evaluates(order[i]),
             kept' = Append(kept, [variant |-> order[i].variant,
                                   meats |-> order[i].meats, stake |-> stake])
      PROVE  IInv'
  <2>. DEFINE one == [variant |-> order[i].variant,
                      meats |-> order[i].meats, stake |-> stake]
  <2>1. one \in Kept
    BY <1>1 DEF Kept
  <2>2. Evaluates(one)
    BY <1>3 DEF Evaluates
  <2>3. BuiltOK'
    BY <1>3, <2>1 DEF Search, BuiltOK, Kept
  <2>4. Steps'
    BY <1>3 DEF Search, Steps
  <2>5. \A k \in DOMAIN kept' : kept'[k] = one \/ (k \in DOMAIN kept /\ kept'[k] = kept[k])
    BY <1>3, <2>1 DEF BuiltOK, Kept
  <2>6. \A k \in DOMAIN kept' : Evaluates(kept'[k])
    <3>. HIDE DEF one
    <3>. QED  BY <2>2, <2>5 DEF Tips
  <2>7. (\A k \in DOMAIN kept : Evaluates(kept[k]))'
    BY <2>6 DEF Evaluates
  <2>8. Tips'
    BY <1>3, <2>7 DEF Search, Tips
  <2>. QED  BY <2>3, <2>4, <2>8
<1>. QED  BY <1>2, <1>3 DEF Search

LEMMA SearchDoneInv ==
    ASSUME IInv, SearchDone
    PROVE  IInv'
<1>. USE DEF IInv
<1>1. BuiltOK' BY DEF SearchDone, BuiltOK, built, End
<1>2. Steps' BY DEF SearchDone, BuiltOK, Steps, Bought, Sold, built, End
<1>3. Tips' BY DEF SearchDone, Tips, Evaluates, built, End
<1>. QED  BY <1>1, <1>2, <1>3

\* A step that ends the task with an error or a panic other than the tip's.
LEMMA ReturnInv ==
    ASSUME IInv, NEW r \in {"Err"} \union (Panics \ {"tip"}), Return(r)
    PROVE  IInv'
<1>. USE DEF IInv
<1>1. BuiltOK' BY DEF Return, End, BuiltOK, built, Panics
<1>2. Steps' BY DEF Return, End, Steps, Panics
<1>3. Tips' BY DEF Return, End, Tips, Evaluates, built, Panics
<1>. QED  BY <1>1, <1>2, <1>3

-----------------------------------------------------------------------------
(* The frontrun                                                            *)

LEMMA FrontrunSkipInv ==
    ASSUME IInv, FrontrunSkip
    PROVE  IInv'
<1>. USE DEF IInv
<1>1. BuiltOK' BY DEF FrontrunSkip, BuiltOK, built
<1>2. Steps'
  <2>1. Len(ins) < i
    BY DEF FrontrunSkip, Steps, Bought, BuiltOK
  <2>2. (Bought(i - 1))'
    BY <2>1 DEF FrontrunSkip, Bought, built, BuiltOK
  <2>. QED  BY <2>2 DEF FrontrunSkip, Steps, built, BuiltOK
<1>3. Tips' BY DEF FrontrunSkip, Tips, Evaluates, built
<1>. QED  BY <1>1, <1>2, <1>3

LEMMA FrontrunPartInv ==
    ASSUME IInv, FrontrunPart
    PROVE  IInv'
<1>. USE DEF IInv
<1>0. /\ i \in DOMAIN kept /\ kept[i].variant \in Variants
      /\ i \in Nat \ {0}
  BY KeptAt DEF FrontrunPart, AtStake, BuiltOK
<1>1. PICK quote \in Nat, amount \in Nat :
          /\ amount <= quote
          /\ ins' = Append(ins, [of |-> i, amount |-> amount])
          /\ front' = Append(front, [of |-> i, first |-> i = 1,
                                    quote |-> quote, asks |-> amount])
  <2>1. PICK quote \in Quotes :
          LET variant == kept[i].variant
              amount == DecodeIntermediary(quote, variant)
          IN  /\ Encodable(quote, variant)
              /\ ins' = Append(ins, [of |-> i, amount |-> amount])
              /\ front' = Append(front, [of |-> i, first |-> i = 1, quote |-> quote,
                     asks |-> DecodeIntermediary(amount, variant)])
    BY DEF FrontrunPart
  <2>2. quote \in Nat
    BY SandwichAssumption
  <2>3. LET asked == DecodeIntermediary(quote, kept[i].variant)
        IN  /\ asked \in Nat /\ asked <= quote
            /\ DecodeIntermediary(asked, kept[i].variant) = asked
    BY <1>0, <2>1, <2>2, AsksAtMostTheQuote
  <2>. QED  BY <2>1, <2>2, <2>3
<1>. DEFINE part == [of |-> i, first |-> i = 1, quote |-> quote, asks |-> amount]
<1>2. part \in FrontPart
  BY <1>0, <1>1 DEF FrontPart
<1>3. [of |-> i, amount |-> amount] \in [of : Nat, amount : Nat]
  BY <1>0, <1>1
<1>4. BuiltOK'
  <2>1. env' \in Env
    BY OwnEnvType DEF FrontrunPart
  <2>2. ins' \in Seq([of : Nat, amount : Nat])
    BY <1>1, <1>3 DEF BuiltOK
  <2>3. front' \in Seq(FrontPart)
    BY <1>1, <1>2 DEF BuiltOK
  <2>. HIDE DEF part
  <2>. QED  BY <2>1, <2>2, <2>3 DEF FrontrunPart, AtStake, BuiltOK, Env
<1>5. (Bought(i - 1))'
  <2>1. i' - 1 = i /\ i \in Nat
    BY <1>0 DEF FrontrunPart
  <2>2. Bought(i - 1)
    BY DEF FrontrunPart, AtStake, Steps
  <2>3. CASE Len(ins) < i - 1
    BY <1>1, <2>1, <2>3 DEF Bought, BuiltOK
  <2>4. CASE /\ Len(ins) = i - 1 /\ Len(front) = i - 1
             /\ \A k \in 1..(i - 1) :
                    /\ ins[k].of = k /\ front[k].of = k /\ front[k].first = (k = 1)
                    /\ front[k].asks = ins[k].amount /\ front[k].asks <= front[k].quote
    <3>1. front' = Append(front, part)
      BY <1>1
    <3>2. Len(ins') = i /\ Len(front') = i
      BY <1>1, <2>4, <3>1 DEF BuiltOK
    <3>3. ASSUME NEW k \in 1..i
          PROVE  /\ ins'[k].of = k /\ front'[k].of = k /\ front'[k].first = (k = 1)
                 /\ front'[k].asks = ins'[k].amount /\ front'[k].asks <= front'[k].quote
      <4>1. CASE k = i
        BY <1>1, <2>4, <3>1, <4>1 DEF BuiltOK
      <4>2. CASE k \in 1..(i - 1)
        <5>1. ins'[k] = ins[k] /\ front'[k] = front[k]
          BY <1>1, <2>4, <3>1, <4>2 DEF BuiltOK
        <5>. QED  BY <2>4, <4>2, <5>1
      <4>. QED  BY <4>1, <4>2, <2>1
    <3>. HIDE DEF part
    <3>. QED  BY <2>1, <3>2, <3>3 DEF Bought
  <2>. QED  BY <2>2, <2>3, <2>4 DEF Bought
<1>6. Steps'
  BY <1>5 DEF FrontrunPart, AtStake, Steps, BuiltOK
<1>7. Tips'
  BY DEF FrontrunPart, AtStake, Tips, Evaluates, OwnEnv, BuiltOK
<1>. QED  BY <1>4, <1>6, <1>7

\* No tip above the base fee: the searcher's own transactions are accepted.
LEMMA OwnAccepted ==
    ASSUME BuiltOK, env.tip <= BaseFee
    PROVE  Accepted(OwnEnv(env))
BY SandwichAssumption DEF BuiltOK, Accepted, OwnEnv

LEMMA NoTipLow == NoTip <= BaseFee
BY SandwichAssumption DEF NoTip

LEMMA FrontrunInv ==
    ASSUME IInv, Frontrun
    PROVE  IInv'
<1>. USE DEF IInv
<1>1. BuiltOK'
  <2>1. env' \in Env
    BY OwnEnvType DEF Frontrun
  <2>. QED  BY <2>1 DEF Frontrun, BuiltOK, Env, built
<1>2. Bought(Len(kept))'
  <2>1. i - 1 = Len(kept)
    BY DEF Frontrun, Steps, BuiltOK
  <2>2. Bought(Len(kept))
    BY <2>1 DEF Frontrun, Steps
  <2>. QED  BY <2>2 DEF Frontrun, Bought, built
<1>3. Steps'
  BY <1>2 DEF Frontrun, Steps, built
<1>4. env'.tip = NoTip
  BY OwnEnvType DEF Frontrun, Tips
<1>5. ~(env'.tip > BaseFee)
  BY <1>4, NoTipLow, SandwichAssumption DEF NoTip
<1>6. Tips'
  BY <1>5 DEF Frontrun, Tips, Evaluates, built
<1>. QED  BY <1>1, <1>3, <1>6

-----------------------------------------------------------------------------
(* The meats                                                               *)

LEMMA MeatRunsInv ==
    ASSUME IInv, MeatRuns
    PROVE  IInv'
<1>. USE DEF IInv
<1>. DEFINE meats == kept[i].meats
<1>1. /\ meats \in Seq(Meat) /\ i \in DOMAIN kept
      /\ j \in DOMAIN meats /\ meats[j] \in Meat
  <2>1. i \in DOMAIN kept /\ meats \in Seq(Meat)
    BY KeptAt DEF MeatRuns, AtMeat
  <2>2. j \in DOMAIN meats
    BY <2>1 DEF MeatRuns, AtMeat, BuiltOK
  <2>. HIDE DEF meats
  <2>. QED  BY <2>1, <2>2
<1>2. env' \in [price : Nat, tip : Nat \union {NoTip}, tight : BOOLEAN,
                access : {"empty", "frontrun", "backrun"}]
  BY <1>1 DEF MeatRuns, MeatEnv, TheMeat, BuiltOK, Meat
<1>3. BuiltOK'
  BY <1>2 DEF MeatRuns, BuiltOK, built
<1>4. Steps'
  BY DEF MeatRuns, AtMeat, Steps, Bought, built
<1>5. ASSUME env'.tip > BaseFee
      PROVE  \E k \in DOMAIN meats : k >= j + 1 /\ ~meats[k].legacy
  <2>1. CASE meats[j].legacy
    <3>1. env'.tip = env.tip
      BY <2>1, <1>1 DEF MeatRuns, MeatEnv, TheMeat, BuiltOK
    <3>2. PICK k \in DOMAIN meats : k >= j /\ ~meats[k].legacy
      BY <1>5, <3>1 DEF Tips, MeatRuns, AtMeat
    <3>3. k >= j + 1
      BY <3>2, <2>1, <1>1
    <3>. QED  BY <3>2, <3>3
  <2>2. CASE ~meats[j].legacy
    <3>1. env'.tip = meats[j].tip
      BY <2>2, <1>1 DEF MeatRuns, MeatEnv, TheMeat, BuiltOK
    <3>2. ~(meats[j].tip <= BaseFee)
      BY <1>1, <1>5, <3>1, SandwichAssumption DEF Meat
    <3>3. PICK k \in DOMAIN meats : ~meats[k].legacy /\ ~(k <= j)
      BY <1>1, <2>2, <3>2 DEF Tips, Evaluates
    <3>4. k >= j + 1
      BY <3>3, <1>1
    <3>. QED  BY <3>3, <3>4
  <2>. QED  BY <2>1, <2>2
<1>6. Tips'
  BY <1>5 DEF MeatRuns, AtMeat, Tips, Evaluates, built
<1>. QED  BY <1>3, <1>4, <1>6

LEMMA MeatsOfNextInv ==
    ASSUME IInv, MeatsOfNext
    PROVE  IInv'
<1>. USE DEF IInv
<1>1. kept[i].meats \in Seq(Meat)
  BY KeptAt DEF MeatsOfNext
<1>2. BuiltOK' BY DEF MeatsOfNext, BuiltOK, built
<1>3. Steps' BY DEF MeatsOfNext, Steps, Bought, built
<1>4. ~(env.tip > BaseFee)
  BY <1>1 DEF MeatsOfNext, Tips, BuiltOK
<1>5. Tips' BY <1>4 DEF MeatsOfNext, Tips, Evaluates, built
<1>. QED  BY <1>2, <1>3, <1>5

LEMMA MeatsEndInv ==
    ASSUME IInv, MeatsEnd
    PROVE  IInv'
<1>. USE DEF IInv
<1>1. BuiltOK' BY DEF MeatsEnd, BuiltOK, built, End
<1>2. Sold(0)
  BY DEF MeatsEnd, Steps, Sold, BuiltOK
<1>3. Steps'
  BY <1>2 DEF MeatsEnd, Steps, Bought, Sold, BuiltOK, built, End
<1>4. env.tip <= BaseFee
  BY SandwichAssumption DEF MeatsEnd, Tips, BuiltOK, NoTip
<1>5. Tips'
  BY <1>4 DEF MeatsEnd, Tips, Evaluates, built, End
<1>. QED  BY <1>1, <1>3, <1>5

-----------------------------------------------------------------------------
(* The backrun                                                             *)

LEMMA BackrunPartInv ==
    ASSUME IInv, BackrunPart
    PROVE  IInv'
<1>. USE DEF IInv
<1>. DEFINE sells == EncodeIntermediary(TheAmount, kept[i].variant)
            part == [of |-> i, amountOf |-> ins[i].of, first |-> i = 1, sells |-> sells]
<1>1. i \in DOMAIN ins /\ i \in Nat /\ back' = Append(back, part)
  BY DEF BackrunPart, AtAmount, Amount, BuiltOK
<1>2. ins[i] \in In
  <2>1. i \in DOMAIN ins /\ ins \in Seq(In)
    BY <1>1 DEF BuiltOK, In
  <2>. HIDE DEF IInv, part
  <2>. QED  BY <2>1
<1>3. sells \in Nat /\ sells < ins[i].amount
  <2>1. TheAmount = ins[i].amount /\ TheAmount \in Nat
    BY <1>2 DEF TheAmount, Amount, In
  <2>2. kept[i].variant \in Variants
    BY KeptAt DEF BackrunPart, AtAmount
  <2>3. Encodable(TheAmount, kept[i].variant) /\ Encoded(TheAmount, kept[i].variant) # 0
    BY DEF BackrunPart, Sellable
  <2>4. sells \in Nat /\ sells < TheAmount
    <3>. HIDE DEF IInv
    <3>. QED  BY <2>1, <2>2, <2>3, SellsLess
  <2>. QED  BY <2>1, <2>4
<1>. HIDE DEF sells
<1>4. part \in BackPart
  BY <1>1, <1>2, <1>3 DEF BackPart, In
<1>5. BuiltOK'
  <2>1. back \in Seq(BackPart)
    BY DEF BuiltOK
  <2>2. back' \in Seq(BackPart)
    <3>. HIDE DEF IInv, part
    <3>. QED  BY <1>1, <1>4, <2>1
  <2>3. i' \in Nat \ {0}
    <3>1. i \in Nat /\ i' = i + 1
      BY <1>1 DEF BackrunPart
    <3>. HIDE DEF IInv, part
    <3>. QED  BY <3>1
  <2>4. UNCHANGED <<order, kept, j, env, ins, front, good, pc, result>>
    BY DEF BackrunPart
  <2>. HIDE DEF part
  <2>. QED  BY <2>2, <2>3, <2>4 DEF BuiltOK
<1>6. Sold(i - 1)
  BY DEF BackrunPart, AtAmount, Steps
<1>7. Len(back') = i /\ i <= Len(ins)
  BY <1>1, <1>6 DEF Sold, BuiltOK
<1>8. ASSUME NEW k \in 1..i
      PROVE  /\ back'[k].of = k /\ back'[k].amountOf = ins[k].of
             /\ back'[k].first = (k = 1) /\ back'[k].sells < ins[k].amount
  <2>1. CASE k = i
    <3>1. back'[k] = part
      BY <1>1, <1>6, <2>1 DEF Sold, BuiltOK
    <3>. QED  BY <1>3, <2>1, <3>1
  <2>2. CASE k \in 1..(i - 1)
    <3>1. back'[k] = back[k]
      BY <1>1, <1>6, <2>2 DEF Sold, BuiltOK
    <3>. QED  BY <1>6, <2>2, <3>1 DEF Sold
  <2>3. k = i \/ k \in 1..(i - 1)
    <3>1. i \in Nat
      BY DEF BuiltOK
    <3>. HIDE DEF IInv, part
    <3>. QED  BY <3>1
  <2>. QED  BY <2>1, <2>2, <2>3
<1>9. Sold(i - 1)'
  <2>1. i' - 1 = i /\ ins' = ins
    BY <1>1 DEF BackrunPart
  <2>. HIDE DEF part
  <2>. QED  BY <1>7, <1>8, <2>1 DEF Sold
<1>10. Bought(Len(kept))'
  BY DEF BackrunPart, AtAmount, Steps, Bought
<1>11. Steps'
  BY <1>9, <1>10 DEF BackrunPart, AtAmount, Steps, BuiltOK
<1>12. Tips'
  BY DEF BackrunPart, AtAmount, Tips, Evaluates
<1>. QED  BY <1>5, <1>11, <1>12

LEMMA BackrunInv ==
    ASSUME IInv, Backrun
    PROVE  IInv'
<1>. USE DEF IInv
<1>1. BuiltOK'
  <2>1. env' \in Env
    BY OwnEnvType DEF Backrun
  <2>. QED  BY <2>1 DEF Backrun, BuiltOK, Env, built
<1>2. i - 1 = Len(kept)
  BY DEF Backrun, Steps, BuiltOK
<1>3. Bought(Len(kept)) /\ Sold(Len(kept))
  BY <1>2 DEF Backrun, Steps
<1>4. Steps'
  BY <1>3 DEF Backrun, Steps, Bought, Sold, built
<1>5. env'.tip <= BaseFee
  BY OwnEnvType DEF Backrun, Tips
<1>6. Tips'
  BY <1>5 DEF Backrun, Tips, Evaluates, built
<1>. QED  BY <1>1, <1>4, <1>6

LEMMA ReportInv ==
    ASSUME IInv, Report
    PROVE  IInv'
<1>. USE DEF IInv
<1>1. BuiltOK'
  BY SandwichAssumption DEF Report, BuiltOK, OwnEnv, built, End
<1>2. Steps'
  BY DEF Report, Steps, Bought, Sold, built, End
<1>3. Tips'
  BY DEF Report, Tips, Evaluates, built, End
<1>. QED  BY <1>1, <1>2, <1>3

\* The failures: the tip is the base fee's at most where the searcher's own
\* transactions run, so that none of them is a panic over it.
LEMMA FailuresInv ==
    ASSUME IInv,
           \/ QueryFails \/ FrontrunPartPanics
           \/ FrontrunFails \/ FrontrunPanics \/ MeatFails
           \/ BackrunPartPanics \/ BackrunFails \/ BackrunPanics
    PROVE  IInv'
<1>. DEFINE harmless == {"Err"} \union (Panics \ {"tip"})
<1>1. CASE QueryFails \/ FrontrunFails \/ MeatFails \/ BackrunFails
  <2>1. Return("Err")
    BY <1>1 DEF QueryFails, FrontrunFails, MeatFails, BackrunFails
  <2>. QED  BY <2>1, ReturnInv
<1>2. CASE FrontrunPartPanics \/ BackrunPartPanics
  <2>1. \E r \in harmless : Return(r)
    BY <1>2 DEF FrontrunPartPanics, BackrunPartPanics, Panics
  <2>. QED  BY <2>1, ReturnInv
<1>3. CASE FrontrunPanics \/ BackrunPanics
  <2>1. env.tip <= BaseFee /\ BuiltOK
    BY <1>3, NoTipLow DEF IInv, Tips, FrontrunPanics, BackrunPanics
  <2>2. Return("funds or database")
    BY <1>3, <2>1, OwnAccepted DEF FrontrunPanics, BackrunPanics
  <2>. QED  BY <2>2, ReturnInv DEF Panics
<1>. QED  BY <1>1, <1>2, <1>3

-----------------------------------------------------------------------------
LEMMA StutterInv ==
    ASSUME IInv, UNCHANGED vars
    PROVE  IInv'
<1>. USE DEF IInv
<1>1. BuiltOK' BY DEF vars, BuiltOK
<1>2. Steps' BY DEF vars, Steps, Bought, Sold
<1>3. Tips' BY DEF vars, Tips, Evaluates
<1>. QED  BY <1>1, <1>2, <1>3

LEMMA NextInv ==
    ASSUME IInv, [Next]_vars
    PROVE  IInv'
BY SearchInv, SearchDoneInv, FrontrunSkipInv, FrontrunPartInv, FrontrunInv,
   MeatRunsInv, MeatsOfNextInv, MeatsEndInv, BackrunPartInv, BackrunInv,
   ReportInv, FailuresInv, StutterInv DEF Next, Done

\* The invariant of the proofs holds of every sandwich that is made.
THEOREM Invariance == Spec => []IInv
BY InitInv, NextInv, PTL DEF Spec

\* The tip that a victim leaves in the environment never ends the simulation
\* in a panic, whatever the victims: the search left such a victim out.
THEOREM TipNeverPanicsHolds == Spec => []TipNeverPanics
<1>1. IInv => TipNeverPanics
  BY DEF IInv, Tips, TipNeverPanics
<1>. QED  BY <1>1, Invariance, PTL

\* Both transactions of a simulated sandwich have a part of each ingredient.
LEMMA Whole ==
    ASSUME IInv, pc = "report" \/ result = "Ok"
    PROVE  /\ Len(front) = Len(kept) /\ Len(back) = Len(kept)
           /\ \A k \in DOMAIN kept :
                  /\ front[k].of = k /\ front[k].first = (k = 1)
                  /\ back[k].of = k /\ back[k].first = (k = 1) /\ back[k].amountOf = k
                  /\ back[k].sells < front[k].asks /\ front[k].asks <= front[k].quote
<1>1. Bought(Len(kept)) /\ Sold(Len(kept)) /\ BuiltOK
  BY DEF IInv, Steps
<1>2. Len(ins) >= Len(kept) /\ Len(kept) \in Nat /\ Len(ins) \in Nat
      /\ DOMAIN kept = 1..Len(kept)
  BY <1>1 DEF Sold, BuiltOK
<1>3. /\ Len(front) = Len(kept)
      /\ \A k \in 1..Len(kept) :
             /\ ins[k].of = k /\ front[k].of = k /\ front[k].first = (k = 1)
             /\ front[k].asks = ins[k].amount /\ front[k].asks <= front[k].quote
  BY <1>1, <1>2 DEF Bought
<1>4. /\ Len(back) = Len(kept)
      /\ \A k \in 1..Len(kept) :
             /\ back[k].of = k /\ back[k].amountOf = ins[k].of /\ back[k].first = (k = 1)
             /\ back[k].sells < ins[k].amount
  BY <1>1 DEF Sold
<1>. QED  BY <1>2, <1>3, <1>4

\* What the backrun sells is what the frontrun bought, ingredient by
\* ingredient, although the frontrun passes over a stake that encodes to zero
\* and the backrun does not.
THEOREM MatchedHolds == Spec => []Matched
<1>1. IInv => Matched
  BY Whole DEF Matched
<1>. QED  BY <1>1, Invariance, PTL

\* No pool is asked for more than it quoted, and some of what it gives is left
\* when the rest is sold, however the amounts are cut.
THEOREM KeepsDustHolds == Spec => []KeepsDust
<1>1. IInv => KeepsDust
  BY Whole DEF KeepsDust
<1>. QED  BY <1>1, Invariance, PTL

-----------------------------------------------------------------------------
(* The meats                                                               *)

\* A sequence that is not empty has a least element.
LEMMA LeastElement ==
    ASSUME NEW n \in Nat \ {0}, NEW s \in [1..n -> Nat]
    PROVE  \E m \in 1..n : \A k \in 1..n : s[m] <= s[k]
<1>. DEFINE T == {s[k] : k \in 1..n}
<1>1. T \in SUBSET Nat /\ s[1] \in T
  OBVIOUS
<1>2. PICK e \in T : \A k \in T : e <= k
  <2>. HIDE DEF T
  <2>. QED  BY <1>1, Least
<1>3. PICK m \in 1..n : s[m] = e
  BY <1>2
<1>. QED  BY <1>2, <1>3

\* There is an index that sorts: the least element first, then that of the rest.
LEMMA SortExists ==
    ASSUME NEW n \in Nat
    PROVE  \A s \in [1..n -> Nat] : \E f \in [1..n -> 1..n] : InOrder(f, s)
<1>. DEFINE Has(l) == \A s \in [1..l -> Nat] : \E f \in [1..l -> 1..l] : InOrder(f, s)
            T == {l \in 0..n : Has(l)}
<1>1. Has(0)
  <2>1. ASSUME NEW s \in [1..0 -> Nat]
        PROVE  \E f \in [1..0 -> 1..0] : InOrder(f, s)
    <3>. DEFINE f == [k \in 1..0 |-> k]
    <3>1. f \in [1..0 -> 1..0] /\ DOMAIN s = {}
      OBVIOUS
    <3>2. InOrder(f, s)
      BY <3>1 DEF InOrder
    <3>. QED  BY <3>1, <3>2
  <2>. QED  BY <2>1
<1>2. ASSUME NEW l \in 1..n, Has(l - 1)
      PROVE  Has(l)
  <2>. SUFFICES ASSUME NEW s \in [1..l -> Nat]
                PROVE  \E f \in [1..l -> 1..l] : InOrder(f, s)
    OBVIOUS
  <2>1. PICK m \in 1..l : \A k \in 1..l : s[m] <= s[k]
    <3>1. l \in Nat \ {0}
      OBVIOUS
    <3>. QED  BY <3>1, LeastElement
  <2>. DEFINE g == [k \in 1..(l - 1) |-> IF k < m THEN k ELSE k + 1]
              t == [k \in 1..(l - 1) |-> s[g[k]]]
  <2>2. /\ g \in [1..(l - 1) -> 1..l] /\ t \in [1..(l - 1) -> Nat]
        /\ \A k \in 1..(l - 1) : t[k] = s[g[k]]
        /\ \A k \in (1..l) \ {m} : \E o \in 1..(l - 1) : g[o] = k
    <3>1. g \in [1..(l - 1) -> 1..l]
      OBVIOUS
    <3>2. ASSUME NEW k \in (1..l) \ {m}
          PROVE  \E o \in 1..(l - 1) : g[o] = k
      <4>1. CASE k < m
        <5>1. k \in 1..(l - 1) /\ g[k] = k
          BY <4>1
        <5>. QED  BY <5>1
      <4>2. CASE ~(k < m)
        <5>1. k - 1 \in 1..(l - 1) /\ ~(k - 1 < m)
          BY <4>2
        <5>2. g[k - 1] = k
          BY <5>1
        <5>. QED  BY <5>1, <5>2
      <4>. QED  BY <4>1, <4>2
    <3>3. \A k \in 1..(l - 1) : g[k] \in 1..l /\ s[g[k]] \in Nat
      BY <3>1
    <3>. HIDE DEF g
    <3>. QED  BY <3>1, <3>2, <3>3
  <2>. HIDE DEF g, t
  <2>3. PICK f \in [1..(l - 1) -> 1..(l - 1)] : InOrder(f, t)
    BY <1>2, <2>2
  <2>4. /\ \A k \in 1..(l - 1) : \E o \in 1..(l - 1) : f[o] = k
        /\ \A k, o \in 1..(l - 1) : k < o => t[f[k]] <= t[f[o]]
    BY <2>2, <2>3 DEF InOrder
  <2>. DEFINE h == [k \in 1..l |-> IF k = 1 THEN m ELSE g[f[k - 1]]]
  <2>5. h[1] = m /\ \A k \in 2..l : h[k] = g[f[k - 1]] /\ k - 1 \in 1..(l - 1)
    OBVIOUS
  <2>6. h \in [1..l -> 1..l]
    <3>1. ASSUME NEW k \in 1..l
          PROVE  h[k] \in 1..l
      <4>1. CASE k = 1
        BY <2>5, <4>1
      <4>2. CASE k # 1
        <5>1. k \in 2..l
          BY <4>2
        <5>2. h[k] = g[f[k - 1]] /\ f[k - 1] \in 1..(l - 1)
          BY <2>5, <5>1
        <5>. HIDE DEF h
        <5>. QED  BY <2>2, <5>2
      <4>. QED  BY <4>1, <4>2
    <3>2. h = [k \in 1..l |-> h[k]]
      OBVIOUS
    <3>. HIDE DEF h
    <3>. QED  BY <3>1, <3>2
  <2>. HIDE DEF h
  <2>7. ASSUME NEW k \in 1..l
        PROVE  \E o \in 1..l : h[o] = k
    <3>1. CASE k = m
      BY <2>5, <3>1
    <3>2. CASE k # m
      <4>1. PICK o \in 1..(l - 1) : g[o] = k
        BY <2>2, <3>2
      <4>2. PICK q \in 1..(l - 1) : f[q] = o
        BY <2>4
      <4>3. q + 1 \in 2..l /\ (q + 1) - 1 = q /\ q + 1 \in 1..l
        OBVIOUS
      <4>4. h[q + 1] = k
        BY <2>5, <4>1, <4>2, <4>3
      <4>. QED  BY <4>3, <4>4
    <3>. QED  BY <3>1, <3>2
  <2>8. ASSUME NEW k \in 1..l, NEW o \in 1..l, k < o
        PROVE  s[h[k]] <= s[h[o]]
    <3>1. CASE k = 1
      BY <2>1, <2>5, <2>6, <3>1
    <3>2. CASE k # 1
      <4>1. k \in 2..l /\ o \in 2..l
        BY <2>8, <3>2
      <4>2. k - 1 \in 1..(l - 1) /\ o - 1 \in 1..(l - 1) /\ k - 1 < o - 1
        BY <2>8, <4>1
      <4>3. t[f[k - 1]] <= t[f[o - 1]]
        BY <2>4, <4>2
      <4>4. /\ t[f[k - 1]] = s[g[f[k - 1]]] /\ t[f[o - 1]] = s[g[f[o - 1]]]
            /\ h[k] = g[f[k - 1]] /\ h[o] = g[f[o - 1]]
        BY <2>2, <2>5, <4>1, <4>2
      <4>. QED  BY <4>3, <4>4
    <3>. QED  BY <3>1, <3>2
  <2>9. InOrder(h, s)
    BY <2>7, <2>8 DEF InOrder
  <2>. QED  BY <2>6, <2>9
<1>. HIDE DEF Has
<1>3. \A l \in 0..n : l \in T
  <2>1. 0 \in T /\ \A l \in 1..n : l - 1 \in T => l \in T
    BY <1>1, <1>2
  <2>2. 0 + 1 = 1 /\ 0 \in Nat /\ 0 <= n
    OBVIOUS
  <2>. HIDE DEF T
  <2>. QED  BY <2>1, <2>2, UpTo
<1>4. Has(n)
  BY <1>3
<1>. QED  BY <1>4 DEF Has

\* Hashes in their order, some perhaps twice.
Ascending(hashes) ==
    \A k, l \in DOMAIN hashes : k < l => hashes[k] <= hashes[l]

\* The sort brings hashes in their order and adds none.
LEMMA SortedSorts ==
    ASSUME NEW s \in Seq(Nat)
    PROVE  /\ Sorted(s) \in Seq(Nat) /\ Len(Sorted(s)) = Len(s)
           /\ Ascending(Sorted(s))
           /\ \A k \in DOMAIN Sorted(s) : \E l \in DOMAIN s : Sorted(s)[k] = s[l]
<1>. DEFINE n == Len(s)
            index == CHOOSE f \in [DOMAIN s -> DOMAIN s] : InOrder(f, s)
            sorted == [k \in DOMAIN s |-> s[index[k]]]
<1>1. n \in Nat /\ DOMAIN s = 1..n /\ s \in [1..n -> Nat]
  OBVIOUS
<1>2. index \in [DOMAIN s -> DOMAIN s] /\ InOrder(index, s)
  <2>1. \E f \in [DOMAIN s -> DOMAIN s] : InOrder(f, s)
    <3>. HIDE DEF n
    <3>. QED  BY <1>1, SortExists
  <2>. QED  BY <2>1
<1>. HIDE DEF n, index
<1>3. \A k \in 1..n : index[k] \in 1..n /\ sorted[k] = s[index[k]] /\ s[index[k]] \in Nat
  BY <1>1, <1>2
<1>4. DOMAIN sorted = 1..n /\ sorted = [k \in 1..n |-> s[index[k]]]
  BY <1>1
<1>5. sorted \in Seq(Nat) /\ Len(sorted) = n
  <2>1. sorted \in [1..n -> Nat]
    BY <1>3, <1>4
  <2>2. \A f \in [1..n -> Nat] : f \in Seq(Nat) /\ Len(f) = n
    BY <1>1
  <2>. HIDE DEF sorted
  <2>. QED  BY <2>1, <2>2
<1>. HIDE DEF sorted
<1>6. Ascending(sorted)
  BY <1>1, <1>2, <1>3, <1>4 DEF Ascending, InOrder
<1>7. Sorted(s) = sorted
  BY DEF Sorted, sorted, index
<1>. QED  BY <1>1, <1>3, <1>4, <1>5, <1>6, <1>7 DEF n

LEMMA AppendFacts ==
    ASSUME NEW s \in Seq(Nat), NEW x \in Nat
    PROVE  /\ Append(s, x) \in Seq(Nat) /\ Len(Append(s, x)) = Len(s) + 1
           /\ DOMAIN s = 1..Len(s) /\ DOMAIN Append(s, x) = 1..(Len(s) + 1)
           /\ \A k \in 1..Len(s) : Append(s, x)[k] = s[k]
           /\ Append(s, x)[Len(s) + 1] = x
OBVIOUS

\* Of hashes in their order dedup leaves each once.
LEMMA DedupLeavesOne ==
    ASSUME NEW s \in Seq(Nat), Ascending(s)
    PROVE  /\ Dedup(s) \in Seq(Nat) /\ Increasing(Dedup(s))
           /\ \A k \in DOMAIN Dedup(s) : \E l \in DOMAIN s : Dedup(s)[k] = s[l]
           /\ s # <<>> => Dedup(s) # <<>>
<1>. DEFINE n == Len(s)
            again(k) == k > 1 /\ s[k] = s[k - 1]
            step == [k \in 1..n |-> [d \in Seq(Nat) |-> IF again(k) THEN d ELSE Append(d, s[k])]]
            next(g) == [k \in 0..n |-> IF k = 0 THEN <<>>
                                       ELSE IF k > 1 /\ s[k] = s[k - 1] THEN g[k - 1]
                                       ELSE Append(g[k - 1], s[k])]
            single == CHOOSE g : g = next(g)
<1>1. n \in Nat /\ DOMAIN s = 1..n /\ \A k \in 1..n : s[k] \in Nat
  OBVIOUS
<1>2. single = next(single)
  <2>1. step \in [1..n -> [Seq(Nat) -> Seq(Nat)]]
    <3>1. ASSUME NEW k \in 1..n, NEW d \in Seq(Nat)
          PROVE  (IF again(k) THEN d ELSE Append(d, s[k])) \in Seq(Nat)
      <4>1. s[k] \in Nat
        BY <1>1
      <4>. QED  BY <4>1
    <3>. HIDE DEF again
    <3>. QED  BY <3>1
  <2>2. <<>> \in Seq(Nat)
    OBVIOUS
  <2>3. PICK f \in [0..n -> Seq(Nat)] : IsRecursion(f, <<>>, step, n)
    <3>. HIDE DEF n, step
    <3>. QED  BY <1>1, <2>1, <2>2, RecursionExists
  <2>4. ASSUME NEW k \in 1..n
        PROVE  f[k] = IF again(k) THEN f[k - 1] ELSE Append(f[k - 1], s[k])
    <3>1. f[k - 1] \in Seq(Nat)
      <4>1. k - 1 \in 0..n
        BY <1>1
      <4>. HIDE DEF n
      <4>. QED  BY <4>1
    <3>2. f[k] = step[k][f[k - 1]]
      <4>. HIDE DEF n, step
      <4>. QED  BY <2>3 DEF IsRecursion
    <3>. HIDE DEF again
    <3>. QED  BY <3>1, <3>2
  <2>5. f[0] = <<>>
    BY <2>3 DEF IsRecursion
  <2>6. \A k \in 0..n : f[k] = IF k = 0 THEN <<>>
                               ELSE IF k > 1 /\ s[k] = s[k - 1] THEN f[k - 1]
                               ELSE Append(f[k - 1], s[k])
    <3>1. \A k \in 0..n : k = 0 \/ k \in 1..n
      BY <1>1
    <3>. HIDE DEF n
    <3>. QED  BY <2>4, <2>5, <3>1
  <2>7. f = next(f)
    <3>. HIDE DEF n
    <3>. QED  BY <2>6
  <2>. HIDE DEF next
  <2>. QED  BY <2>7
<1>3. Dedup(s) = single[n]
  BY DEF Dedup
<1>. HIDE DEF single
<1>4. /\ single[0] = <<>>
      /\ \A k \in 1..n : single[k] = IF again(k) THEN single[k - 1]
                                     ELSE Append(single[k - 1], s[k])
  <2>. DEFINE f == next(single)
  <2>1. /\ f[0] = <<>>
        /\ \A k \in 1..n : f[k] = IF again(k) THEN single[k - 1]
                                  ELSE Append(single[k - 1], s[k])
    <3>1. 0 \in 0..n /\ \A k \in 1..n : k \in 0..n /\ k # 0
      BY <1>1
    <3>. HIDE DEF n
    <3>. QED  BY <3>1
  <2>2. single = f
    BY <1>2
  <2>. HIDE DEF f, n, again
  <2>. QED  BY <2>1, <2>2
<1>. HIDE DEF n, next, step
\* what is left of the first k hashes
<1>. DEFINE Left(d, k) ==
                /\ d \in Seq(Nat)
                /\ \A a \in 1..Len(d) : \E l \in 1..k : d[a] = s[l]
                /\ \A a, b \in 1..Len(d) : a < b => d[a] < d[b]
                /\ k > 0 => Len(d) > 0 /\ d[Len(d)] = s[k]
            T == {k \in 0..n : Left(single[k], k)}
<1>5. 0 \in T
  <2>1. Left(<<>>, 0)
    OBVIOUS
  <2>. HIDE DEF Left
  <2>. QED  BY <1>1, <1>4, <2>1
<1>6. ASSUME NEW k \in 1..n, k - 1 \in T
      PROVE  k \in T
  <2>. DEFINE d == single[k - 1]
  <2>1. Left(d, k - 1) /\ single[k] = IF again(k) THEN d ELSE Append(d, s[k])
    BY <1>4, <1>6
  <2>2. k \in Nat /\ k - 1 \in Nat /\ k > 0 /\ k \in 0..n /\ s[k] \in Nat
    BY <1>1
  <2>. HIDE DEF d
  <2>3. CASE again(k)
    <3>1. k - 1 > 0 /\ s[k] = s[k - 1]
      BY <2>2, <2>3
    <3>2. Left(d, k)
      <4>1. /\ d \in Seq(Nat)
            /\ \A a, b \in 1..Len(d) : a < b => d[a] < d[b]
            /\ Len(d) > 0 /\ d[Len(d)] = s[k]
        BY <2>1, <3>1
      <4>2. \A a \in 1..Len(d) : \E l \in 1..k : d[a] = s[l]
        <5>1. \A l \in 1..(k - 1) : l \in 1..k
          BY <2>2
        <5>. QED  BY <2>1, <5>1
      <4>. QED  BY <4>1, <4>2
    <3>. HIDE DEF Left
    <3>. QED  BY <2>1, <2>2, <2>3, <3>2
  <2>4. CASE ~again(k)
    <3>. DEFINE e == Append(d, s[k])
    <3>1. d \in Seq(Nat) /\ Len(d) \in Nat
      BY <2>1
    <3>2. /\ e \in Seq(Nat) /\ Len(e) = Len(d) + 1
          /\ \A a \in 1..Len(d) : e[a] = d[a]
          /\ e[Len(d) + 1] = s[k]
      BY <2>2, <3>1, AppendFacts
    <3>. HIDE DEF e
    <3>3. ASSUME NEW a \in 1..Len(d)
          PROVE  d[a] < s[k]
      <4>1. k - 1 > 0
        <5>1. k - 1 = 0 => Len(d) = 0
          <6>1. k - 1 = 0 => \A l \in 1..(k - 1) : FALSE
            BY <2>2
          <6>2. k - 1 = 0 => \A b \in 1..Len(d) : FALSE
            BY <2>1, <6>1
          <6>. QED  BY <3>1, <6>2
        <5>. QED  BY <2>2, <3>1, <3>3, <5>1
      <4>2. s[k - 1] < s[k]
        <5>1. k - 1 \in 1..n /\ k \in 1..n /\ k - 1 < k /\ k > 1
          BY <1>1, <4>1
        <5>2. s[k - 1] <= s[k] /\ s[k - 1] \in Nat
          BY <1>1, <5>1 DEF Ascending
        <5>3. s[k - 1] # s[k]
          BY <2>4, <5>1
        <5>. QED  BY <2>2, <5>2, <5>3
      <4>3. d[Len(d)] = s[k - 1]
        BY <2>1, <4>1
      <4>4. Len(d) \in 1..Len(d) /\ (a = Len(d) \/ a < Len(d))
        BY <3>1, <3>3
      <4>5. d[a] <= d[Len(d)] /\ d[a] \in Nat
        <5>1. d[a] \in Nat /\ d[Len(d)] \in Nat
          BY <3>1, <4>4
        <5>2. a < Len(d) => d[a] < d[Len(d)]
          BY <2>1, <4>4
        <5>. QED  BY <4>4, <5>1, <5>2
      <4>6. s[k - 1] \in Nat
        <5>1. k - 1 \in 1..n
          BY <1>1, <4>1
        <5>. QED  BY <1>1, <5>1
      <4>7. \A x, y, z \in Nat : x <= y /\ y < z => x < z
        OBVIOUS
      <4>. QED  BY <2>2, <4>2, <4>3, <4>5, <4>6, <4>7
    <3>4. ASSUME NEW a \in 1..Len(e), NEW b \in 1..Len(e), a < b
          PROVE  e[a] < e[b]
      <4>1. a \in 1..Len(d) /\ (b \in 1..Len(d) \/ b = Len(d) + 1)
        <5>1. \A x \in Nat : \A y, z \in 1..(x + 1) :
                  y < z => y \in 1..x /\ (z \in 1..x \/ z = x + 1)
          OBVIOUS
        <5>2. a \in 1..(Len(d) + 1) /\ b \in 1..(Len(d) + 1)
          BY <3>2
        <5>. QED  BY <3>1, <3>4, <5>1, <5>2
      <4>2. e[a] = d[a]
        BY <3>2, <4>1
      <4>3. CASE b \in 1..Len(d)
        BY <2>1, <3>2, <3>4, <4>1, <4>2, <4>3
      <4>4. CASE b = Len(d) + 1
        BY <3>2, <3>3, <4>1, <4>2, <4>4
      <4>. QED  BY <4>1, <4>3, <4>4
    <3>5. ASSUME NEW a \in 1..Len(e)
          PROVE  \E l \in 1..k : e[a] = s[l]
      <4>1. a \in 1..Len(d) \/ a = Len(d) + 1
        BY <3>1, <3>2
      <4>2. CASE a \in 1..Len(d)
        <5>1. PICK l \in 1..(k - 1) : d[a] = s[l]
          BY <2>1, <4>2
        <5>2. l \in 1..k
          BY <2>2
        <5>. QED  BY <3>2, <4>2, <5>1, <5>2
      <4>3. CASE a = Len(d) + 1
        <5>1. k \in 1..k
          BY <2>2
        <5>. QED  BY <3>2, <4>3, <5>1
      <4>. QED  BY <4>1, <4>2, <4>3
    <3>6. Len(e) > 0 /\ e[Len(e)] = s[k]
      BY <3>1, <3>2
    <3>7. Left(e, k)
      BY <3>2, <3>4, <3>5, <3>6
    <3>. HIDE DEF Left
    <3>. QED  BY <2>1, <2>2, <2>4, <3>7 DEF e
  <2>. QED  BY <2>3, <2>4
<1>7. n \in T
  <2>1. 0 + 1 = 1 /\ 0 \in Nat /\ 0 <= n /\ n \in 0..n
    BY <1>1
  <2>. HIDE DEF T
  <2>2. \A k \in 1..n : k - 1 \in T => k \in T
    BY <1>6
  <2>. QED  BY <1>1, <1>5, <2>1, <2>2, UpTo
<1>8. Left(single[n], n)
  BY <1>7
<1>9. s # <<>> => n > 0
  BY <1>1 DEF n
<1>10. \A d \in Seq(Nat) : DOMAIN d = 1..Len(d) /\ (Len(d) > 0 => d # <<>>)
  OBVIOUS
<1>. HIDE DEF again
<1>. QED  BY <1>1, <1>3, <1>8, <1>9, <1>10 DEF Increasing

\* Once the meats are sorted.
Late == pc \in {"backrun_data", "report"} \/ result = "Ok"

\* Most steps leave the meats and what was kept alone.
LEMMA HashesStay ==
    ASSUME Hashes, good' = good, kept' = kept, Late' => Late
    PROVE  Hashes'
BY DEF Hashes, Late, OfKept, Increasing

\* One more ingredient is kept: the meats are of kept ones still.
LEMMA SearchHashes ==
    ASSUME IInv, Hashes, Search
    PROVE  Hashes'
<1>1. ~Late' /\ good' = good
  BY DEF Search, Late, IInv, Steps
<1>2. kept' = kept \/ \E x : kept' = Append(kept, x)
  BY DEF Search
<1>3. kept \in Seq(Kept)
  BY DEF IInv, BuiltOK, Kept
<1>4. CASE kept' = kept
  BY <1>1, <1>4, HashesStay
<1>5. ASSUME NEW x, kept' = Append(kept, x)
      PROVE  Hashes'
  <2>1. \A m \in DOMAIN kept : m \in DOMAIN kept' /\ kept'[m] = kept[m]
    BY <1>3, <1>5
  <2>2. \A h : OfKept(h) => OfKept(h)'
    BY <2>1 DEF OfKept
  <2>. QED  BY <1>1, <2>2 DEF Hashes, Late
<1>. QED  BY <1>2, <1>4, <1>5

\* The meat at hand is one of a kept ingredient.
LEMMA MeatRunsHashes ==
    ASSUME IInv, Hashes, MeatRuns
    PROVE  Hashes'
<1>. DEFINE h == TheMeat.hash
<1>1. ~Late' /\ kept' = kept
  BY DEF MeatRuns, AtMeat, Late, IInv, Steps, built
<1>2. /\ i \in DOMAIN kept /\ kept[i].meats \in Seq(Meat)
      /\ j \in DOMAIN kept[i].meats
  <2>1. BuiltOK /\ i <= Len(kept) /\ j <= Len(kept[i].meats)
    BY DEF IInv, MeatRuns, AtMeat
  <2>2. kept[i].meats \in Seq(Meat)
    BY <2>1, KeptAt
  <2>3. kept \in Seq(Kept) /\ i \in Nat \ {0} /\ j \in Nat \ {0}
    BY <2>1 DEF BuiltOK, Kept
  <2>4. \A s \in Seq(Kept) : DOMAIN s = 1..Len(s) /\ Len(s) \in Nat
    OBVIOUS
  <2>5. \A s \in Seq(Meat) : DOMAIN s = 1..Len(s) /\ Len(s) \in Nat
    OBVIOUS
  <2>. QED  BY <2>1, <2>2, <2>3, <2>4, <2>5
<1>3. TheMeat \in Meat /\ TheMeat \in Range(kept[i].meats)
  BY <1>2 DEF TheMeat, Range
<1>4. h \in Nat /\ OfKept(h)
  BY <1>2, <1>3 DEF OfKept, Meat
<1>5. good' = good \/ good' = Append(good, h)
  BY DEF MeatRuns
<1>6. \A x : OfKept(x) => OfKept(x)'
  BY <1>1 DEF OfKept
<1>7. CASE good' = good
  BY <1>1, <1>6, <1>7 DEF Hashes, Late
<1>8. CASE good' = Append(good, h)
  <2>1. good \in Seq(Nat)
    BY DEF Hashes
  <2>. HIDE DEF h
  <2>2. /\ good' \in Seq(Nat)
        /\ \A k \in DOMAIN good' : (k \in DOMAIN good /\ good'[k] = good[k]) \/ good'[k] = h
    <3>1. /\ good' \in Seq(Nat) /\ DOMAIN good = 1..Len(good)
          /\ DOMAIN good' = 1..(Len(good) + 1)
          /\ \A k \in 1..Len(good) : good'[k] = good[k]
          /\ good'[Len(good) + 1] = h
      BY <1>4, <1>8, <2>1, AppendFacts
    <3>2. \A k \in 1..(Len(good) + 1) : k \in 1..Len(good) \/ k = Len(good) + 1
      BY <2>1
    <3>. QED  BY <3>1, <3>2
  <2>3. (\A k \in DOMAIN good : OfKept(good[k]))'
    <3>1. ASSUME NEW k \in DOMAIN good'
          PROVE  OfKept(good'[k])
      BY <1>4, <2>2 DEF Hashes
    <3>. QED  BY <1>6, <3>1
  <2>. QED  BY <1>1, <2>2, <2>3 DEF Hashes, Late
<1>. QED  BY <1>5, <1>7, <1>8

\* Sorted, each meat has its copies beside it, so that dedup leaves one.
LEMMA MeatsEndHashes ==
    ASSUME IInv, Hashes, MeatsEnd
    PROVE  Hashes'
<1>. DEFINE sorted == Sorted(good)
            single == Dedup(sorted)
<1>1. good \in Seq(Nat)
  BY DEF Hashes
<1>2. /\ sorted \in Seq(Nat) /\ Len(sorted) = Len(good) /\ Ascending(sorted)
      /\ \A k \in DOMAIN sorted : \E l \in DOMAIN good : sorted[k] = good[l]
  BY <1>1, SortedSorts
<1>. HIDE DEF sorted
<1>3. /\ single \in Seq(Nat) /\ Increasing(single)
      /\ \A k \in DOMAIN single : \E l \in DOMAIN sorted : single[k] = sorted[l]
      /\ sorted # <<>> => single # <<>>
  BY <1>2, DedupLeavesOne
<1>. HIDE DEF single
<1>4. good' = single /\ kept' = kept
  BY DEF MeatsEnd, single, sorted, built
<1>5. \A x : OfKept(x) => OfKept(x)'
  BY <1>4 DEF OfKept
<1>6. \A k \in DOMAIN single : OfKept(single[k])
  BY <1>2, <1>3 DEF Hashes
<1>7. Late' => good # <<>>
  BY DEF MeatsEnd, Late, IInv, Steps, End
<1>8. good # <<>> => single # <<>>
  <2>1. \A s, t \in Seq(Nat) : Len(s) = Len(t) /\ t # <<>> => s # <<>>
    OBVIOUS
  <2>. QED  BY <1>1, <1>2, <1>3, <2>1
<1>9. Increasing(good)'
  BY <1>3, <1>4 DEF Increasing
<1>. QED  BY <1>3, <1>4, <1>5, <1>6, <1>7, <1>8, <1>9 DEF Hashes, Late

LEMMA HashesNext ==
    ASSUME IInv, Hashes, [Next]_vars
    PROVE  Hashes'
<1>1. CASE Search
  BY <1>1, SearchHashes
<1>2. CASE MeatRuns
  BY <1>2, MeatRunsHashes
<1>3. CASE MeatsEnd
  BY <1>3, MeatsEndHashes
<1>4. ASSUME NEW r \in {"Err"} \union Panics, Return(r)
      PROVE  Hashes'
  <2>1. good' = good /\ kept' = kept /\ ~Late'
    BY <1>4 DEF Return, End, built, Late, Panics
  <2>. QED  BY <2>1, HashesStay
<1>5. CASE SearchDone \/ FrontrunSkip \/ FrontrunPart \/ Frontrun \/ MeatsOfNext
  <2>1. good' = good /\ kept' = kept /\ ~Late'
    BY <1>5 DEF SearchDone, FrontrunSkip, FrontrunPart, AtStake, Frontrun, MeatsOfNext, End,
                built, Late, IInv, Steps
  <2>. QED  BY <2>1, HashesStay
<1>6. CASE BackrunPart \/ Backrun \/ Report \/ UNCHANGED vars
  <2>1. good' = good /\ kept' = kept /\ (Late' => Late)
    BY <1>6 DEF BackrunPart, AtAmount, Backrun, Report, End, built, vars, Late
  <2>. QED  BY <2>1, HashesStay
<1>7. CASE QueryFails \/ FrontrunPartPanics \/ FrontrunFails \/ FrontrunPanics \/ MeatFails
               \/ BackrunPartPanics \/ BackrunFails \/ BackrunPanics
  <2>1. \E r \in {"Err"} \union Panics : Return(r)
    BY <1>7 DEF QueryFails, FrontrunPartPanics, FrontrunFails, FrontrunPanics, MeatFails,
                BackrunPartPanics, BackrunFails, BackrunPanics, Panics
  <2>. QED  BY <1>4, <2>1
<1>. QED  BY <1>1, <1>2, <1>3, <1>5, <1>6, <1>7 DEF Next, Done

\* A bundle has a meat, none twice, and only meats of ingredients that were
\* kept, however many ingredients share however many meats.
THEOREM BundleMeatsHolds == Spec => []BundleMeats
<1>1. Init => Hashes
  BY DEF Init, Hashes
<1>2. IInv /\ Hashes /\ [Next]_vars => Hashes'
  BY HashesNext
<1>3. Hashes => BundleMeats
  <2>. SUFFICES ASSUME Hashes, result = "Ok"
                PROVE  BundleMeats
    BY DEF BundleMeats
  <2>1. good \in Seq(Nat) /\ good # <<>> /\ Increasing(good)
        /\ \A k \in DOMAIN good : OfKept(good[k])
    BY DEF Hashes
  <2>2. \A k, l \in DOMAIN good : k < l => good[k] # good[l]
    <3>1. \A k \in DOMAIN good : good[k] \in Nat
      BY <2>1
    <3>2. \A x, y \in Nat : x < y => x # y
      OBVIOUS
    <3>. QED  BY <2>1, <3>1, <3>2 DEF Increasing
  <2>. QED  BY <2>1, <2>2 DEF BundleMeats, OfKept
<1>. QED  BY <1>1, <1>2, <1>3, Invariance, PTL DEF Spec

-----------------------------------------------------------------------------
(* The bundle.  The making of the sandwich is that of module Sandwich, so  *)
(* that what is proved of it above holds here.                             *)

\* Every step of a bundle is a step of the sandwich or leaves it alone.
LEMMA StepIsSandwichs ==
    ASSUME [BundleNext]_bundleVars
    PROVE  [Next]_vars
BY DEF BundleNext, Try, Ignore, Make, SendBundle, NotSent, BundleDone, bundleVars

\* What is proved of the making of a sandwich holds of a bundle's: filters and
\* bribe leave it alone.
THEOREM BundleIsSandwich == BundleSpec => Spec
<1>1. BundleInit => Init
  BY DEF BundleInit
<1>. QED  BY <1>1, StepIsSandwichs, PTL DEF BundleSpec, Spec

LEMMA BundleInitInv ==
    ASSUME BundleInit
    PROVE  BundleInv
<1>1. NoReport \in Outcome
  BY DEF NoReport, Outcome
<1>2. stage \in {"mempool", "making"} /\ (stage = "making" => task.path # "mempool")
  BY DEF BundleInit
<1>3. kept = <<>>
  BY DEF BundleInit, Init
<1>. QED  BY <1>1, <1>2, <1>3 DEF BundleInit, BundleInv, BidWithinMeans

\* The sandwich keeps ingredients of its order.
LEMMA KeptOfOrder ==
    ASSUME IInv, [Next]_vars,
           \A k \in DOMAIN kept : \E m \in DOMAIN order : kept[k].meats = order[m].meats
    PROVE  /\ order' = order
           /\ \A k \in DOMAIN kept' : \E m \in DOMAIN order : kept'[k].meats = order[m].meats
<1>1. order' = order
  BY DEF Next, vars, built, Return, Search, SearchDone, FrontrunSkip, FrontrunPart,
         FrontrunPartPanics, QueryFails, Frontrun, FrontrunFails, FrontrunPanics,
         MeatRuns, MeatFails, MeatsOfNext, MeatsEnd, BackrunPart, BackrunPartPanics,
         Backrun, BackrunFails, BackrunPanics, Report, Done
<1>2. CASE Search
  <2>1. kept \in Seq(Kept) /\ order[i].variant \in Variants /\ order[i].meats \in Seq(Meat)
    BY <1>2, OrderAt DEF Search, IInv, BuiltOK, Kept
  <2>2. i \in DOMAIN order
    <3>1. order \in Seq(Raw)
      BY SandwichAssumption DEF IInv, BuiltOK, Raw
    <3>. QED  BY <1>2, <3>1 DEF Search, IInv, BuiltOK
  <2>3. ASSUME NEW stake \in Stakes,
               kept' = Append(kept, [variant |-> order[i].variant,
                                     meats |-> order[i].meats, stake |-> stake])
        PROVE  \A k \in DOMAIN kept' : \E m \in DOMAIN order : kept'[k].meats = order[m].meats
    <3>. DEFINE one == [variant |-> order[i].variant,
                        meats |-> order[i].meats, stake |-> stake]
    <3>1. one \in Kept
      BY <2>1 DEF Kept
    <3>2. one.meats = order[i].meats
      OBVIOUS
    <3>. HIDE DEF one
    <3>3. kept' = Append(kept, one)
      BY <2>3 DEF one
    <3>4. \A k \in DOMAIN kept' : kept'[k] = one \/ (k \in DOMAIN kept /\ kept'[k] = kept[k])
      BY <2>1, <3>1, <3>3
    <3>. QED  BY <2>2, <3>2, <3>4
  <2>. QED  BY <1>2, <2>3 DEF Search
<1>3. CASE ~Search
  <2>1. kept' = kept
    BY <1>3 DEF Next, vars, built, Return, SearchDone, FrontrunSkip, FrontrunPart,
         FrontrunPartPanics, QueryFails, Frontrun, FrontrunFails, FrontrunPanics,
         MeatRuns, MeatFails, MeatsOfNext, MeatsEnd, BackrunPart, BackrunPartPanics,
         Backrun, BackrunFails, BackrunPanics, Report, Done
  <2>2. order' = order
    BY <1>1
  <2>. QED  BY <2>1, <2>2
<1>. QED  BY <1>1, <1>2, <1>3

\* A share of less than all of it, and then so much for each unit of gas.
LEMMA ShareOfMeans ==
    ASSUME NEW means \in Nat \ {0}, NEW share \in Shares, NEW gas \in Nat \ {0}
    PROVE  LET bid == ((means * share) \div Unit) \div gas
           IN  bid \in Nat /\ gas * bid < means
<1>. DEFINE bribe == (means * share) \div Unit
            bid == bribe \div gas
<1>1. share \in Nat /\ share < Unit /\ Unit \in Nat \ {0}
  BY BundleAssumption
<1>2. means * share \in Nat /\ means * share < means * Unit
  <2>1. \A a, b \in Nat : a * b \in Nat
    OBVIOUS
  <2>2. \A a, b \in Nat \ {0} : a * b \in Nat \ {0}
    OBVIOUS
  <2>3. \A a, b, c \in Int : a * (b - c) = a * b - a * c
    OBVIOUS
  <2>4. means * share \in Nat /\ means * Unit \in Nat
    BY <1>1, <2>1
  <2>5. means * (Unit - share) \in Nat \ {0}
    <3>. DEFINE rest == Unit - share
    <3>1. rest \in Nat \ {0}
      BY <1>1
    <3>. HIDE DEF rest
    <3>2. means * rest \in Nat \ {0}
      BY <2>2, <3>1
    <3>. QED  BY <3>2 DEF rest
  <2>6. means * (Unit - share) = means * Unit - means * share
    BY <1>1, <2>3
  <2>. QED  BY <2>4, <2>5, <2>6
<1>3. bribe \in Nat /\ bribe * Unit <= means * share
  <2>1. \A a \in Nat : a \div Unit \in Nat /\ (a \div Unit) * Unit <= a
    BY <1>1, Division
  <2>. QED  BY <1>2, <2>1
<1>4. bribe * Unit < means * Unit
  <2>. HIDE DEF bribe
  <2>. QED  BY <1>1, <1>2, <1>3
<1>5. bribe < means
  <2>1. \A a, b \in Nat, u \in Nat \ {0} : a * u < b * u => a < b
    OBVIOUS
  <2>. HIDE DEF bribe
  <2>. QED  BY <1>1, <1>3, <1>4, <2>1
<1>6. bid \in Nat /\ gas * bid <= bribe
  <2>. HIDE DEF bribe
  <2>1. bribe \div gas \in Nat /\ (bribe \div gas) * gas <= bribe
    BY <1>3, Division
  <2>. QED  BY <2>1
<1>7. gas * bid < means
  <2>1. gas * bid \in Nat
    BY <1>6
  <2>. HIDE DEF bid, bribe
  <2>. QED  BY <1>3, <1>5, <1>6, <2>1
<1>. QED  BY <1>6, <1>7

LEMMA SendBundleInv ==
    ASSUME IInv, BundleInv, SendBundle
    PROVE  BundleInv'
<1>1. /\ report.revenue \in Nat /\ report.frontGas \in Nat /\ report.backGas \in Nat \ {0}
      /\ BaseFee \in Nat /\ DustGas \in Nat /\ FrontCost \in Nat
  BY SandwichAssumption, BundleAssumption DEF BundleInv, Outcome, FrontCost
<1>2. PICK dustless \in 0..Len(kept), share \in Shares :
          /\ MaxFee(dustless, share) >= BaseFee
          /\ bundle' = [frontFee |-> BaseFee, backFee |-> MaxFee(dustless, share),
                        dustless |-> dustless]
  BY DEF SendBundle
<1>. DEFINE over == Overpaid(dustless)
            means == report.revenue - FrontCost + over
            bid == MaxFee(dustless, share)
<1>3. dustless \in Nat /\ over \in Nat
  BY <1>1 DEF IInv, BuiltOK, Overpaid
<1>4. means \in Nat
  BY <1>1, <1>3 DEF SendBundle
<1>5. bid = ((means * share) \div Unit) \div report.backGas
  BY DEF MaxFee, Bribe
<1>6. means # 0
  <2>1. ASSUME means = 0
        PROVE  FALSE
    <3>1. share \in Nat /\ Unit \in Nat \ {0}
      BY BundleAssumption
    <3>2. (0 * share) \div Unit = 0 /\ 0 \div report.backGas = 0
      BY <1>1, <3>1
    <3>3. bid = 0
      BY <1>5, <2>1, <3>2
    <3>4. BaseFee = 0
      BY <1>1, <1>2, <3>3
    <3>5. FrontCost = 0
      BY <1>1, <3>4 DEF FrontCost
    <3>. QED  BY <1>1, <1>3, <2>1, <3>5 DEF SendBundle
  <2>. QED  BY <2>1
<1>7. bid \in Nat /\ report.backGas * bid < means
  <2>. HIDE DEF means, bid
  <2>. QED  BY <1>1, <1>4, <1>5, <1>6, ShareOfMeans
<1>8. FrontCost + report.backGas * bid < report.revenue + over
  <2>1. report.backGas * bid \in Nat
    BY <1>1, <1>7
  <2>. HIDE DEF bid, over
  <2>. QED  BY <1>1, <1>3, <1>7, <2>1
<1>9. BidWithinMeans'
  <2>1. /\ bundle'.backFee = bid /\ bundle'.dustless = dustless
        /\ report' = report
    BY <1>2 DEF SendBundle
  <2>. QED  BY <1>2, <1>8, <2>1 DEF BidWithinMeans, FrontCost, Overpaid
<1>. QED  BY <1>2, <1>9 DEF SendBundle, BundleInv, vars

LEMMA BundleNextInv ==
    ASSUME IInv, BundleInv, [BundleNext]_bundleVars
    PROVE  BundleInv'
<1>1. order' = order
      /\ \A k \in DOMAIN kept' : \E m \in DOMAIN order : kept'[k].meats = order[m].meats
  BY StepIsSandwichs, KeptOfOrder DEF BundleInv
<1>2. CASE Make
  <2>1. report' \in Outcome /\ task' = task
    BY <1>2, BundleAssumption DEF Make, BundleInv
  <2>2. stage' # "sent" /\ stage = "making"
    BY <1>2 DEF Make
  <2>3. BidWithinMeans'
    BY <2>2 DEF BidWithinMeans
  <2>. QED  BY <1>1, <2>1, <2>2, <2>3 DEF BundleInv, Includable
<1>3. CASE SendBundle
  BY <1>3, SendBundleInv
<1>4. CASE Try
  BY <1>4 DEF Try, BundleInv, BidWithinMeans, Includable, vars
<1>5. CASE Ignore \/ NotSent
  BY <1>5 DEF Ignore, NotSent, BundleInv, BidWithinMeans, vars
<1>6. CASE UNCHANGED bundleVars
  BY <1>6 DEF bundleVars, vars, BundleInv, BidWithinMeans, FrontCost, Overpaid, Includable
<1>. QED  BY <1>2, <1>3, <1>4, <1>5, <1>6 DEF BundleNext, BundleDone

\* The invariants of the proofs hold of every bundle that is made.
THEOREM BundleInvariance == BundleSpec => [](IInv /\ BundleInv)
<1>1. BundleInit => IInv /\ BundleInv
  BY InitInv, BundleInitInv DEF BundleInit
<1>2. IInv /\ BundleInv /\ [BundleNext]_bundleVars => (IInv /\ BundleInv)'
  BY StepIsSandwichs, NextInv, BundleNextInv
<1>. QED  BY <1>1, <1>2, PTL DEF BundleSpec

\* A bundle never costs what it earns, whatever the revenue, the gas and the
\* share of the bribe: the fee of the frontrun is set aside, and the cuts of
\* the divisions are to the bot's favour.
THEOREM BidWithinMeansHolds == BundleSpec => []BidWithinMeans
BY BundleInvariance, PTL DEF BundleInv

\* Two divisions, the one behind the other, leave nothing of less than eight
\* targets and at least one of more.
LEMMA StepRoundsAway ==
    ASSUME NEW fee \in Nat, NEW gas \in Nat, NEW target \in Nat \ {0}
    PROVE  Step(fee, gas, target) = 0 <=> fee * gas < 8 * target
<1>. DEFINE product == fee * gas
            quotient == product \div target
<1>1. product \in Nat
  OBVIOUS
<1>2. \A a \in Nat, q \in Nat \ {0} : a \div q \in Nat /\ (a >= 8 * q <=> a \div q >= 8)
  OBVIOUS
<1>. HIDE DEF product
<1>3. quotient \in Nat /\ (product >= 8 * target <=> quotient >= 8)
  BY <1>1, <1>2
<1>4. product < 8 * target <=> ~(product >= 8 * target)
  BY <1>1
<1>. HIDE DEF quotient
<1>5. quotient \div 8 = 0 <=> ~(quotient >= 8)
  BY <1>3
<1>. QED  BY <1>3, <1>4, <1>5 DEF Step, product, quotient

\* The bot's estimate lacks nothing but the protocol's smallest step.
LEMMA EstimateIsProtocols ==
    ASSUME NEW block \in Block, block.limit >= 2
    PROVE  NextBaseFee(block)
               = ProtocolBaseFee(block) - (IF RoundsAway(block) THEN 1 ELSE 0)
<1>. DEFINE target == block.limit \div 2
            fee == block.fee
            gas == block.used - target
            step == Step(fee, gas, target)
<1>1. fee \in Nat /\ block.used \in Nat /\ target \in Nat \ {0}
  BY DEF Block
<1>2. ASSUME block.used > target
      PROVE  gas \in Nat /\ step \in Nat /\ (step = 0 <=> fee * gas < 8 * target)
  <2>1. gas \in Nat
    <3>. HIDE DEF target
    <3>. QED  BY <1>1, <1>2
  <2>. HIDE DEF gas, target, fee
  <2>2. step = 0 <=> fee * gas < 8 * target
    BY <1>1, <2>1, StepRoundsAway
  <2>3. \A a \in Nat, q \in Nat \ {0} : a \div q \in Nat
    OBVIOUS
  <2>4. fee * gas \in Nat
    BY <1>1, <2>1
  <2>5. step \in Nat
    BY <1>1, <2>3, <2>4 DEF Step
  <2>. QED  BY <2>1, <2>2, <2>5
<1>3. CASE block.used > target
  <2>1. /\ NextBaseFee(block) = fee + step
        /\ ProtocolBaseFee(block) = fee + (IF step = 0 THEN 1 ELSE step)
        /\ RoundsAway(block) <=> fee * gas < 8 * target
    <3>1. block.used >= target
      <4>. HIDE DEF target
      <4>. QED  BY <1>1, <1>3
    <3>. QED  BY <1>3, <3>1 DEF NextBaseFee, ProtocolBaseFee, RoundsAway
  <2>. HIDE DEF target, fee, gas, step
  <2>2. RoundsAway(block) <=> step = 0
    BY <1>2, <1>3, <2>1
  <2>. QED  BY <1>1, <1>2, <1>3, <2>1, <2>2
<1>4. CASE block.used <= target
  <2>1. ~RoundsAway(block) /\ ~(block.used > target)
    <3>1. ~(block.used > target)
      <4>. HIDE DEF target
      <4>. QED  BY <1>1, <1>4
    <3>. QED  BY <3>1 DEF RoundsAway
  <2>2. NextBaseFee(block) = ProtocolBaseFee(block) /\ ProtocolBaseFee(block) \in Int
    BY <1>1, <1>4, <2>1 DEF NextBaseFee, ProtocolBaseFee, Step
  <2>. QED  BY <2>1, <2>2
<1>. QED  BY <1>1, <1>3, <1>4

\* The frontrun of a bundle pays the base fee of the block it is meant for, or
\* one less where the step to it rounds to nothing; for every block.
THEOREM FrontFeeExactHolds == BundleSpec => []FrontFeeExact
<1>1. ASSUME BundleInv, stage = "sent"
      PROVE  bundle.frontFee
                 = ProtocolBaseFee(task.latest) - (IF RoundsAway(task.latest) THEN 1 ELSE 0)
  <2>1. task.latest \in Block /\ BaseFee = NextBaseFee(task.latest) /\ task.latest.limit >= 2
    BY <1>1, BundleAssumption DEF BundleInv, Task
  <2>. QED  BY <1>1, <2>1, EstimateIsProtocols DEF BundleInv
<1>2. BundleInv => FrontFeeExact
  BY <1>1 DEF FrontFeeExact
<1>. QED  BY <1>2, BundleInvariance, PTL

\* What the mempool loop lets pass is not refused for its fees when it is run:
\* not for its own, nor for a tip that is in the environment when it is a
\* legacy transaction.
THEOREM VictimNotRefusedHolds == BundleSpec => []VictimNotRefused
<1>1. ASSUME IInv, BundleInv, stage = "making", task.path = "mempool", AtMeat
      PROVE  Accepted(MeatEnv(env, TheMeat))
  <2>. DEFINE victim == task.order[1].meats[1]
  <2>1. /\ i \in DOMAIN kept /\ kept[i].meats \in Seq(Meat)
    BY <1>1, KeptAt DEF AtMeat, IInv
  <2>2. /\ order \in Seq(Raw) /\ Len(order) = 1 /\ order = task.order
        /\ Len(order[1].meats) = 1
        /\ ~victim.legacy => victim.tip <= victim.price
    BY <1>1, BundleAssumption, SandwichAssumption DEF BundleInv, IInv, BuiltOK, Raw
  <2>3. kept[i].meats = order[1].meats
    <3>1. PICK m \in DOMAIN order : kept[i].meats = order[m].meats
      BY <1>1, <2>1 DEF BundleInv
    <3>2. m = 1
      BY <2>2
    <3>. QED  BY <3>1, <3>2
  <2>4. j = 1 /\ TheMeat = victim /\ DOMAIN kept[i].meats = {1}
    <3>1. j \in Nat \ {0} /\ j <= Len(kept[i].meats)
      BY <1>1 DEF AtMeat, IInv, BuiltOK
    <3>2. Len(kept[i].meats) = 1 /\ DOMAIN kept[i].meats = 1..1
      BY <2>1, <2>2, <2>3
    <3>3. j = 1
      BY <3>1, <3>2
    <3>. QED  BY <2>2, <2>3, <3>2, <3>3 DEF TheMeat
  <2>5. victim \in Meat
    <3>. DEFINE few == kept[i].meats
    <3>1. few \in Seq(Meat) /\ DOMAIN few = {1} /\ few = order[1].meats
      BY <2>1, <2>3, <2>4
    <3>2. \A s \in Seq(Meat) : \A m \in DOMAIN s : s[m] \in Meat
      OBVIOUS
    <3>3. few[1] \in Meat
      <4>. HIDE DEF few
      <4>. QED  BY <3>1, <3>2
    <3>. QED  BY <2>2, <3>1, <3>3
  <2>6. env \in Env
    BY <1>1 DEF IInv, BuiltOK, Env
  <2>7. (IF victim.legacy THEN 0 ELSE victim.price) >= BaseFee
    BY <1>1 DEF BundleInv, Includable
  <2>. HIDE DEF victim
  <2>8. CASE ~victim.legacy
    BY <2>2, <2>4, <2>5, <2>6, <2>7, <2>8 DEF Accepted, MeatEnv, Env, Meat
  <2>9. CASE victim.legacy
    <3>1. BaseFee = 0
      BY <2>7, <2>9, SandwichAssumption
    <3>2. ~(env.tip > BaseFee)
      <4>1. ASSUME env.tip > BaseFee
            PROVE  FALSE
        <5>1. PICK k \in DOMAIN kept[i].meats : ~kept[i].meats[k].legacy
          BY <1>1, <4>1 DEF IInv, Tips, AtMeat
        <5>2. kept[i].meats[k] = victim
          BY <5>1, <2>4, <2>3, <2>2 DEF victim
        <5>. QED  BY <5>1, <5>2, <2>9
      <4>. QED  BY <4>1
    <3>. QED  BY <2>4, <2>5, <2>6, <2>9, <3>1, <3>2
              DEF Accepted, MeatEnv, Env, Meat, NoTip
  <2>. QED  BY <2>8, <2>9
<1>2. IInv /\ BundleInv => VictimNotRefused
  BY <1>1 DEF VictimNotRefused
<1>. QED  BY <1>2, BundleInvariance, PTL

=============================================================================
