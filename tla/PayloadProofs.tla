---------------------------- MODULE PayloadProofs ----------------------------
(***************************************************************************)
(* Proofs about the calldata of a sandwich and the contract that reads it, *)
(* for payloads of any number of ingredients, any mixture of V2 and V3     *)
(* pools and any shift of an amount.                                       *)
(*                                                                         *)
(* The first half follows the encoders: where each field of an ingredient  *)
(* begins in its part of the calldata (BytesLayout and, kind by kind, the  *)
(* lemmas ending in Laid), and where each part begins in the whole         *)
(* (CalldataLaid).  ReadsWell and GoesOn compare that with the offsets of  *)
(* the contract's handlers.  The second half is the invariant Track: the   *)
(* handler that runs is always that of the first ingredient not swapped.   *)
(***************************************************************************)
EXTENDS Payload, SequenceFacts

Names == {"block", "label", "prepare", "end", "shift", "offIn", "offOut",
          "pair", "token", "in", "out", "hash"}
Field == [name : Names, width : Nat, val : Int]
Byte == [name : Names, of : Nat, nth : Nat, val : Int]

-----------------------------------------------------------------------------
(* Where the fields begin in their bytes.                                  *)

\* from byte s on, the bytes are those of the field
Begins(bytes, s, field, i) ==
    /\ s \in 1..Len(bytes)
    /\ bytes[s] = [name |-> field.name, of |-> i, nth |-> 1, val |-> field.val]

\* behind the first s bytes are those of the field
Holds(bytes, s, field, i) ==
    \A b \in 1..field.width :
        /\ s + b \in 1..Len(bytes)
        /\ bytes[s + b] = [name |-> field.name, of |-> i, nth |-> b, val |-> field.val]

\* start: how many bytes each field has before it
IsLayout(bytes, fields, i, start) ==
    /\ start \in [1..(Len(fields) + 1) -> Nat] /\ start[1] = 0
    /\ \A k \in 1..Len(fields) : start[k + 1] = start[k] + fields[k].width
    /\ Len(bytes) = start[Len(fields) + 1]
    /\ \A k \in 1..Len(fields) :
          /\ start[k + 1] <= Len(bytes)
          /\ \A b \in 1..fields[k].width :
                bytes[start[k] + b] = [name |-> fields[k].name, of |-> i, nth |-> b,
                                       val |-> fields[k].val]

LEMMA BytesLayout ==
    ASSUME NEW fields \in Seq(Field), NEW i \in Nat
    PROVE  /\ Bytes(fields, i) \in Seq(Byte)
           /\ \E start : IsLayout(Bytes(fields, i), fields, i, start)
<1>. DEFINE n == Len(fields)
            byte(k, b) == [name |-> fields[k].name, of |-> i, nth |-> b, val |-> fields[k].val]
            seqs == [k \in DOMAIN fields |-> [b \in 1..fields[k].width |-> byte(k, b)]]
<1>1. n \in Nat /\ DOMAIN fields = 1..n /\ \A k \in 1..n : fields[k] \in Field
  OBVIOUS
<1>2. \A k \in 1..n : seqs[k] \in Seq(Byte) /\ Len(seqs[k]) = fields[k].width
                      /\ \A b \in 1..fields[k].width : seqs[k][b] = byte(k, b)
  <2>1. ASSUME NEW k \in 1..n
        PROVE  /\ seqs[k] \in Seq(Byte) /\ Len(seqs[k]) = fields[k].width
               /\ \A b \in 1..fields[k].width : seqs[k][b] = byte(k, b)
    <3>1. fields[k].width \in Nat /\ fields[k].name \in Names /\ fields[k].val \in Int
      BY <1>1 DEF Field
    <3>2. \A b \in 1..fields[k].width : byte(k, b) \in Byte
      BY <3>1 DEF Byte
    <3>3. seqs[k] = [b \in 1..fields[k].width |-> byte(k, b)]
      BY <1>1
    <3>. HIDE DEF byte, seqs
    <3>. QED  BY <3>1, <3>2, <3>3
  <2>. QED  BY <2>1
<1>3. Bytes(fields, i) = FlattenSeq(seqs)
  BY DEF Bytes
<1>4. seqs \in Seq(Seq(Byte)) /\ Len(seqs) = n
  <2>1. DOMAIN seqs = 1..n
    BY <1>1
  <2>2. seqs = [k \in 1..n |-> seqs[k]]
    BY <1>1
  <2>. HIDE DEF seqs
  <2>. QED  BY <1>1, <1>2, <2>1, <2>2
<1>. HIDE DEF seqs
<1>5. PICK start \in [1..(Len(seqs) + 1) -> Nat] :
          /\ start[1] = 0
          /\ \A k \in 1..Len(seqs) : start[k + 1] = start[k] + Len(seqs[k])
          /\ Len(FlattenSeq(seqs)) = start[Len(seqs) + 1]
          /\ \A k \in 1..Len(seqs) :
                 /\ start[k + 1] <= Len(FlattenSeq(seqs))
                 /\ \A b \in 1..Len(seqs[k]) :
                       FlattenSeq(seqs)[start[k] + b] = seqs[k][b]
  BY <1>4, FlattenAt
<1>6. IsLayout(FlattenSeq(seqs), fields, i, start)
  <2>1. /\ start \in [1..(n + 1) -> Nat] /\ start[1] = 0
        /\ \A k \in 1..n : start[k + 1] = start[k] + fields[k].width
        /\ Len(FlattenSeq(seqs)) = start[n + 1]
        /\ \A k \in 1..n : start[k + 1] <= Len(FlattenSeq(seqs))
    BY <1>2, <1>4, <1>5
  <2>2. ASSUME NEW k \in 1..n, NEW b \in 1..fields[k].width
        PROVE  FlattenSeq(seqs)[start[k] + b] = byte(k, b)
    <3>2. k \in 1..Len(seqs) /\ b \in 1..Len(seqs[k]) /\ seqs[k][b] = byte(k, b)
      BY <1>2, <1>4
    <3>. HIDE DEF byte
    <3>. QED  BY <1>5, <3>2
  <2>. QED  BY <2>1, <2>2 DEF IsLayout
<1>7. FlattenSeq(seqs) \in Seq(Byte)
  BY <1>4, FlattenAt
<1>. QED  BY <1>3, <1>6, <1>7

\* the fields have these names and none is empty; w[k] bytes are before field k
Named(fields, names, w) ==
    /\ Len(fields) = Len(names) /\ w[1] = 0
    /\ \A k \in 1..Len(names) : /\ fields[k].name = names[k] /\ fields[k].width >= 1
                                /\ w[k + 1] = w[k] + fields[k].width

Laid(bytes, fields, i, w) ==
    /\ Len(bytes) = w[Len(fields) + 1]
    /\ \A k \in 1..Len(fields) : /\ Begins(bytes, w[k] + 1, fields[k], i)
                                /\ Holds(bytes, w[k], fields[k], i)

LEMMA FirstBytes ==
    ASSUME NEW fields \in Seq(Field), NEW i \in Nat, NEW names, NEW w, Named(fields, names, w)
    PROVE  Laid(Bytes(fields, i), fields, i, w)
<1>. DEFINE n == Len(fields)
            bytes == Bytes(fields, i)
<1>0. w[1] = 0 /\ \A k \in 1..n : fields[k].width >= 1 /\ w[k + 1] = w[k] + fields[k].width
  BY DEF Named
<1>1. n \in Nat /\ DOMAIN fields = 1..n /\ \A k \in 1..n : fields[k] \in Field
  OBVIOUS
<1>2. PICK start : IsLayout(bytes, fields, i, start)
  BY BytesLayout
<1>3. bytes \in Seq(Byte)
  BY BytesLayout
<1>. HIDE DEF bytes
<1>4. /\ start \in [1..(n + 1) -> Nat] /\ start[1] = 0
      /\ \A k \in 1..n : start[k + 1] = start[k] + fields[k].width
      /\ Len(bytes) = start[n + 1]
      /\ \A k \in 1..n :
          /\ start[k + 1] <= Len(bytes)
          /\ \A b \in 1..fields[k].width :
                bytes[start[k] + b] = [name |-> fields[k].name, of |-> i, nth |-> b,
                                       val |-> fields[k].val]
  BY <1>0, <1>2 DEF IsLayout
<1>6. \A k \in 1..(n + 1) : start[k] = w[k]
  <2>. DEFINE T == {k \in 1..(n + 1) : start[k] = w[k]}
  <2>1. 1 \in T
    BY <1>0, <1>1, <1>4
  <2>2. \A k \in (1 + 1)..(n + 1) : k - 1 \in T => k \in T
    <3>1. \A k \in (1 + 1)..(n + 1) : k - 1 \in 1..n /\ (k - 1) + 1 = k /\ k \in 1..(n + 1)
      BY <1>1
    <3>. HIDE DEF n
    <3>3. ASSUME NEW k \in (1 + 1)..(n + 1), k - 1 \in T
          PROVE  start[k] = w[k]
      <4>. DEFINE j == k - 1
      <4>1. j \in 1..n /\ j + 1 = k
        BY <3>1
      <4>2. start[j] = w[j]
        BY <3>3
      <4>. HIDE DEF j
      <4>3. start[j + 1] = w[j + 1]
        BY <1>0, <1>4, <4>1, <4>2
      <4>. QED  BY <4>1, <4>3
    <3>. QED  BY <3>1, <3>3
  <2>3. 1 \in Nat /\ n + 1 \in Nat /\ 1 <= n + 1
    BY <1>1
  <2>4. \A k \in 1..(n + 1) : k \in T
    <3>. HIDE DEF T, n
    <3>. QED  BY <2>1, <2>2, <2>3, UpTo
  <2>. QED  BY <2>4
<1>7. ASSUME NEW k \in 1..n
      PROVE  Begins(bytes, w[k] + 1, fields[k], i) /\ Holds(bytes, w[k], fields[k], i)
  <2>1. start[k] = w[k] /\ start[k] \in Nat
    BY <1>1, <1>4, <1>6
  <2>2. fields[k].width >= 1 /\ fields[k].width \in Nat /\ Len(bytes) \in Nat
    BY <1>0, <1>1, <1>3 DEF Field
  <2>3. \A b \in 1..fields[k].width : start[k] + b \in 1..Len(bytes)
    <3>1. start[k + 1] = start[k] + fields[k].width /\ start[k + 1] <= Len(bytes)
      BY <1>4
    <3>. QED  BY <2>1, <2>2, <3>1
  <2>4. Holds(bytes, w[k], fields[k], i)
    BY <1>4, <2>1, <2>3 DEF Holds
  <2>5. 1 \in 1..fields[k].width
    BY <2>2
  <2>. QED  BY <2>1, <2>4, <2>5 DEF Begins, Holds
<1>8. Len(bytes) = w[n + 1]
  BY <1>1, <1>4, <1>6
<1>. QED  BY <1>7, <1>8 DEF n, bytes, Laid

-----------------------------------------------------------------------------
(* What the encoders write, field by field.                                *)

LEMMA FieldsOk ==
    /\ Block \in Field
    /\ \A name \in Names, x \in Int : L(name, x) \in Field
    /\ \A name \in Names, w \in Nat : F(name, w) \in Field
<1>1. ASSUME NEW name \in Names, NEW w \in Nat, NEW x \in Int
      PROVE  [name |-> name, width |-> w, val |-> x] \in Field
  BY DEF Field
<1>2. \A name \in Names, x \in Int : L(name, x) \in Field
  BY <1>1 DEF L
<1>3. \A name \in Names, w \in Nat : F(name, w) \in Field
  <2>1. -1 \in Int
    OBVIOUS
  <2>. QED  BY <1>1, <2>1 DEF F
<1>4. Block \in Field
  <2>1. "block" \in Names /\ 1 \in Nat
    BY DEF Names
  <2>. QED  BY ONLY <1>3, <2>1 DEF Block
<1>. QED  BY <1>2, <1>3, <1>4

\* The labels of both tables: the bot's are those of the contract but for three.
LEMMA GatesFacts ==
    /\ DOMAIN Gates = 1..22
    /\ \A k, l \in 1..22 : Gates[k] = Gates[l] => k = l
    /\ \A k \in 1..22 : Gates[k] # "exit"
    /\ Gates[12] = "prepare_stack" /\ Gates[21] = "recover_weth"
BY DEF Gates

LEMMA HelperLabels == \A k \in 1..22 : HelperLabel(Gates[k]) = Offset(k)
<1>1. ASSUME NEW k \in 1..22
      PROVE  (CHOOSE l \in DOMAIN Gates : Gates[l] = Gates[k]) = k
  BY GatesFacts
<1>. QED  BY <1>1, GatesFacts DEF HelperLabel

LEMMA LandsAt == \A k \in 1..22 : GateAt(Offset(k)) = Gates[k]
<1>1. \A k \in 1..22 : Offset(k) # 46
  BY DEF Offset
<1>2. ASSUME NEW k \in 1..22
      PROVE  (CHOOSE l \in DOMAIN Gates : Offset(l) = Offset(k)) = k
  <2>1. \A l \in 1..22 : Offset(l) = Offset(k) => l = k
    BY DEF Offset
  <2>. QED  BY GatesFacts, <2>1
<1>. QED  BY <1>1, <1>2, GatesFacts DEF GateAt

LEMMA SwapGatesAmong ==
    \A g \in SwapGates : \E k \in 1..22 : k \notin {12, 21} /\ Gates[k] = g
<1>1. /\ Gates[1] = "v2_input_single" /\ Gates[2] = "v2_output0_single"
      /\ Gates[3] = "v2_output1_single" /\ Gates[4] = "v3_input0" /\ Gates[5] = "v3_input1"
      /\ Gates[6] = "v3_output0" /\ Gates[7] = "v3_output1"
      /\ Gates[8] = "v2_input_multi_first" /\ Gates[9] = "v2_input_multi_next"
      /\ Gates[10] = "v2_output_multi_first" /\ Gates[11] = "v2_output_multi_next"
      /\ Gates[13] = "v3_input0_multi" /\ Gates[14] = "v3_input1_multi"
      /\ Gates[15] = "v3_output0_multi" /\ Gates[16] = "v3_output1_multi"
  BY DEF Gates
<1>. HIDE DEF Gates
<1>2. \A g \in V2SingleGates : \E k \in 1..22 : k \notin {12, 21} /\ Gates[k] = g
  BY <1>1 DEF V2SingleGates
<1>3. \A g \in V2MultiGates : \E k \in 1..22 : k \notin {12, 21} /\ Gates[k] = g
  BY <1>1 DEF V2MultiGates
<1>4. \A g \in V3SingleGates : \E k \in 1..22 : k \notin {12, 21} /\ Gates[k] = g
  BY <1>1 DEF V3SingleGates
<1>5. \A g \in V3MultiGates : \E k \in 1..22 : k \notin {12, 21} /\ Gates[k] = g
  BY <1>1 DEF V3MultiGates
<1>. QED  BY <1>2, <1>3, <1>4, <1>5 DEF SwapGates

\* A jump to the label of a swap lands at its gate, whoever wrote the label.
LEMMA Labels ==
    \A e \in Encoders, g \in SwapGates : Label(e, g) \in Nat /\ GateAt(Label(e, g)) = g
<1>. TAKE e \in Encoders, g \in SwapGates
<1>1. PICK k \in 1..22 : k \notin {12, 21} /\ Gates[k] = g
  BY SwapGatesAmong
<1>2. g # "exit" /\ g # "prepare_stack" /\ g # "recover_weth"
  BY <1>1, GatesFacts
<1>3. Label(e, g) = Offset(k)
  <2>1. HelperLabel(g) = Offset(k)
    BY <1>1, HelperLabels
  <2>. QED  BY <1>2, <2>1 DEF Label, BotLabel
<1>. QED  BY <1>1, <1>3, LandsAt DEF Offset

\* The other labels: those of the bot name no destination.
LEMMA OtherLabels ==
    /\ Label("helper", "exit") = 46 /\ Label("bot", "exit") = 37
    /\ Label("helper", "prepare_stack") = 103 /\ Label("bot", "prepare_stack") = 94
    /\ Label("helper", "recover_weth") = 148 /\ Label("bot", "recover_weth") = 124
    /\ GateAt(46) = "exit" /\ GateAt(103) = "prepare_stack" /\ GateAt(148) = "recover_weth"
    /\ GateAt(94) = "invalid"
<1>1. HelperLabel("prepare_stack") = 103 /\ HelperLabel("recover_weth") = 148
  BY HelperLabels, GatesFacts DEF Offset
<1>2. GateAt(103) = "prepare_stack" /\ GateAt(148) = "recover_weth"
  <2>1. Offset(12) = 103 /\ Offset(21) = 148
    BY DEF Offset
  <2>. QED  BY <2>1, LandsAt, GatesFacts
<1>3. GateAt(94) = "invalid"
  <2>1. \A k \in 1..22 : Offset(k) # 94
    BY DEF Offset
  <2>. QED  BY <2>1, GatesFacts DEF GateAt
<1>. QED  BY <1>1, <1>2, <1>3 DEF Label, BotLabel, HelperLabel, GateAt

\* The gates of the ingredients, and what is behind them.
LEMMA HandlersWritten ==
    /\ Handler("v2_input_single") = V2SingleHandler("v2_input_single")
    /\ Handler("v2_input_multi_first") = V2MultiHandler("v2_input_multi_first")
    /\ Handler("v2_input_multi_next") = V2MultiHandler("v2_input_multi_next")
    /\ Handler("v2_output_multi_first") = V2MultiHandler("v2_output_multi_first")
    /\ Handler("v2_output_multi_next") = V2MultiHandler("v2_output_multi_next")
    /\ \A w \in BOOLEAN :
        /\ Handler(Side(w, "v2_output0_single", "v2_output1_single"))
             = V2SingleHandler("v2_output0_single")
        /\ Handler(V3Gate("input", w)) = V3SingleHandler("v3_input0")
        /\ Handler(V3Gate("output", w)) = V3SingleHandler("v3_output0")
        /\ Handler(V3MultiGate("input", w)) = V3MultiHandler("v3_input0_multi")
        /\ Handler(V3MultiGate("output", w)) = V3MultiHandler("v3_output0_multi")
<1>1. /\ \A g \in V2SingleGates : Handler(g) = V2SingleHandler(g)
      /\ \A g \in V2MultiGates : Handler(g) = V2MultiHandler(g)
      /\ \A g \in V3SingleGates : Handler(g) = V3SingleHandler(g)
      /\ \A g \in V3MultiGates : Handler(g) = V3MultiHandler(g)
  BY DEF Handler, V2SingleGates, V2MultiGates, V3SingleGates, V3MultiGates
<1>2. \A w \in BOOLEAN :
        /\ Side(w, "v2_output0_single", "v2_output1_single")
              \in {"v2_output0_single", "v2_output1_single"}
        /\ V3Gate("input", w) \in {"v3_input0", "v3_input1"}
        /\ V3Gate("output", w) \in {"v3_output0", "v3_output1"}
        /\ V3MultiGate("input", w) \in {"v3_input0_multi", "v3_input1_multi"}
        /\ V3MultiGate("output", w) \in {"v3_output0_multi", "v3_output1_multi"}
  BY DEF Side, V3Gate, V3MultiGate
<1>3. /\ \A g \in {"v2_output0_single", "v2_output1_single"} :
            Handler(g) = V2SingleHandler("v2_output0_single")
      /\ \A g \in {"v3_input0", "v3_input1"} : Handler(g) = V3SingleHandler("v3_input0")
      /\ \A g \in {"v3_output0", "v3_output1"} : Handler(g) = V3SingleHandler("v3_output0")
      /\ \A g \in {"v3_input0_multi", "v3_input1_multi"} :
            Handler(g) = V3MultiHandler("v3_input0_multi")
      /\ \A g \in {"v3_output0_multi", "v3_output1_multi"} :
            Handler(g) = V3MultiHandler("v3_output0_multi")
  <2>1. \A g \in {"v2_output0_single", "v2_output1_single"} :
            V2SingleHandler(g) = V2SingleHandler("v2_output0_single")
    BY DEF V2SingleHandler
  <2>2. /\ \A g \in {"v3_input0", "v3_input1"} : V3SingleHandler(g) = V3SingleHandler("v3_input0")
        /\ \A g \in {"v3_output0", "v3_output1"} :
              V3SingleHandler(g) = V3SingleHandler("v3_output0")
    BY DEF V3SingleHandler
  <2>3. /\ \A g \in {"v3_input0_multi", "v3_input1_multi"} :
            V3MultiHandler(g) = V3MultiHandler("v3_input0_multi")
        /\ \A g \in {"v3_output0_multi", "v3_output1_multi"} :
            V3MultiHandler(g) = V3MultiHandler("v3_output0_multi")
    BY DEF V3MultiHandler
  <2>. QED  BY <1>1, <2>1, <2>2, <2>3 DEF V2SingleGates, V3SingleGates, V3MultiGates
<1>4. /\ "v2_input_single" \in V2SingleGates
      /\ V2MultiGates = {"v2_input_multi_first", "v2_input_multi_next",
                         "v2_output_multi_first", "v2_output_multi_next"}
  BY DEF V2SingleGates, V2MultiGates
<1>. QED  BY <1>1, <1>2, <1>3, <1>4

LEMMA GatesWritten ==
    /\ "v2_input_single" \in SwapGates /\ V2MultiGates \subseteq SwapGates
    /\ \A w \in BOOLEAN :
          /\ Side(w, "v2_output0_single", "v2_output1_single") \in SwapGates
          /\ V3Gate("input", w) \in SwapGates /\ V3Gate("output", w) \in SwapGates
          /\ V3MultiGate("input", w) \in SwapGates /\ V3MultiGate("output", w) \in SwapGates
<1>1. "v2_input_single" \in SwapGates /\ V2MultiGates \subseteq SwapGates
  BY DEF V2SingleGates, SwapGates
<1>2. ASSUME NEW w \in BOOLEAN
      PROVE  Side(w, "v2_output0_single", "v2_output1_single") \in SwapGates
  BY DEF V2SingleGates, SwapGates, Side
<1>3. ASSUME NEW w \in BOOLEAN
      PROVE  V3Gate("input", w) \in SwapGates /\ V3Gate("output", w) \in SwapGates
  BY DEF V3SingleGates, SwapGates, Side, V3Gate
<1>4. ASSUME NEW w \in BOOLEAN
      PROVE  V3MultiGate("input", w) \in SwapGates /\ V3MultiGate("output", w) \in SwapGates
  BY DEF V3MultiGates, SwapGates, Side, V3MultiGate
<1>. QED  BY <1>1, <1>2, <1>3, <1>4

LEMMA LabelFields ==
    \A e \in Encoders : /\ \A g \in SwapGates : L("label", Label(e, g)) \in Field
                        /\ L("prepare", Label(e, "prepare_stack")) \in Field
                        /\ L("label", Label(e, "recover_weth")) \in Field
                        /\ L("end", Label(e, "exit")) \in Field
<1>1. {"label", "prepare", "end"} \subseteq Names
  BY DEF Names
<1>2. \A e \in Encoders : /\ \A g \in SwapGates : Label(e, g) \in Int
                          /\ Label(e, "prepare_stack") \in Int /\ Label(e, "exit") \in Int
                          /\ Label(e, "recover_weth") \in Int
  BY Labels, OtherLabels DEF Encoders
<1>. QED  BY <1>1, <1>2, FieldsOk

\* the fields that occur
LEMMA FieldsWritten ==
    /\ Block \in Field /\ Block.width = 1 /\ Block.name = "block"
    /\ \A x \in Int : /\ L("label", x) \in Field /\ L("prepare", x) \in Field
                      /\ L("end", x) \in Field /\ L("shift", x) \in Field
                      /\ L("offIn", x) \in Field /\ L("offOut", x) \in Field
    /\ \A name, x : L(name, x).width = 1 /\ L(name, x).val = x /\ L(name, x).name = name
    /\ \A name, w : F(name, w).width = w /\ F(name, w).name = name
    /\ F("pair", 20) \in Field /\ F("token", 20) \in Field /\ F("hash", 32) \in Field
    /\ F("in", 4) \in Field /\ F("in", 5) \in Field
    /\ F("out", 4) \in Field /\ F("out", 5) \in Field
    /\ \A ing \in Ingredient :
          /\ OffIn(ing) \in Field /\ OffIn(ing).name = "offIn" /\ OffIn(ing).width = 1
          /\ OffOut(ing) \in Field /\ OffOut(ing).name = "offOut" /\ OffOut(ing).width = 1
          /\ OffWethOut(ing) \in Field /\ OffWethOut(ing).name = "offOut"
          /\ OffWethOut(ing).width = 1
          /\ \A w \in Nat : /\ Shift(w, ing.shift) \in Field
                            /\ Shift(w, ing.wethShift) \in Field
                            /\ Shift(w, ing.shift).name = "shift"
                            /\ Shift(w, ing.shift).width = 1
                            /\ Shift(w, ing.wethShift).name = "shift"
                            /\ Shift(w, ing.wethShift).width = 1
<1>1. /\ {"label", "prepare", "end", "shift", "offIn", "offOut", "pair", "token", "in", "out",
           "hash"} \subseteq Names
      /\ {4, 5, 20, 32} \subseteq Nat
  BY DEF Names
<1>2. Block.width = 1 /\ Block.name = "block"
  BY DEF Block, F
<1>3. /\ \A name, x : L(name, x).width = 1 /\ L(name, x).val = x /\ L(name, x).name = name
      /\ \A name, w : F(name, w).width = w /\ F(name, w).name = name
  BY DEF L, F
<1>4. \A x \in Int : /\ L("label", x) \in Field /\ L("prepare", x) \in Field
                      /\ L("end", x) \in Field /\ L("shift", x) \in Field
                      /\ L("offIn", x) \in Field /\ L("offOut", x) \in Field
  BY <1>1, FieldsOk
<1>5. ASSUME NEW ing \in Ingredient
      PROVE  /\ OffIn(ing) \in Field /\ OffIn(ing).name = "offIn" /\ OffIn(ing).width = 1
             /\ OffOut(ing) \in Field /\ OffOut(ing).name = "offOut" /\ OffOut(ing).width = 1
             /\ OffWethOut(ing) \in Field /\ OffWethOut(ing).name = "offOut"
             /\ OffWethOut(ing).width = 1
             /\ \A w \in Nat : /\ Shift(w, ing.shift) \in Field
                               /\ Shift(w, ing.wethShift) \in Field
                               /\ Shift(w, ing.shift).name = "shift"
                               /\ Shift(w, ing.shift).width = 1
                               /\ Shift(w, ing.wethShift).name = "shift"
                               /\ Shift(w, ing.wethShift).width = 1
  <2>1. /\ 64 - ing.shift \in Int /\ Side(ing.weth0, 64, 32) - ing.shift \in Int
        /\ Side(ing.weth0, 68, 100) - ing.wethShift \in Int
        /\ \A w \in Nat : /\ WordSize - w - ing.shift \in Int
                          /\ WordSize - w - ing.wethShift \in Int
    <3>1. ing.shift \in 0..MaxShift /\ ing.wethShift \in 0..MaxShift
      BY DEF Ingredient
    <3>2. ing.shift \in Int /\ ing.wethShift \in Int
      BY <3>1
    <3>. QED  BY <3>2 DEF Side, WordSize
  <2>. QED  BY ONLY <1>3, <1>4, <2>1 DEF OffIn, OffOut, OffWethOut, Shift
<1>. QED  BY <1>1, <1>2, <1>3, <1>4, <1>5, FieldsOk

\* handler h, whose fields are counted from byte o of the bytes on, finds each
\* of them where it begins
Finds(bytes, o, h, i) ==
    \A r \in h.fields :
        /\ o + r.offset + 1 \in 1..Len(bytes)
        /\ bytes[o + r.offset + 1].name = r.name
        /\ bytes[o + r.offset + 1].of = i
        /\ bytes[o + r.offset + 1].nth = 1

LEMMA SeqEqual ==
    ASSUME NEW S, NEW s \in Seq(S), NEW t \in Seq(S), Len(s) = Len(t),
           \A k \in 1..Len(s) : s[k] = t[k]
    PROVE  s = t
OBVIOUS

LEMMA V2InputFirstJoined ==
    ASSUME NEW a, NEW b, NEW c, NEW d, NEW e
    PROVE  <<a>> \o (<<b, c, d, e>> \o <<>>)
             = <<a, b, c, d, e>>
<1>. DEFINE S == {a, b, c, d, e}
            s == <<a>> \o (<<b, c, d, e>> \o <<>>)
            t == <<a, b, c, d, e>>
<1>1. s \in Seq(S) /\ t \in Seq(S)
  OBVIOUS
<1>2. Len(s) = 5 /\ Len(t) = 5
  OBVIOUS
<1>3. Len(s) = Len(t) /\ \A k \in 1..Len(s) : s[k] = t[k]
  BY <1>2
<1>. HIDE DEF s, t, S
<1>4. s = t
  BY <1>1, <1>3, SeqEqual
<1>. QED  BY <1>4 DEF s, t

LEMMA V2InputNextJoined ==
    ASSUME NEW a, NEW b, NEW c, NEW d, NEW e
    PROVE  <<a, b, c, d>> \o <<e>>
             = <<a, b, c, d, e>>
<1>. DEFINE S == {a, b, c, d, e}
            s == <<a, b, c, d>> \o <<e>>
            t == <<a, b, c, d, e>>
<1>1. s \in Seq(S) /\ t \in Seq(S)
  OBVIOUS
<1>2. Len(s) = 5 /\ Len(t) = 5
  OBVIOUS
<1>3. Len(s) = Len(t) /\ \A k \in 1..Len(s) : s[k] = t[k]
  BY <1>2
<1>. HIDE DEF s, t, S
<1>4. s = t
  BY <1>1, <1>3, SeqEqual
<1>. QED  BY <1>4 DEF s, t

LEMMA V2OutputNextJoined ==
    ASSUME NEW a, NEW b, NEW c, NEW d, NEW e, NEW f, NEW g
    PROVE  <<a, b, c, d, e>> \o <<f>> \o <<g>>
             = <<a, b, c, d, e, f, g>>
<1>. DEFINE S == {a, b, c, d, e, f, g}
            s == <<a, b, c, d, e>> \o <<f>> \o <<g>>
            t == <<a, b, c, d, e, f, g>>
<1>1. s \in Seq(S) /\ t \in Seq(S)
  OBVIOUS
<1>2. Len(s) = 7 /\ Len(t) = 7
  OBVIOUS
<1>3. Len(s) = Len(t) /\ \A k \in 1..Len(s) : s[k] = t[k]
  BY <1>2
<1>. HIDE DEF s, t, S
<1>4. s = t
  BY <1>1, <1>3, SeqEqual
<1>. QED  BY <1>4 DEF s, t

LEMMA V3InputFirstJoined ==
    ASSUME NEW a, NEW b, NEW c, NEW d, NEW e, NEW f, NEW g, NEW h, NEW i
    PROVE  <<a>> \o (<<b>> \o <<c, d, e, f, g, h, i>>)
             = <<a, b, c, d, e, f, g, h, i>>
<1>. DEFINE S == {a, b, c, d, e, f, g, h, i}
            s == <<a>> \o (<<b>> \o <<c, d, e, f, g, h, i>>)
            t == <<a, b, c, d, e, f, g, h, i>>
<1>1. s \in Seq(S) /\ t \in Seq(S)
  OBVIOUS
<1>2. Len(s) = 9 /\ Len(t) = 9
  OBVIOUS
<1>3. Len(s) = Len(t) /\ \A k \in 1..Len(s) : s[k] = t[k]
  BY <1>2
<1>. HIDE DEF s, t, S
<1>4. s = t
  BY <1>1, <1>3, SeqEqual
<1>. QED  BY <1>4 DEF s, t

LEMMA V3InputNextJoined ==
    ASSUME NEW a, NEW b, NEW c, NEW d, NEW e, NEW f, NEW g
    PROVE  <<>> \o <<a, b, c, d, e, f, g>>
             = <<a, b, c, d, e, f, g>>
OBVIOUS

LEMMA V3OutputFirstJoined ==
    ASSUME NEW a, NEW b, NEW c, NEW d, NEW e, NEW f, NEW g, NEW h, NEW i, NEW j
    PROVE  <<a>> \o (<<b>> \o <<c, d, e, f, g, h, i, j>>)
             = <<a, b, c, d, e, f, g, h, i, j>>
<1>. DEFINE S == {a, b, c, d, e, f, g, h, i, j}
            s == <<a>> \o (<<b>> \o <<c, d, e, f, g, h, i, j>>)
            t == <<a, b, c, d, e, f, g, h, i, j>>
<1>1. s \in Seq(S) /\ t \in Seq(S)
  OBVIOUS
<1>2. Len(s) = 10 /\ Len(t) = 10
  OBVIOUS
<1>3. Len(s) = Len(t) /\ \A k \in 1..Len(s) : s[k] = t[k]
  BY <1>2
<1>. HIDE DEF s, t, S
<1>4. s = t
  BY <1>1, <1>3, SeqEqual
<1>. QED  BY <1>4 DEF s, t

LEMMA V3OutputNextJoined ==
    ASSUME NEW a, NEW b, NEW c, NEW d, NEW e, NEW f, NEW g, NEW h
    PROVE  <<>> \o <<a, b, c, d, e, f, g, h>>
             = <<a, b, c, d, e, f, g, h>>
OBVIOUS

\* each field of a handler that counts from o is where a field of its name is
Written(names, w, o, h) ==
    \A r \in h.fields : \E k \in 1..Len(names) : names[k] = r.name /\ w[k] = o + r.offset

\* where the fields lie whose whole value a swap takes, counted like those of
\* its handler
Spot(offset, field) == [offset |-> offset, field |-> field]

Shows(bytes, o, spots, i) == \A x \in spots : Holds(bytes, o + x.offset, x.field, i)

Spotted(fields, w, o, spots) ==
    \A x \in spots : \E k \in 1..Len(fields) : fields[k] = x.field /\ w[k] = o + x.offset

\* o: as for the stores of the contract
V2InputSpots(o, ing) ==
    {Spot(o + 1, OffOut(ing)), Spot(o + 2, F("pair", 20)), Spot(o + 22, F("out", 4))}
V2OutputSpots(o, ing) ==
    {Spot(o + 1, OffIn(ing)), Spot(o + 2, F("pair", 20)), Spot(o + 22, F("token", 20)),
     Spot(o + 42, F("in", 4))}
V2InputNextSpots(ing) == V2InputSpots(0, ing) \union {Spot(26, F("in", 5))}
V2OutputFirstSpots(ing) == V2OutputSpots(1, ing) \union {Spot(47, OffWethOut(ing))}
V2OutputNextSpots(ing) ==
    V2OutputSpots(0, ing) \union {Spot(46, F("out", 5)), Spot(51, OffWethOut(ing))}
V3InputSpots(ing) ==
    {Spot(2, F("pair", 20)), Spot(22, Shift(4, ing.shift)), Spot(23, F("out", 4)),
     Spot(27, F("hash", 32))}
V3InputWideSpots == {Spot(23, F("out", 5))}
V3OutputSpots(ing) ==
    {Spot(2, F("pair", 20)), Spot(22, Shift(5, ing.shift)), Spot(23, F("in", 5)),
     Spot(28, F("token", 20)), Spot(48, F("hash", 32))}
V3InputMultiSpots(ing) ==
    {Spot(1, F("pair", 20)), Spot(21, Shift(4, ing.wethShift)), Spot(22, F("in", 4)),
     Spot(26, Shift(5, ing.shift)), Spot(27, F("out", 5)), Spot(32, F("hash", 32))}
V3OutputMultiSpots(ing) ==
    {Spot(1, F("pair", 20)), Spot(21, Shift(4, ing.wethShift)), Spot(22, F("out", 4)),
     Spot(26, Shift(5, ing.shift)), Spot(27, F("in", 5)), Spot(32, F("token", 20)),
     Spot(52, F("hash", 32))}

LEMMA Shape ==
    ASSUME NEW fields \in Seq(Field), NEW i \in Nat, NEW names, NEW w, Named(fields, names, w),
           NEW o, NEW h, Written(names, w, o, h), NEW spots, Spotted(fields, w, o, spots)
    PROVE  /\ Laid(Bytes(fields, i), fields, i, w)
           /\ Finds(Bytes(fields, i), o, h, i)
           /\ Shows(Bytes(fields, i), o, spots, i)
<1>. DEFINE bytes == Bytes(fields, i)
<1>1. Laid(bytes, fields, i, w)
  BY FirstBytes
<1>. HIDE DEF bytes
<1>2. ASSUME NEW r \in h.fields
      PROVE  /\ o + r.offset + 1 \in 1..Len(bytes)
             /\ bytes[o + r.offset + 1].name = r.name
             /\ bytes[o + r.offset + 1].of = i
             /\ bytes[o + r.offset + 1].nth = 1
  <2>1. PICK k \in 1..Len(names) : names[k] = r.name /\ w[k] = o + r.offset
    BY <1>2 DEF Written
  <2>2. k \in 1..Len(fields) /\ fields[k].name = names[k]
    BY DEF Named
  <2>3. Begins(bytes, w[k] + 1, fields[k], i)
    BY <1>1, <2>2 DEF Laid
  <2>. QED  BY <2>1, <2>2, <2>3 DEF Begins
<1>3. Shows(bytes, o, spots, i)
  BY <1>1 DEF Laid, Shows, Spotted
<1>. QED  BY <1>1, <1>2, <1>3 DEF Finds, bytes

\* The parts of a payload of several, without a Boolean.
FirstV2(e, direction, ing) == <<Block>> \o V2Multi(e, direction, ing, TRUE)
LaterV2(e, direction, ing) == V2Multi(e, direction, ing, FALSE)
FirstV3(e, direction, ing) == <<Block>> \o V3Multi(e, direction, ing, TRUE)
LaterV3(e, direction, ing) == V3Multi(e, direction, ing, FALSE)

\* v2_input_single
LEMMA V2InputSingleLaid ==
    ASSUME NEW e \in Encoders, NEW ing \in Ingredient, NEW i \in Nat
    PROVE  LET bytes == Bytes(V2Single(e, "input", ing), i)
               g == "v2_input_single"
           IN  /\ V2Single(e, "input", ing) \in Seq(Field)
               /\ Len(bytes) = 27 /\ Begins(bytes, 1, Block, i)
               /\ Begins(bytes, 2, L("label", Label(e, g)), i)
               /\ Finds(bytes, 0, Handler(g), i)
               /\ Shows(bytes, 0, V2InputSpots(1, ing), i)
<1>. DEFINE g == "v2_input_single"
            fields == <<Block, L("label", Label(e, g)), OffOut(ing), F("pair", 20),
                        F("out", 4)>>
            names == <<"block", "label", "offOut", "pair", "out">>
            w == <<0, 1, 2, 3, 23, 27>>
            bytes == Bytes(fields, i)
<1>1. ing.weth0 \in BOOLEAN /\ g \in SwapGates /\ Handler(g) = V2SingleHandler("v2_input_single")
  BY GatesWritten, HandlersWritten DEF Ingredient
<1>2. V2Single(e, "input", ing) = fields
  BY DEF V2Single
<1>. HIDE DEF g
<1>3. fields \in Seq(Field)
  BY <1>1, FieldsWritten, LabelFields
<1>4. Named(fields, names, w)
  BY FieldsWritten DEF Named
<1>5. Written(names, w, 0, Handler(g))
  <2>1. Written(names, w, 0, V2SingleHandler("v2_input_single"))
    BY DEF Written, V2SingleHandler, Reads, R
  <2>. QED  BY <1>1, <2>1
<1>6. Spotted(fields, w, 0, V2InputSpots(1, ing))
  BY DEF Spotted, V2InputSpots, Spot
<1>7. /\ Laid(bytes, fields, i, w) /\ Finds(bytes, 0, Handler(g), i)
      /\ Shows(bytes, 0, V2InputSpots(1, ing), i)
  <2>. HIDE DEF fields, names, w
  <2>. QED  BY <1>3, <1>4, <1>5, <1>6, Shape
<1>8. Len(bytes) = w[6] /\ \A k \in 1..5 : Begins(bytes, w[k] + 1, fields[k], i)
  <2>1. Len(fields) = 5
    OBVIOUS
  <2>. HIDE DEF fields, names, w, bytes
  <2>. QED  BY <1>7, <2>1 DEF Laid
<1>. HIDE DEF bytes
<1>9. /\ Len(bytes) = 27 /\ Begins(bytes, 1, Block, i)
      /\ Begins(bytes, 2, L("label", Label(e, g)), i)
  BY <1>8
<1>. QED  BY <1>2, <1>3, <1>7, <1>9 DEF bytes, g

\* v2_output0_single, v2_output1_single
LEMMA V2OutputSingleLaid ==
    ASSUME NEW e \in Encoders, NEW ing \in Ingredient, NEW i \in Nat
    PROVE  LET bytes == Bytes(V2Single(e, "output", ing), i)
               g == Side(ing.weth0, "v2_output0_single", "v2_output1_single")
           IN  /\ V2Single(e, "output", ing) \in Seq(Field)
               /\ Len(bytes) = 47 /\ Begins(bytes, 1, Block, i)
               /\ Begins(bytes, 2, L("label", Label(e, g)), i)
               /\ Finds(bytes, 0, Handler(g), i)
               /\ Shows(bytes, 0, V2OutputSpots(1, ing), i)
<1>. DEFINE g == Side(ing.weth0, "v2_output0_single", "v2_output1_single")
            fields == <<Block, L("label", Label(e, g)), OffIn(ing), F("pair", 20),
                        F("token", 20), F("in", 4)>>
            names == <<"block", "label", "offIn", "pair", "token", "in">>
            w == <<0, 1, 2, 3, 23, 43, 47>>
            bytes == Bytes(fields, i)
<1>1. ing.weth0 \in BOOLEAN /\ g \in SwapGates /\ Handler(g) = V2SingleHandler("v2_output0_single")
  BY GatesWritten, HandlersWritten DEF Ingredient
<1>2. V2Single(e, "output", ing) = fields
  BY DEF V2Single
<1>. HIDE DEF g
<1>3. fields \in Seq(Field)
  BY <1>1, FieldsWritten, LabelFields
<1>4. Named(fields, names, w)
  BY FieldsWritten DEF Named
<1>5. Written(names, w, 0, Handler(g))
  <2>1. Written(names, w, 0, V2SingleHandler("v2_output0_single"))
    BY DEF Written, V2SingleHandler, Reads, R
  <2>. QED  BY <1>1, <2>1
<1>6. Spotted(fields, w, 0, V2OutputSpots(1, ing))
  BY DEF Spotted, V2OutputSpots, Spot
<1>7. /\ Laid(bytes, fields, i, w) /\ Finds(bytes, 0, Handler(g), i)
      /\ Shows(bytes, 0, V2OutputSpots(1, ing), i)
  <2>. HIDE DEF fields, names, w
  <2>. QED  BY <1>3, <1>4, <1>5, <1>6, Shape
<1>8. Len(bytes) = w[7] /\ \A k \in 1..6 : Begins(bytes, w[k] + 1, fields[k], i)
  <2>1. Len(fields) = 6
    OBVIOUS
  <2>. HIDE DEF fields, names, w, bytes
  <2>. QED  BY <1>7, <2>1 DEF Laid
<1>. HIDE DEF bytes
<1>9. /\ Len(bytes) = 47 /\ Begins(bytes, 1, Block, i)
      /\ Begins(bytes, 2, L("label", Label(e, g)), i)
  BY <1>8
<1>. QED  BY <1>2, <1>3, <1>7, <1>9 DEF bytes, g

\* v3_input0, v3_input1: what the tests write
LEMMA V3InputSingleLaid ==
    ASSUME NEW ing \in Ingredient, NEW i \in Nat
    PROVE  LET bytes == Bytes(V3Single("helper", "input", ing), i)
               g == V3Gate("input", ing.weth0)
           IN  /\ V3Single("helper", "input", ing) \in Seq(Field)
               /\ Len(bytes) = 59 /\ Begins(bytes, 1, Block, i)
               /\ Begins(bytes, 2, L("label", Label("helper", g)), i)
               /\ Finds(bytes, 0, Handler(g), i)
               /\ Shows(bytes, 0, V3InputSpots(ing), i)
<1>. DEFINE g == V3Gate("input", ing.weth0)
            fields == <<Block, L("label", Label("helper", g)), F("pair", 20),
                        Shift(4, ing.shift), F("out", 4), F("hash", 32)>>
            names == <<"block", "label", "pair", "shift", "out", "hash">>
            w == <<0, 1, 2, 22, 23, 27, 59>>
            bytes == Bytes(fields, i)
<1>1. ing.weth0 \in BOOLEAN /\ g \in SwapGates /\ Handler(g) = V3SingleHandler("v3_input0")
  BY GatesWritten, HandlersWritten DEF Ingredient
<1>2. V3Single("helper", "input", ing) = fields
  BY DEF V3Single, V3OutWidth
<1>. HIDE DEF g
<1>3. fields \in Seq(Field)
  <2>1. "helper" \in Encoders
    BY DEF Encoders
  <2>. QED  BY <1>1, <2>1, FieldsWritten, LabelFields
<1>4. Named(fields, names, w)
  BY FieldsWritten DEF Named
<1>5. Written(names, w, 0, Handler(g))
  <2>1. Written(names, w, 0, V3SingleHandler("v3_input0"))
    BY DEF Written, V3SingleHandler, Reads, R
  <2>. QED  BY <1>1, <2>1
<1>6. Spotted(fields, w, 0, V3InputSpots(ing))
  BY DEF Spotted, V3InputSpots, Spot
<1>7. /\ Laid(bytes, fields, i, w) /\ Finds(bytes, 0, Handler(g), i)
      /\ Shows(bytes, 0, V3InputSpots(ing), i)
  <2>. HIDE DEF fields, names, w
  <2>. QED  BY <1>3, <1>4, <1>5, <1>6, Shape
<1>8. Len(bytes) = w[7] /\ \A k \in 1..6 : Begins(bytes, w[k] + 1, fields[k], i)
  <2>1. Len(fields) = 6
    OBVIOUS
  <2>. HIDE DEF fields, names, w, bytes
  <2>. QED  BY <1>7, <2>1 DEF Laid
<1>. HIDE DEF bytes
<1>9. /\ Len(bytes) = 59 /\ Begins(bytes, 1, Block, i)
      /\ Begins(bytes, 2, L("label", Label("helper", g)), i)
  BY <1>8
<1>. QED  BY <1>2, <1>3, <1>7, <1>9 DEF bytes, g

\* v3_input0, v3_input1: what the bot writes, an amount one byte longer
LEMMA V3InputWideLaid ==
    ASSUME NEW ing \in Ingredient, NEW i \in Nat
    PROVE  LET bytes == Bytes(V3Single("bot", "input", ing), i)
               g == V3Gate("input", ing.weth0)
           IN  /\ V3Single("bot", "input", ing) \in Seq(Field)
               /\ Len(bytes) = 60 /\ Begins(bytes, 1, Block, i)
               /\ Begins(bytes, 2, L("label", Label("bot", g)), i)
               /\ Shows(bytes, 0, V3InputWideSpots, i)
<1>. DEFINE g == V3Gate("input", ing.weth0)
            fields == <<Block, L("label", Label("bot", g)), F("pair", 20),
                        Shift(5, ing.shift), F("out", 5), F("hash", 32)>>
            names == <<"block", "label", "pair", "shift", "out", "hash">>
            w == <<0, 1, 2, 22, 23, 28, 60>>
            bytes == Bytes(fields, i)
<1>1. ing.weth0 \in BOOLEAN /\ g \in SwapGates
  BY GatesWritten DEF Ingredient
<1>2. V3Single("bot", "input", ing) = fields
  BY DEF V3Single, V3OutWidth
<1>. HIDE DEF g
<1>3. fields \in Seq(Field)
  BY <1>1, FieldsWritten, LabelFields DEF Encoders
<1>4. Named(fields, names, w)
  BY FieldsWritten DEF Named
<1>5. Laid(bytes, fields, i, w)
  <2>. HIDE DEF fields, names, w
  <2>. QED  BY <1>3, <1>4, FirstBytes
<1>6. Shows(bytes, 0, V3InputWideSpots, i)
  <2>1. Len(fields) = 6 /\ 0 + 23 = w[5] /\ fields[5] = F("out", 5)
    OBVIOUS
  <2>. HIDE DEF fields, names, w, bytes
  <2>2. Holds(bytes, 0 + 23, F("out", 5), i)
    BY <1>5, <2>1 DEF Laid
  <2>. QED  BY <2>2 DEF Shows, V3InputWideSpots, Spot
<1>7. Len(bytes) = w[7] /\ \A k \in 1..6 : Begins(bytes, w[k] + 1, fields[k], i)
  <2>1. Len(fields) = 6
    OBVIOUS
  <2>. HIDE DEF fields, names, w, bytes
  <2>. QED  BY <1>5, <2>1 DEF Laid
<1>. HIDE DEF bytes
<1>8. /\ Len(bytes) = 60 /\ Begins(bytes, 1, Block, i)
      /\ Begins(bytes, 2, L("label", Label("bot", g)), i)
  BY <1>7
<1>. QED  BY <1>2, <1>3, <1>8, <1>6 DEF bytes, g

\* v3_output0, v3_output1
LEMMA V3OutputSingleLaid ==
    ASSUME NEW e \in Encoders, NEW ing \in Ingredient, NEW i \in Nat
    PROVE  LET bytes == Bytes(V3Single(e, "output", ing), i)
               g == V3Gate("output", ing.weth0)
           IN  /\ V3Single(e, "output", ing) \in Seq(Field)
               /\ Len(bytes) = 80 /\ Begins(bytes, 1, Block, i)
               /\ Begins(bytes, 2, L("label", Label(e, g)), i)
               /\ Finds(bytes, 0, Handler(g), i)
               /\ Shows(bytes, 0, V3OutputSpots(ing), i)
<1>. DEFINE g == V3Gate("output", ing.weth0)
            fields == <<Block, L("label", Label(e, g)), F("pair", 20),
                        Shift(5, ing.shift), F("in", 5), F("token", 20), F("hash", 32)>>
            names == <<"block", "label", "pair", "shift", "in", "token", "hash">>
            w == <<0, 1, 2, 22, 23, 28, 48, 80>>
            bytes == Bytes(fields, i)
<1>1. ing.weth0 \in BOOLEAN /\ g \in SwapGates /\ Handler(g) = V3SingleHandler("v3_output0")
  BY GatesWritten, HandlersWritten DEF Ingredient
<1>2. V3Single(e, "output", ing) = fields
  BY DEF V3Single, V3OutWidth
<1>. HIDE DEF g
<1>3. fields \in Seq(Field)
  BY <1>1, FieldsWritten, LabelFields
<1>4. Named(fields, names, w)
  BY FieldsWritten DEF Named
<1>5. Written(names, w, 0, Handler(g))
  <2>1. Written(names, w, 0, V3SingleHandler("v3_output0"))
    BY DEF Written, V3SingleHandler, Reads, R
  <2>. QED  BY <1>1, <2>1
<1>6. Spotted(fields, w, 0, V3OutputSpots(ing))
  BY DEF Spotted, V3OutputSpots, Spot
<1>7. /\ Laid(bytes, fields, i, w) /\ Finds(bytes, 0, Handler(g), i)
      /\ Shows(bytes, 0, V3OutputSpots(ing), i)
  <2>. HIDE DEF fields, names, w
  <2>. QED  BY <1>3, <1>4, <1>5, <1>6, Shape
<1>8. Len(bytes) = w[8] /\ \A k \in 1..7 : Begins(bytes, w[k] + 1, fields[k], i)
  <2>1. Len(fields) = 7
    OBVIOUS
  <2>. HIDE DEF fields, names, w, bytes
  <2>. QED  BY <1>7, <2>1 DEF Laid
<1>. HIDE DEF bytes
<1>9. /\ Len(bytes) = 80 /\ Begins(bytes, 1, Block, i)
      /\ Begins(bytes, 2, L("label", Label(e, g)), i)
  BY <1>8
<1>. QED  BY <1>2, <1>3, <1>7, <1>9 DEF bytes, g

\* v2_input_multi_first
LEMMA V2InputFirstLaid ==
    ASSUME NEW e \in Encoders, NEW ing \in Ingredient, NEW i \in Nat
    PROVE  LET bytes == Bytes(FirstV2(e, "input", ing), i)
               g == "v2_input_multi_first"
           IN  /\ FirstV2(e, "input", ing) \in Seq(Field)
               /\ Len(bytes) = 27 /\ Begins(bytes, 1, Block, i)
               /\ Begins(bytes, 2, L("label", Label(e, g)), i)
               /\ Finds(bytes, 0, Handler(g), i)
               /\ Shows(bytes, 0, V2InputSpots(1, ing), i)
<1>. DEFINE g == "v2_input_multi_first"
            fields == <<Block, L("label", Label(e, g)), OffOut(ing), F("pair", 20),
                        F("out", 4)>>
            names == <<"block", "label", "offOut", "pair", "out">>
            w == <<0, 1, 2, 3, 23, 27>>
            bytes == Bytes(fields, i)
<1>1. /\ ing.weth0 \in BOOLEAN /\ g \in SwapGates
      /\ Handler(g) = V2MultiHandler("v2_input_multi_first")
  BY GatesWritten, HandlersWritten DEF Ingredient, V2MultiGates
<1>2. FirstV2(e, "input", ing) = fields
  BY V2InputFirstJoined DEF FirstV2, V2Multi, V2MultiGate
<1>. HIDE DEF g
<1>3. fields \in Seq(Field)
  BY <1>1, FieldsWritten, LabelFields
<1>4. Named(fields, names, w)
  BY FieldsWritten DEF Named
<1>5. Written(names, w, 0, Handler(g))
  <2>1. Written(names, w, 0, V2MultiHandler("v2_input_multi_first"))
    BY DEF Written, V2MultiHandler, Reads, R
  <2>. QED  BY <1>1, <2>1
<1>6. Spotted(fields, w, 0, V2InputSpots(1, ing))
  BY DEF Spotted, V2InputSpots, Spot
<1>7. /\ Laid(bytes, fields, i, w) /\ Finds(bytes, 0, Handler(g), i)
      /\ Shows(bytes, 0, V2InputSpots(1, ing), i)
  <2>. HIDE DEF fields, names, w
  <2>. QED  BY <1>3, <1>4, <1>5, <1>6, Shape
<1>8. Len(bytes) = w[6] /\ \A k \in 1..5 : Begins(bytes, w[k] + 1, fields[k], i)
  <2>1. Len(fields) = 5
    OBVIOUS
  <2>. HIDE DEF fields, names, w, bytes
  <2>. QED  BY <1>7, <2>1 DEF Laid
<1>. HIDE DEF bytes
<1>9. /\ Len(bytes) = 27 /\ Begins(bytes, 1, Block, i)
      /\ Begins(bytes, 2, L("label", Label(e, g)), i)
  BY <1>8
<1>. QED  BY <1>2, <1>3, <1>7, <1>9 DEF bytes, g

\* v2_input_multi_next
LEMMA V2InputNextLaid ==
    ASSUME NEW e \in Encoders, NEW ing \in Ingredient, NEW i \in Nat
    PROVE  LET bytes == Bytes(LaterV2(e, "input", ing), i)
               g == "v2_input_multi_next"
           IN  /\ LaterV2(e, "input", ing) \in Seq(Field)
               /\ Len(bytes) = 31 /\ Begins(bytes, 1, L("label", Label(e, g)), i)
               /\ Finds(bytes, 0, Handler(g), i)
               /\ Shows(bytes, 0, V2InputNextSpots(ing), i)
<1>. DEFINE g == "v2_input_multi_next"
            fields == <<L("label", Label(e, g)), OffOut(ing), F("pair", 20),
                        F("out", 4), F("in", 5)>>
            names == <<"label", "offOut", "pair", "out", "in">>
            w == <<0, 1, 2, 22, 26, 31>>
            bytes == Bytes(fields, i)
<1>1. /\ ing.weth0 \in BOOLEAN /\ g \in SwapGates
      /\ Handler(g) = V2MultiHandler("v2_input_multi_next")
  BY GatesWritten, HandlersWritten DEF Ingredient, V2MultiGates
<1>2. LaterV2(e, "input", ing) = fields
  BY V2InputNextJoined DEF LaterV2, V2Multi, V2MultiGate
<1>. HIDE DEF g
<1>3. fields \in Seq(Field)
  BY <1>1, FieldsWritten, LabelFields
<1>4. Named(fields, names, w)
  BY FieldsWritten DEF Named
<1>5. Written(names, w, 0, Handler(g))
  <2>1. Written(names, w, 0, V2MultiHandler("v2_input_multi_next"))
    BY DEF Written, V2MultiHandler, Reads, R
  <2>. QED  BY <1>1, <2>1
<1>6. Spotted(fields, w, 0, V2InputNextSpots(ing))
  BY DEF Spotted, V2InputNextSpots, V2InputSpots, Spot
<1>7. /\ Laid(bytes, fields, i, w) /\ Finds(bytes, 0, Handler(g), i)
      /\ Shows(bytes, 0, V2InputNextSpots(ing), i)
  <2>. HIDE DEF fields, names, w
  <2>. QED  BY <1>3, <1>4, <1>5, <1>6, Shape
<1>8. Len(bytes) = w[6] /\ \A k \in 1..5 : Begins(bytes, w[k] + 1, fields[k], i)
  <2>1. Len(fields) = 5
    OBVIOUS
  <2>. HIDE DEF fields, names, w, bytes
  <2>. QED  BY <1>7, <2>1 DEF Laid
<1>. HIDE DEF bytes
<1>9. Len(bytes) = 31 /\ Begins(bytes, 1, L("label", Label(e, g)), i)
  BY <1>8
<1>. QED  BY <1>2, <1>3, <1>7, <1>9 DEF bytes, g

\* v2_output_multi_first
LEMMA V2OutputFirstLaid ==
    ASSUME NEW e \in Encoders, NEW ing \in Ingredient, NEW i \in Nat
    PROVE  LET bytes == Bytes(FirstV2(e, "output", ing), i)
               g == "v2_output_multi_first"
           IN  /\ FirstV2(e, "output", ing) \in Seq(Field)
               /\ Len(bytes) = 48 /\ Begins(bytes, 1, Block, i)
               /\ Begins(bytes, 2, L("label", Label(e, g)), i)
               /\ Finds(bytes, 0, Handler(g), i)
               /\ Shows(bytes, 0, V2OutputFirstSpots(ing), i)
<1>. DEFINE g == "v2_output_multi_first"
            fields == <<Block, L("label", Label(e, g)), OffIn(ing), F("pair", 20),
                        F("token", 20), F("in", 4), OffWethOut(ing)>>
            names == <<"block", "label", "offIn", "pair", "token", "in", "offOut">>
            w == <<0, 1, 2, 3, 23, 43, 47, 48>>
            bytes == Bytes(fields, i)
<1>1. /\ ing.weth0 \in BOOLEAN /\ g \in SwapGates
      /\ Handler(g) = V2MultiHandler("v2_output_multi_first")
  BY GatesWritten, HandlersWritten DEF Ingredient, V2MultiGates
<1>2. FirstV2(e, "output", ing) = fields
  <2>. DEFINE a == L("label", Label(e, g))
              b == OffIn(ing)
              c == F("pair", 20)
              d == F("token", 20)
              f == F("in", 4)
              h == OffWethOut(ing)
              block == Block
  <2>1. V2Multi(e, "output", ing, TRUE) = <<a, b, c, d, f>> \o <<>> \o <<h>>
    BY DEF V2Multi, V2MultiGate
  <2>2. <<block, a, b, c, d, f, h>> = fields
    OBVIOUS
  <2>. HIDE DEF a, b, c, d, f, h, block, fields
  <2>3. <<block>> \o (<<a, b, c, d, f>> \o <<>> \o <<h>>) = <<block, a, b, c, d, f, h>>
    <3>. DEFINE S == {a, b, c, d, f, h, block}
                s == <<block>> \o (<<a, b, c, d, f>> \o <<>> \o <<h>>)
                t == <<block, a, b, c, d, f, h>>
    <3>1. s \in Seq(S) /\ t \in Seq(S)
      OBVIOUS
    <3>2. Len(s) = 7 /\ Len(t) = 7
      OBVIOUS
    <3>3. Len(s) = Len(t) /\ \A k \in 1..Len(s) : s[k] = t[k]
      BY <3>2
    <3>. HIDE DEF s, t, S
    <3>4. s = t
      BY <3>1, <3>3, SeqEqual
    <3>. QED  BY <3>4 DEF s, t
  <2>4. <<block>> \o V2Multi(e, "output", ing, TRUE) = fields
    BY ONLY <2>1, <2>2, <2>3
  <2>. QED  BY <2>4 DEF block, FirstV2
<1>. HIDE DEF g
<1>3. fields \in Seq(Field)
  BY <1>1, FieldsWritten, LabelFields
<1>4. Named(fields, names, w)
  BY FieldsWritten DEF Named
<1>5. Written(names, w, 0, Handler(g))
  <2>1. Written(names, w, 0, V2MultiHandler("v2_output_multi_first"))
    BY DEF Written, V2MultiHandler, Reads, R
  <2>. QED  BY <1>1, <2>1
<1>6. Spotted(fields, w, 0, V2OutputFirstSpots(ing))
  BY DEF Spotted, V2OutputFirstSpots, V2OutputSpots, Spot
<1>7. /\ Laid(bytes, fields, i, w) /\ Finds(bytes, 0, Handler(g), i)
      /\ Shows(bytes, 0, V2OutputFirstSpots(ing), i)
  <2>. HIDE DEF fields, names, w
  <2>. QED  BY <1>3, <1>4, <1>5, <1>6, Shape
<1>8. Len(bytes) = w[8] /\ \A k \in 1..7 : Begins(bytes, w[k] + 1, fields[k], i)
  <2>1. Len(fields) = 7
    OBVIOUS
  <2>. HIDE DEF fields, names, w, bytes
  <2>. QED  BY <1>7, <2>1 DEF Laid
<1>. HIDE DEF bytes
<1>9. /\ Len(bytes) = 48 /\ Begins(bytes, 1, Block, i)
      /\ Begins(bytes, 2, L("label", Label(e, g)), i)
  BY <1>8
<1>. QED  BY <1>2, <1>3, <1>7, <1>9 DEF bytes, g

\* v2_output_multi_next
LEMMA V2OutputNextLaid ==
    ASSUME NEW e \in Encoders, NEW ing \in Ingredient, NEW i \in Nat
    PROVE  LET bytes == Bytes(LaterV2(e, "output", ing), i)
               g == "v2_output_multi_next"
           IN  /\ LaterV2(e, "output", ing) \in Seq(Field)
               /\ Len(bytes) = 52 /\ Begins(bytes, 1, L("label", Label(e, g)), i)
               /\ Finds(bytes, 0, Handler(g), i)
               /\ Shows(bytes, 0, V2OutputNextSpots(ing), i)
<1>. DEFINE g == "v2_output_multi_next"
            fields == <<L("label", Label(e, g)), OffIn(ing), F("pair", 20),
                        F("token", 20), F("in", 4), F("out", 5), OffWethOut(ing)>>
            names == <<"label", "offIn", "pair", "token", "in", "out", "offOut">>
            w == <<0, 1, 2, 22, 42, 46, 51, 52>>
            bytes == Bytes(fields, i)
<1>1. /\ ing.weth0 \in BOOLEAN /\ g \in SwapGates
      /\ Handler(g) = V2MultiHandler("v2_output_multi_next")
  BY GatesWritten, HandlersWritten DEF Ingredient, V2MultiGates
<1>2. LaterV2(e, "output", ing) = fields
  <2>. DEFINE a == L("label", Label(e, g))
              b == OffIn(ing)
              c == F("pair", 20)
              d == F("token", 20)
              f == F("in", 4)
              h == F("out", 5)
              last == OffWethOut(ing)
  <2>1. V2Multi(e, "output", ing, FALSE) = <<a, b, c, d, f>> \o <<h>> \o <<last>>
    BY DEF V2Multi, V2MultiGate
  <2>2. <<a, b, c, d, f, h, last>> = fields
    OBVIOUS
  <2>. HIDE DEF a, b, c, d, f, h, last, fields
  <2>3. <<a, b, c, d, f>> \o <<h>> \o <<last>> = <<a, b, c, d, f, h, last>>
    BY ONLY V2OutputNextJoined
  <2>. QED  BY ONLY <2>1, <2>2, <2>3 DEF LaterV2
<1>. HIDE DEF g
<1>3. fields \in Seq(Field)
  BY <1>1, FieldsWritten, LabelFields
<1>4. Named(fields, names, w)
  BY FieldsWritten DEF Named
<1>5. Written(names, w, 0, Handler(g))
  <2>1. Written(names, w, 0, V2MultiHandler("v2_output_multi_next"))
    BY DEF Written, V2MultiHandler, Reads, R
  <2>. QED  BY <1>1, <2>1
<1>6. Spotted(fields, w, 0, V2OutputNextSpots(ing))
  BY DEF Spotted, V2OutputNextSpots, V2OutputSpots, Spot
<1>7. /\ Laid(bytes, fields, i, w) /\ Finds(bytes, 0, Handler(g), i)
      /\ Shows(bytes, 0, V2OutputNextSpots(ing), i)
  <2>. HIDE DEF fields, names, w
  <2>. QED  BY <1>3, <1>4, <1>5, <1>6, Shape
<1>8. Len(bytes) = w[8] /\ \A k \in 1..7 : Begins(bytes, w[k] + 1, fields[k], i)
  <2>1. Len(fields) = 7
    OBVIOUS
  <2>. HIDE DEF fields, names, w, bytes
  <2>. QED  BY <1>7, <2>1 DEF Laid
<1>. HIDE DEF bytes
<1>9. Len(bytes) = 52 /\ Begins(bytes, 1, L("label", Label(e, g)), i)
  BY <1>8
<1>. QED  BY <1>2, <1>3, <1>7, <1>9 DEF bytes, g

\* prepare_stack, v3_input0_multi, v3_input1_multi
LEMMA V3InputFirstLaid ==
    ASSUME NEW e \in Encoders, NEW ing \in Ingredient, NEW i \in Nat
    PROVE  LET bytes == Bytes(FirstV3(e, "input", ing), i)
               g == V3MultiGate("input", ing.weth0)
           IN  /\ FirstV3(e, "input", ing) \in Seq(Field)
               /\ Len(bytes) = 66 /\ Begins(bytes, 1, Block, i)
               /\ Begins(bytes, 2, L("prepare", Label(e, "prepare_stack")), i)
               /\ Begins(bytes, 3, L("label", Label(e, g)), i)
               /\ Finds(bytes, 2, Handler(g), i)
               /\ Shows(bytes, 2, V3InputMultiSpots(ing), i)
<1>. DEFINE g == V3MultiGate("input", ing.weth0)
            fields == <<Block, L("prepare", Label(e, "prepare_stack")),
                        L("label", Label(e, g)), F("pair", 20),
                        Shift(4, ing.wethShift), F("in", 4), Shift(5, ing.shift),
                        F("out", 5), F("hash", 32)>>
            names == <<"block", "prepare", "label", "pair", "shift", "in", "shift", "out", "hash">>
            w == <<0, 1, 2, 3, 23, 24, 28, 29, 34, 66>>
            bytes == Bytes(fields, i)
<1>1. ing.weth0 \in BOOLEAN /\ g \in SwapGates /\ Handler(g) = V3MultiHandler("v3_input0_multi")
  BY GatesWritten, HandlersWritten DEF Ingredient
<1>2. FirstV3(e, "input", ing) = fields
  BY V3InputFirstJoined DEF FirstV3, V3Multi
<1>. HIDE DEF g
<1>3. fields \in Seq(Field)
  BY <1>1, FieldsWritten, LabelFields
<1>4. Named(fields, names, w)
  BY FieldsWritten DEF Named
<1>5. Written(names, w, 2, Handler(g))
  <2>1. Written(names, w, 2, V3MultiHandler("v3_input0_multi"))
    BY DEF Written, V3MultiHandler, Reads, R
  <2>. QED  BY <1>1, <2>1
<1>6. Spotted(fields, w, 2, V3InputMultiSpots(ing))
  BY DEF Spotted, V3InputMultiSpots, Spot
<1>7. /\ Laid(bytes, fields, i, w) /\ Finds(bytes, 2, Handler(g), i)
      /\ Shows(bytes, 2, V3InputMultiSpots(ing), i)
  <2>. HIDE DEF fields, names, w
  <2>. QED  BY <1>3, <1>4, <1>5, <1>6, Shape
<1>8. Len(bytes) = w[10] /\ \A k \in 1..9 : Begins(bytes, w[k] + 1, fields[k], i)
  <2>1. Len(fields) = 9
    OBVIOUS
  <2>. HIDE DEF fields, names, w, bytes
  <2>. QED  BY <1>7, <2>1 DEF Laid
<1>. HIDE DEF bytes
<1>9. /\ Len(bytes) = 66 /\ Begins(bytes, 1, Block, i)
      /\ Begins(bytes, 2, L("prepare", Label(e, "prepare_stack")), i)
      /\ Begins(bytes, 3, L("label", Label(e, g)), i)
  BY <1>8
<1>. QED  BY <1>2, <1>3, <1>7, <1>9 DEF bytes, g

\* v3_input0_multi, v3_input1_multi
LEMMA V3InputNextLaid ==
    ASSUME NEW e \in Encoders, NEW ing \in Ingredient, NEW i \in Nat
    PROVE  LET bytes == Bytes(LaterV3(e, "input", ing), i)
               g == V3MultiGate("input", ing.weth0)
           IN  /\ LaterV3(e, "input", ing) \in Seq(Field)
               /\ Len(bytes) = 64 /\ Begins(bytes, 1, L("label", Label(e, g)), i)
               /\ Finds(bytes, 0, Handler(g), i)
               /\ Shows(bytes, 0, V3InputMultiSpots(ing), i)
<1>. DEFINE g == V3MultiGate("input", ing.weth0)
            fields == <<L("label", Label(e, g)), F("pair", 20),
                        Shift(4, ing.wethShift), F("in", 4), Shift(5, ing.shift),
                        F("out", 5), F("hash", 32)>>
            names == <<"label", "pair", "shift", "in", "shift", "out", "hash">>
            w == <<0, 1, 21, 22, 26, 27, 32, 64>>
            bytes == Bytes(fields, i)
<1>1. ing.weth0 \in BOOLEAN /\ g \in SwapGates /\ Handler(g) = V3MultiHandler("v3_input0_multi")
  BY GatesWritten, HandlersWritten DEF Ingredient
<1>2. LaterV3(e, "input", ing) = fields
  BY V3InputNextJoined DEF LaterV3, V3Multi
<1>. HIDE DEF g
<1>3. fields \in Seq(Field)
  BY <1>1, FieldsWritten, LabelFields
<1>4. Named(fields, names, w)
  BY FieldsWritten DEF Named
<1>5. Written(names, w, 0, Handler(g))
  <2>1. Written(names, w, 0, V3MultiHandler("v3_input0_multi"))
    BY DEF Written, V3MultiHandler, Reads, R
  <2>. QED  BY <1>1, <2>1
<1>6. Spotted(fields, w, 0, V3InputMultiSpots(ing))
  BY DEF Spotted, V3InputMultiSpots, Spot
<1>7. /\ Laid(bytes, fields, i, w) /\ Finds(bytes, 0, Handler(g), i)
      /\ Shows(bytes, 0, V3InputMultiSpots(ing), i)
  <2>. HIDE DEF fields, names, w
  <2>. QED  BY <1>3, <1>4, <1>5, <1>6, Shape
<1>8. Len(bytes) = w[8] /\ \A k \in 1..7 : Begins(bytes, w[k] + 1, fields[k], i)
  <2>1. Len(fields) = 7
    OBVIOUS
  <2>. HIDE DEF fields, names, w, bytes
  <2>. QED  BY <1>7, <2>1 DEF Laid
<1>. HIDE DEF bytes
<1>9. Len(bytes) = 64 /\ Begins(bytes, 1, L("label", Label(e, g)), i)
  BY <1>8
<1>. QED  BY <1>2, <1>3, <1>7, <1>9 DEF bytes, g

\* prepare_stack, v3_output0_multi, v3_output1_multi
LEMMA V3OutputFirstLaid ==
    ASSUME NEW e \in Encoders, NEW ing \in Ingredient, NEW i \in Nat
    PROVE  LET bytes == Bytes(FirstV3(e, "output", ing), i)
               g == V3MultiGate("output", ing.weth0)
           IN  /\ FirstV3(e, "output", ing) \in Seq(Field)
               /\ Len(bytes) = 86 /\ Begins(bytes, 1, Block, i)
               /\ Begins(bytes, 2, L("prepare", Label(e, "prepare_stack")), i)
               /\ Begins(bytes, 3, L("label", Label(e, g)), i)
               /\ Finds(bytes, 2, Handler(g), i)
               /\ Shows(bytes, 2, V3OutputMultiSpots(ing), i)
<1>. DEFINE g == V3MultiGate("output", ing.weth0)
            fields == <<Block, L("prepare", Label(e, "prepare_stack")),
                        L("label", Label(e, g)), F("pair", 20),
                        Shift(4, ing.wethShift), F("out", 4), Shift(5, ing.shift),
                        F("in", 5), F("token", 20), F("hash", 32)>>
            names == <<"block", "prepare", "label", "pair", "shift", "out", "shift", "in",
                       "token", "hash">>
            w == <<0, 1, 2, 3, 23, 24, 28, 29, 34, 54, 86>>
            bytes == Bytes(fields, i)
<1>1. ing.weth0 \in BOOLEAN /\ g \in SwapGates /\ Handler(g) = V3MultiHandler("v3_output0_multi")
  BY GatesWritten, HandlersWritten DEF Ingredient
<1>2. FirstV3(e, "output", ing) = fields
  BY V3OutputFirstJoined DEF FirstV3, V3Multi
<1>. HIDE DEF g
<1>3. fields \in Seq(Field)
  BY <1>1, FieldsWritten, LabelFields
<1>4. Named(fields, names, w)
  BY FieldsWritten DEF Named
<1>5. Written(names, w, 2, Handler(g))
  <2>1. Written(names, w, 2, V3MultiHandler("v3_output0_multi"))
    BY DEF Written, V3MultiHandler, Reads, R
  <2>. QED  BY <1>1, <2>1
<1>6. Spotted(fields, w, 2, V3OutputMultiSpots(ing))
  BY DEF Spotted, V3OutputMultiSpots, Spot
<1>7. /\ Laid(bytes, fields, i, w) /\ Finds(bytes, 2, Handler(g), i)
      /\ Shows(bytes, 2, V3OutputMultiSpots(ing), i)
  <2>. HIDE DEF fields, names, w
  <2>. QED  BY <1>3, <1>4, <1>5, <1>6, Shape
<1>8. Len(bytes) = w[11] /\ \A k \in 1..10 : Begins(bytes, w[k] + 1, fields[k], i)
  <2>1. Len(fields) = 10
    OBVIOUS
  <2>. HIDE DEF fields, names, w, bytes
  <2>. QED  BY <1>7, <2>1 DEF Laid
<1>. HIDE DEF bytes
<1>9. /\ Len(bytes) = 86 /\ Begins(bytes, 1, Block, i)
      /\ Begins(bytes, 2, L("prepare", Label(e, "prepare_stack")), i)
      /\ Begins(bytes, 3, L("label", Label(e, g)), i)
  BY <1>8
<1>. QED  BY <1>2, <1>3, <1>7, <1>9 DEF bytes, g

\* v3_output0_multi, v3_output1_multi
LEMMA V3OutputNextLaid ==
    ASSUME NEW e \in Encoders, NEW ing \in Ingredient, NEW i \in Nat
    PROVE  LET bytes == Bytes(LaterV3(e, "output", ing), i)
               g == V3MultiGate("output", ing.weth0)
           IN  /\ LaterV3(e, "output", ing) \in Seq(Field)
               /\ Len(bytes) = 84 /\ Begins(bytes, 1, L("label", Label(e, g)), i)
               /\ Finds(bytes, 0, Handler(g), i)
               /\ Shows(bytes, 0, V3OutputMultiSpots(ing), i)
<1>. DEFINE g == V3MultiGate("output", ing.weth0)
            fields == <<L("label", Label(e, g)), F("pair", 20),
                        Shift(4, ing.wethShift), F("out", 4), Shift(5, ing.shift),
                        F("in", 5), F("token", 20), F("hash", 32)>>
            names == <<"label", "pair", "shift", "out", "shift", "in", "token", "hash">>
            w == <<0, 1, 21, 22, 26, 27, 32, 52, 84>>
            bytes == Bytes(fields, i)
<1>1. ing.weth0 \in BOOLEAN /\ g \in SwapGates /\ Handler(g) = V3MultiHandler("v3_output0_multi")
  BY GatesWritten, HandlersWritten DEF Ingredient
<1>2. LaterV3(e, "output", ing) = fields
  BY V3OutputNextJoined DEF LaterV3, V3Multi
<1>. HIDE DEF g
<1>3. fields \in Seq(Field)
  BY <1>1, FieldsWritten, LabelFields
<1>4. Named(fields, names, w)
  BY FieldsWritten DEF Named
<1>5. Written(names, w, 0, Handler(g))
  <2>1. Written(names, w, 0, V3MultiHandler("v3_output0_multi"))
    BY DEF Written, V3MultiHandler, Reads, R
  <2>. QED  BY <1>1, <2>1
<1>6. Spotted(fields, w, 0, V3OutputMultiSpots(ing))
  BY DEF Spotted, V3OutputMultiSpots, Spot
<1>7. /\ Laid(bytes, fields, i, w) /\ Finds(bytes, 0, Handler(g), i)
      /\ Shows(bytes, 0, V3OutputMultiSpots(ing), i)
  <2>. HIDE DEF fields, names, w
  <2>. QED  BY <1>3, <1>4, <1>5, <1>6, Shape
<1>8. Len(bytes) = w[9] /\ \A k \in 1..8 : Begins(bytes, w[k] + 1, fields[k], i)
  <2>1. Len(fields) = 8
    OBVIOUS
  <2>. HIDE DEF fields, names, w, bytes
  <2>. QED  BY <1>7, <2>1 DEF Laid
<1>. HIDE DEF bytes
<1>9. Len(bytes) = 84 /\ Begins(bytes, 1, L("label", Label(e, g)), i)
  BY <1>8
<1>. QED  BY <1>2, <1>3, <1>7, <1>9 DEF bytes, g

-----------------------------------------------------------------------------
(* The part of an ingredient in its payload.                               *)

Alone(c) == Len(c.ingredients) = 1

\* the gate that swaps ingredient i
GateOf(c, i) ==
    LET ing == c.ingredients[i]
    IN  IF ing.variant = "v2"
        THEN IF ~Alone(c) THEN V2MultiGate(c.direction, i = 1)
             ELSE IF c.direction = "input" THEN "v2_input_single"
             ELSE Side(ing.weth0, "v2_output0_single", "v2_output1_single")
        ELSE IF Alone(c) THEN V3Gate(c.direction, ing.weth0)
                         ELSE V3MultiGate(c.direction, ing.weth0)

\* the payloads whose first swap needs a position on the stack
Prepares(c) == ~Alone(c) /\ c.ingredients[1].variant = "v3"

\* the bytes in front of those that the handler of ingredient i counts
Ahead(c, i) == IF i = 1 /\ Prepares(c) THEN 2 ELSE 0

\* the frontrun of V3 whose amount the bot writes one byte longer
Wide(c) == /\ Alone(c) /\ c.encoder = "bot" /\ c.direction = "input"
           /\ c.ingredients[1].variant = "v3"

\* the contract can go on to ingredient i: the bot's later ones begin with a
\* block number
Reachable(c, i) == c.encoder = "helper" \/ i = 1

GateLabel(c, i) == L("label", Label(c.encoder, GateOf(c, i)))

Entered(bytes, c, i) ==
    IF i = 1
    THEN /\ Begins(bytes, 1, Block, i)
         /\ IF Prepares(c)
            THEN /\ Begins(bytes, 2, L("prepare", Label(c.encoder, "prepare_stack")), i)
                 /\ Begins(bytes, 3, GateLabel(c, i), i)
            ELSE Begins(bytes, 2, GateLabel(c, i), i)
    ELSE Begins(bytes, 1, GateLabel(c, i), i)

Spots(c, i) ==
    LET ing == c.ingredients[i]
    IN  IF ing.variant = "v2"
        THEN IF c.direction = "input"
             THEN IF i = 1 THEN V2InputSpots(1, ing) ELSE V2InputNextSpots(ing)
             ELSE IF Alone(c) THEN V2OutputSpots(1, ing)
             ELSE IF i = 1 THEN V2OutputFirstSpots(ing) ELSE V2OutputNextSpots(ing)
        ELSE IF c.direction = "input"
             THEN IF Wide(c) THEN V3InputWideSpots
                  ELSE IF Alone(c) THEN V3InputSpots(ing) ELSE V3InputMultiSpots(ing)
             ELSE IF Alone(c) THEN V3OutputSpots(ing) ELSE V3OutputMultiSpots(ing)

PartLaid(bytes, c, i) ==
    /\ Entered(bytes, c, i)
    /\ Shows(bytes, Ahead(c, i), Spots(c, i), i)
    /\ ~Wide(c) => Finds(bytes, Ahead(c, i), Handler(GateOf(c, i)), i)
    /\ ~Alone(c) => Ahead(c, i) + Handler(GateOf(c, i)).next = Len(bytes)

IsSandwich(c) == IsPayload(c) /\ c.direction # "recover"

LEMMA SandwichFacts ==
    ASSUME NEW c, IsSandwich(c)
    PROVE  /\ c.encoder \in Encoders /\ c.direction \in {"input", "output"}
           /\ c.ingredients \in Seq(Ingredient) /\ Len(c.ingredients) \in Nat \ {0}
           /\ DOMAIN c.ingredients = 1..Len(c.ingredients)
           /\ \A i \in 1..Len(c.ingredients) :
                 /\ c.ingredients[i] \in Ingredient
                 /\ c.ingredients[i].variant \in {"v2", "v3"}
                 /\ c.ingredients[i].weth0 \in BOOLEAN
<1>1. c.encoder \in Encoders /\ c.direction \in Directions /\ c.ingredients \in Seq(Ingredient)
  BY DEF IsSandwich, IsPayload
<1>2. c.direction \in {"input", "output"} /\ c.ingredients # <<>>
  BY <1>1 DEF IsSandwich, IsPayload, Directions
<1>3. \A s \in Seq(Ingredient) : /\ DOMAIN s = 1..Len(s) /\ Len(s) \in Nat
                                 /\ s # <<>> => Len(s) # 0
                                 /\ \A i \in 1..Len(s) : s[i] \in Ingredient
  OBVIOUS
<1>4. \A ing \in Ingredient : ing.variant \in {"v2", "v3"} /\ ing.weth0 \in BOOLEAN
  BY DEF Ingredient, Variants
<1>. QED  BY <1>1, <1>2, <1>3, <1>4

\* where a handler of several jumps on
LEMMA NextWritten ==
    /\ Handler("v2_input_multi_first").next = 27
    /\ Handler("v2_input_multi_next").next = 31
    /\ Handler("v2_output_multi_first").next = 48
    /\ Handler("v2_output_multi_next").next = 52
    /\ \A w \in BOOLEAN : /\ Handler(V3MultiGate("input", w)).next = 64
                          /\ Handler(V3MultiGate("output", w)).next = 84
<1>1. /\ V2MultiHandler("v2_input_multi_first").next = 27
      /\ V2MultiHandler("v2_input_multi_next").next = 31
      /\ V2MultiHandler("v2_output_multi_first").next = 48
      /\ V2MultiHandler("v2_output_multi_next").next = 52
  BY DEF V2MultiHandler, Reads
<1>2. V3MultiHandler("v3_input0_multi").next = 64 /\ V3MultiHandler("v3_output0_multi").next = 84
  BY DEF V3MultiHandler, Reads
<1>. QED  BY <1>1, <1>2, HandlersWritten

LEMMA AlonePartLaid ==
    ASSUME NEW c, IsSandwich(c), Alone(c)
    PROVE  Fields(c, 1) \in Seq(Field) /\ PartLaid(Bytes(Fields(c, 1), 1), c, 1)
<1>. DEFINE e == c.encoder
            ing == c.ingredients[1]
<1>0. /\ e \in Encoders /\ c.direction \in {"input", "output"} /\ ing \in Ingredient
      /\ ing.variant \in {"v2", "v3"} /\ ing.weth0 \in BOOLEAN /\ 1 \in Nat
  BY SandwichFacts DEF Alone
<1>1. CASE ing.variant = "v2" /\ c.direction = "input"
  <2>1. Fields(c, 1) = V2Single(e, "input", ing) /\ GateOf(c, 1) = "v2_input_single"
        /\ ~Prepares(c) /\ Ahead(c, 1) = 0 /\ Spots(c, 1) = V2InputSpots(1, ing)
    BY <1>1 DEF Spots, Fields, GateOf, Alone, Prepares, Ahead
  <2>. HIDE DEF e, ing
  <2>. QED  BY <1>0, <2>1, V2InputSingleLaid DEF PartLaid, Entered, GateLabel, e
<1>2. CASE ing.variant = "v2" /\ c.direction = "output"
  <2>1. Fields(c, 1) = V2Single(e, "output", ing)
        /\ GateOf(c, 1) = Side(ing.weth0, "v2_output0_single", "v2_output1_single")
        /\ ~Prepares(c) /\ Ahead(c, 1) = 0 /\ Spots(c, 1) = V2OutputSpots(1, ing)
    BY <1>2 DEF Spots, Fields, GateOf, Alone, Prepares, Ahead
  <2>. HIDE DEF e, ing
  <2>. QED  BY <1>0, <2>1, V2OutputSingleLaid DEF PartLaid, Entered, GateLabel, e
<1>3. CASE ing.variant = "v3" /\ c.direction = "input"
  <2>1. Fields(c, 1) = V3Single(e, "input", ing) /\ GateOf(c, 1) = V3Gate("input", ing.weth0)
        /\ ~Prepares(c) /\ Ahead(c, 1) = 0
        /\ Spots(c, 1) = IF Wide(c) THEN V3InputWideSpots ELSE V3InputSpots(ing)
    BY <1>3 DEF Spots, Fields, GateOf, Alone, Prepares, Ahead
  <2>2. CASE e = "helper"
    <3>1. ~Wide(c)
      BY <2>2 DEF Wide
    <3>. HIDE DEF e, ing
    <3>. QED  BY <1>0, <2>1, <2>2, <3>1, V3InputSingleLaid DEF PartLaid, Entered, GateLabel, e
  <2>3. CASE e = "bot"
    <3>1. Wide(c)
      BY <1>3, <2>3 DEF Wide
    <3>. HIDE DEF e, ing
    <3>. QED  BY <1>0, <2>1, <2>3, <3>1, V3InputWideLaid DEF PartLaid, Entered, GateLabel, e
  <2>. QED  BY <1>0, <2>2, <2>3 DEF Encoders
<1>4. CASE ing.variant = "v3" /\ c.direction = "output"
  <2>1. Fields(c, 1) = V3Single(e, "output", ing) /\ GateOf(c, 1) = V3Gate("output", ing.weth0)
        /\ ~Prepares(c) /\ Ahead(c, 1) = 0 /\ Spots(c, 1) = V3OutputSpots(ing)
    BY <1>4 DEF Spots, Fields, GateOf, Alone, Prepares, Ahead
  <2>. HIDE DEF e, ing
  <2>. QED  BY <1>0, <2>1, V3OutputSingleLaid DEF PartLaid, Entered, GateLabel, e
<1>. QED  BY <1>0, <1>1, <1>2, <1>3, <1>4

LEMMA FirstPartLaid ==
    ASSUME NEW c, IsSandwich(c), ~Alone(c)
    PROVE  Fields(c, 1) \in Seq(Field) /\ PartLaid(Bytes(Fields(c, 1), 1), c, 1)
<1>. DEFINE e == c.encoder
            ing == c.ingredients[1]
<1>0. /\ e \in Encoders /\ c.direction \in {"input", "output"} /\ ing \in Ingredient
      /\ ing.variant \in {"v2", "v3"} /\ ing.weth0 \in BOOLEAN /\ 1 \in Nat /\ ~Wide(c)
  BY SandwichFacts DEF Alone, Wide
<1>1. CASE ing.variant = "v2" /\ c.direction = "input"
  <2>1. Fields(c, 1) = FirstV2(e, "input", ing)
        /\ GateOf(c, 1) = "v2_input_multi_first"
        /\ ~Prepares(c) /\ Ahead(c, 1) = 0 /\ Spots(c, 1) = V2InputSpots(1, ing)
    BY <1>0, <1>1 DEF Spots, Fields, Part, GateOf, Alone, Prepares, Ahead, V2MultiGate, FirstV2, FirstV3
  <2>2. Handler(GateOf(c, 1)).next = 27
    BY <1>0, <2>1, NextWritten
  <2>. DEFINE bytes == Bytes(Fields(c, 1), 1)
  <2>3. /\ Fields(c, 1) \in Seq(Field) /\ Len(bytes) = 27
        /\ Begins(bytes, 1, Block, 1) /\ Begins(bytes, 2, GateLabel(c, 1), 1)
        /\ Finds(bytes, 0, Handler(GateOf(c, 1)), 1)
        /\ Shows(bytes, 0, Spots(c, 1), 1)
    <3>. HIDE DEF e, ing
    <3>. QED  BY <1>0, <2>1, V2InputFirstLaid DEF GateLabel, e
  <2>. HIDE DEF bytes
  <2>4. PartLaid(bytes, c, 1)
    BY <2>1, <2>2, <2>3 DEF PartLaid, Entered
  <2>. QED  BY <2>3, <2>4 DEF bytes
<1>2. CASE ing.variant = "v2" /\ c.direction = "output"
  <2>1. Fields(c, 1) = FirstV2(e, "output", ing)
        /\ GateOf(c, 1) = "v2_output_multi_first"
        /\ ~Prepares(c) /\ Ahead(c, 1) = 0 /\ Spots(c, 1) = V2OutputFirstSpots(ing)
    BY <1>0, <1>2 DEF Spots, Fields, Part, GateOf, Alone, Prepares, Ahead, V2MultiGate, FirstV2, FirstV3
  <2>2. Handler(GateOf(c, 1)).next = 48
    BY <1>0, <2>1, NextWritten
  <2>. DEFINE bytes == Bytes(Fields(c, 1), 1)
  <2>3. /\ Fields(c, 1) \in Seq(Field) /\ Len(bytes) = 48
        /\ Begins(bytes, 1, Block, 1) /\ Begins(bytes, 2, GateLabel(c, 1), 1)
        /\ Finds(bytes, 0, Handler(GateOf(c, 1)), 1)
        /\ Shows(bytes, 0, Spots(c, 1), 1)
    <3>. HIDE DEF e, ing
    <3>. QED  BY <1>0, <2>1, V2OutputFirstLaid DEF GateLabel, e
  <2>. HIDE DEF bytes
  <2>4. PartLaid(bytes, c, 1)
    BY <2>1, <2>2, <2>3 DEF PartLaid, Entered
  <2>. QED  BY <2>3, <2>4 DEF bytes
<1>3. CASE ing.variant = "v3" /\ c.direction = "input"
  <2>1. Fields(c, 1) = FirstV3(e, "input", ing)
        /\ GateOf(c, 1) = V3MultiGate("input", ing.weth0)
        /\ Prepares(c) /\ Ahead(c, 1) = 2 /\ Spots(c, 1) = V3InputMultiSpots(ing)
    BY <1>0, <1>3 DEF Spots, Fields, Part, GateOf, Alone, Prepares, Ahead, V2MultiGate, FirstV2, FirstV3
  <2>2. Handler(GateOf(c, 1)).next = 64
    BY <1>0, <2>1, NextWritten
  <2>. DEFINE bytes == Bytes(Fields(c, 1), 1)
  <2>3. /\ Fields(c, 1) \in Seq(Field) /\ Len(bytes) = 66
        /\ Begins(bytes, 1, Block, 1)
        /\ Begins(bytes, 2, L("prepare", Label(e, "prepare_stack")), 1)
        /\ Begins(bytes, 3, GateLabel(c, 1), 1)
        /\ Finds(bytes, 2, Handler(GateOf(c, 1)), 1)
        /\ Shows(bytes, 2, Spots(c, 1), 1)
    <3>. HIDE DEF e, ing
    <3>. QED  BY <1>0, <2>1, V3InputFirstLaid DEF GateLabel, e
  <2>. HIDE DEF bytes
  <2>4. PartLaid(bytes, c, 1)
    BY <2>1, <2>2, <2>3 DEF PartLaid, Entered
  <2>. QED  BY <2>3, <2>4 DEF bytes
<1>4. CASE ing.variant = "v3" /\ c.direction = "output"
  <2>1. Fields(c, 1) = FirstV3(e, "output", ing)
        /\ GateOf(c, 1) = V3MultiGate("output", ing.weth0)
        /\ Prepares(c) /\ Ahead(c, 1) = 2 /\ Spots(c, 1) = V3OutputMultiSpots(ing)
    BY <1>0, <1>4 DEF Spots, Fields, Part, GateOf, Alone, Prepares, Ahead, V2MultiGate, FirstV2, FirstV3
  <2>2. Handler(GateOf(c, 1)).next = 84
    BY <1>0, <2>1, NextWritten
  <2>. DEFINE bytes == Bytes(Fields(c, 1), 1)
  <2>3. /\ Fields(c, 1) \in Seq(Field) /\ Len(bytes) = 86
        /\ Begins(bytes, 1, Block, 1)
        /\ Begins(bytes, 2, L("prepare", Label(e, "prepare_stack")), 1)
        /\ Begins(bytes, 3, GateLabel(c, 1), 1)
        /\ Finds(bytes, 2, Handler(GateOf(c, 1)), 1)
        /\ Shows(bytes, 2, Spots(c, 1), 1)
    <3>. HIDE DEF e, ing
    <3>. QED  BY <1>0, <2>1, V3OutputFirstLaid DEF GateLabel, e
  <2>. HIDE DEF bytes
  <2>4. PartLaid(bytes, c, 1)
    BY <2>1, <2>2, <2>3 DEF PartLaid, Entered
  <2>. QED  BY <2>3, <2>4 DEF bytes
<1>. QED  BY <1>0, <1>1, <1>2, <1>3, <1>4

\* A later ingredient, of the tests and then of the bot, whose part begins with
\* the number of the block.
Later(c, i) ==
    LET ing == c.ingredients[i]
    IN  IF ing.variant = "v2" THEN LaterV2(c.encoder, c.direction, ing)
                              ELSE LaterV3(c.encoder, c.direction, ing)

LEMMA LaterLaid ==
    ASSUME NEW c, IsSandwich(c), NEW i \in 2..Len(c.ingredients)
    PROVE  Later(c, i) \in Seq(Field) /\ PartLaid(Bytes(Later(c, i), i), c, i)
<1>. DEFINE e == c.encoder
            ing == c.ingredients[i]
<1>0. /\ e \in Encoders /\ c.direction \in {"input", "output"} /\ ing \in Ingredient
      /\ ing.variant \in {"v2", "v3"} /\ ing.weth0 \in BOOLEAN
  <2>1. i \in 1..Len(c.ingredients)
    BY SandwichFacts
  <2>. QED  BY <2>1, SandwichFacts
<1>5. i \in Nat /\ i # 1 /\ ~Alone(c) /\ ~Wide(c) /\ Ahead(c, i) = 0
  BY SandwichFacts DEF Alone, Wide, Ahead
<1>1. CASE ing.variant = "v2" /\ c.direction = "input"
  <2>1. Later(c, i) = LaterV2(e, "input", ing) /\ GateOf(c, i) = "v2_input_multi_next"
        /\ Spots(c, i) = V2InputNextSpots(ing)
    BY <1>1, <1>5 DEF Spots, Later, GateOf, V2MultiGate
  <2>2. Handler(GateOf(c, i)).next = 31
    BY <1>0, <2>1, NextWritten
  <2>. DEFINE bytes == Bytes(Later(c, i), i)
  <2>3. /\ Later(c, i) \in Seq(Field) /\ Len(bytes) = 31
        /\ Begins(bytes, 1, GateLabel(c, i), i)
        /\ Finds(bytes, 0, Handler(GateOf(c, i)), i)
        /\ Shows(bytes, 0, Spots(c, i), i)
    <3>. HIDE DEF e, ing
    <3>. QED  BY <1>0, <1>5, <2>1, V2InputNextLaid DEF GateLabel, e
  <2>. HIDE DEF bytes
  <2>4. PartLaid(bytes, c, i)
    BY <1>5, <2>1, <2>2, <2>3 DEF PartLaid, Entered
  <2>. QED  BY <2>3, <2>4 DEF bytes
<1>2. CASE ing.variant = "v2" /\ c.direction = "output"
  <2>1. Later(c, i) = LaterV2(e, "output", ing) /\ GateOf(c, i) = "v2_output_multi_next"
        /\ Spots(c, i) = V2OutputNextSpots(ing)
    BY <1>2, <1>5 DEF Spots, Later, GateOf, V2MultiGate
  <2>2. Handler(GateOf(c, i)).next = 52
    BY <1>0, <2>1, NextWritten
  <2>. DEFINE bytes == Bytes(Later(c, i), i)
  <2>3. /\ Later(c, i) \in Seq(Field) /\ Len(bytes) = 52
        /\ Begins(bytes, 1, GateLabel(c, i), i)
        /\ Finds(bytes, 0, Handler(GateOf(c, i)), i)
        /\ Shows(bytes, 0, Spots(c, i), i)
    <3>. HIDE DEF e, ing
    <3>. QED  BY <1>0, <1>5, <2>1, V2OutputNextLaid DEF GateLabel, e
  <2>. HIDE DEF bytes
  <2>4. PartLaid(bytes, c, i)
    BY <1>5, <2>1, <2>2, <2>3 DEF PartLaid, Entered
  <2>. QED  BY <2>3, <2>4 DEF bytes
<1>3. CASE ing.variant = "v3" /\ c.direction = "input"
  <2>1. Later(c, i) = LaterV3(e, "input", ing) /\ GateOf(c, i) = V3MultiGate("input", ing.weth0)
        /\ Spots(c, i) = V3InputMultiSpots(ing)
    BY <1>3, <1>5 DEF Spots, Later, GateOf
  <2>2. Handler(GateOf(c, i)).next = 64
    BY <1>0, <2>1, NextWritten
  <2>. DEFINE bytes == Bytes(Later(c, i), i)
  <2>3. /\ Later(c, i) \in Seq(Field) /\ Len(bytes) = 64
        /\ Begins(bytes, 1, GateLabel(c, i), i)
        /\ Finds(bytes, 0, Handler(GateOf(c, i)), i)
        /\ Shows(bytes, 0, Spots(c, i), i)
    <3>. HIDE DEF e, ing
    <3>. QED  BY <1>0, <1>5, <2>1, V3InputNextLaid DEF GateLabel, e
  <2>. HIDE DEF bytes
  <2>4. PartLaid(bytes, c, i)
    BY <1>5, <2>1, <2>2, <2>3 DEF PartLaid, Entered
  <2>. QED  BY <2>3, <2>4 DEF bytes
<1>4. CASE ing.variant = "v3" /\ c.direction = "output"
  <2>1. Later(c, i) = LaterV3(e, "output", ing) /\ GateOf(c, i) = V3MultiGate("output", ing.weth0)
        /\ Spots(c, i) = V3OutputMultiSpots(ing)
    BY <1>4, <1>5 DEF Spots, Later, GateOf
  <2>2. Handler(GateOf(c, i)).next = 84
    BY <1>0, <2>1, NextWritten
  <2>. DEFINE bytes == Bytes(Later(c, i), i)
  <2>3. /\ Later(c, i) \in Seq(Field) /\ Len(bytes) = 84
        /\ Begins(bytes, 1, GateLabel(c, i), i)
        /\ Finds(bytes, 0, Handler(GateOf(c, i)), i)
        /\ Shows(bytes, 0, Spots(c, i), i)
    <3>. HIDE DEF e, ing
    <3>. QED  BY <1>0, <1>5, <2>1, V3OutputNextLaid DEF GateLabel, e
  <2>. HIDE DEF bytes
  <2>4. PartLaid(bytes, c, i)
    BY <1>5, <2>1, <2>2, <2>3 DEF PartLaid, Entered
  <2>. QED  BY <2>3, <2>4 DEF bytes
<1>. QED  BY <1>0, <1>1, <1>2, <1>3, <1>4

LEMMA LaterFields ==
    ASSUME NEW c, IsSandwich(c), NEW i \in 2..Len(c.ingredients)
    PROVE  Fields(c, i) = IF c.encoder = "bot" THEN <<Block>> \o Later(c, i) ELSE Later(c, i)
<1>1. i # 1 /\ Len(c.ingredients) # 1
  BY SandwichFacts
<1>. QED  BY <1>1 DEF Fields, Part, Later, LaterV2, LaterV3

LEMMA PartsLaid ==
    ASSUME NEW c, IsSandwich(c), NEW i \in 1..Len(c.ingredients)
    PROVE  /\ Fields(c, i) \in Seq(Field)
           /\ Reachable(c, i) => PartLaid(Bytes(Fields(c, i), i), c, i)
           /\ ~Reachable(c, i) => Begins(Bytes(Fields(c, i), i), 1, Block, i)
<1>1. CASE i = 1
  <2>1. CASE Alone(c)
    BY <1>1, <2>1, AlonePartLaid DEF Reachable
  <2>2. CASE ~Alone(c)
    BY <1>1, <2>2, FirstPartLaid DEF Reachable
  <2>. QED  BY <2>1, <2>2
<1>2. CASE i # 1
  <2>1. i \in 2..Len(c.ingredients) /\ i \in Nat
    BY <1>2, SandwichFacts
  <2>2. CASE c.encoder = "helper"
    <3>1. Fields(c, i) = Later(c, i)
      BY <2>1, <2>2, LaterFields
    <3>. QED  BY <2>1, <2>2, <3>1, LaterLaid DEF Reachable
  <2>3. CASE c.encoder = "bot"
    <3>. DEFINE fields == <<Block>> \o Later(c, i)
    <3>1. Fields(c, i) = fields
      BY <2>1, <2>3, LaterFields
    <3>2. fields \in Seq(Field) /\ Len(fields) >= 1 /\ fields[1] = Block
      <4>1. Later(c, i) \in Seq(Field) /\ Block \in Field
        BY <2>1, LaterLaid, FieldsWritten
      <4>2. \A s \in Seq(Field), x \in Field :
                <<x>> \o s \in Seq(Field) /\ Len(<<x>> \o s) >= 1 /\ (<<x>> \o s)[1] = x
        OBVIOUS
      <4>. HIDE DEF Field
      <4>. QED  BY <4>1, <4>2
    <3>. HIDE DEF fields
    <3>3. PICK start : IsLayout(Bytes(fields, i), fields, i, start)
      BY <2>1, <3>2, BytesLayout
    <3>4. Begins(Bytes(fields, i), 1, Block, i)
      <4>1. 1 \in 1..Len(fields) /\ fields[1].width = 1 /\ start[1] = 0
        BY <3>2, <3>3, FieldsWritten DEF IsLayout
      <4>2. 1 <= Len(Bytes(fields, i))
        <5>1. start[1 + 1] = start[1] + fields[1].width /\ start[1 + 1] <= Len(Bytes(fields, i))
          BY <3>3, <4>1 DEF IsLayout
        <5>. QED  BY <4>1, <5>1
      <4>3. Bytes(fields, i)[0 + 1] = [name |-> Block.name, of |-> i, nth |-> 1, val |-> Block.val]
        <5>1. 1 \in 1..fields[1].width
          BY <4>1
        <5>2. Bytes(fields, i)[start[1] + 1]
                = [name |-> fields[1].name, of |-> i, nth |-> 1, val |-> fields[1].val]
          BY <3>3, <4>1, <5>1 DEF IsLayout
        <5>. QED  BY <3>2, <4>1, <5>2
      <4>4. Len(Bytes(fields, i)) \in Nat
        BY <2>1, <3>2, BytesLayout
      <4>. QED  BY <4>2, <4>3, <4>4 DEF Begins
    <3>. QED  BY <1>2, <2>3, <3>1, <3>2, <3>4 DEF Reachable
  <2>. QED  BY <2>2, <2>3, SandwichFacts DEF Encoders
<1>. QED  BY <1>1, <1>2

-----------------------------------------------------------------------------
(* The whole calldata, and where the contract goes in it.                  *)

PartBytes(c, i) == Bytes(Fields(c, i), i)

EndByte(e) == [name |-> "end", of |-> 0, nth |-> 1, val |-> Label(e, "exit")]

\* start[i]: how many bytes are in front of the part of ingredient i
Layout(c, bytes, start) ==
    LET n == Len(c.ingredients)
    IN  /\ bytes \in Seq(Byte) /\ start \in [1..(n + 1) -> Nat] /\ start[1] = 0
        /\ \A i \in 1..n :
              /\ start[i + 1] = start[i] + Len(PartBytes(c, i))
              /\ start[i + 1] <= Len(bytes)
              /\ \A b \in 1..Len(PartBytes(c, i)) : bytes[start[i] + b] = PartBytes(c, i)[b]
        /\ Alone(c) => Len(bytes) = start[n + 1]
        /\ ~Alone(c) => /\ Len(bytes) = start[n + 1] + 1
                        /\ bytes[start[n + 1] + 1] = EndByte(c.encoder)

LEMMA EndBytes ==
    \A e \in Encoders : /\ Bytes(<<L("end", Label(e, "exit"))>>, 0) \in Seq(Byte)
                        /\ Len(Bytes(<<L("end", Label(e, "exit"))>>, 0)) = 1
                        /\ Bytes(<<L("end", Label(e, "exit"))>>, 0)[1] = EndByte(e)
<1>. TAKE e \in Encoders
<1>. DEFINE field == L("end", Label(e, "exit"))
            names == <<"end">>
            w == <<0, 1>>
            bytes == Bytes(<<field>>, 0)
<1>1. /\ field \in Field /\ field.width = 1 /\ field.name = "end"
      /\ field.val = Label(e, "exit")
  BY FieldsWritten, LabelFields
<1>. HIDE DEF field
<1>2. <<field>> \in Seq(Field) /\ Len(<<field>>) = 1
  BY <1>1
<1>3. Named(<<field>>, names, w)
  BY <1>1 DEF Named
<1>4. Laid(bytes, <<field>>, 0, w) /\ bytes \in Seq(Byte)
  <2>. HIDE DEF names, w
  <2>. QED  BY <1>2, <1>3, FirstBytes, BytesLayout
<1>. HIDE DEF bytes
<1>5. Len(bytes) = 1 /\ Begins(bytes, 1, field, 0)
  BY <1>2, <1>4 DEF Laid
<1>. QED  BY <1>1, <1>4, <1>5 DEF Begins, EndByte, bytes, field

LEMMA Joined ==
    ASSUME NEW S, NEW s \in Seq(S), NEW t \in Seq(S), Len(t) = 1
    PROVE  /\ s \o <<>> = s
           /\ s \o t \in Seq(S) /\ Len(s \o t) = Len(s) + 1
           /\ (s \o t)[Len(s) + 1] = t[1]
           /\ \A b \in 1..Len(s) : (s \o t)[b] = s[b]
<1>1. s \o <<>> = s
  OBVIOUS
<1>2. \A u, v \in Seq(S) :
          /\ u \o v \in Seq(S) /\ Len(u \o v) = Len(u) + Len(v)
          /\ \A b \in 1..Len(u) : (u \o v)[b] = u[b]
          /\ \A b \in 1..Len(v) : (u \o v)[Len(u) + b] = v[b]
  OBVIOUS
<1>3. 1 \in 1..Len(t)
  OBVIOUS
<1>4. s \o t \in Seq(S)
  BY <1>2
<1>7. Len(s \o t) = Len(s) + Len(t)
  BY <1>2
<1>5. (s \o t)[Len(s) + 1] = t[1]
  BY <1>2, <1>3
<1>6. \A b \in 1..Len(s) : (s \o t)[b] = s[b]
  BY <1>2
<1>. QED  BY <1>1, <1>4, <1>5, <1>6, <1>7

LEMMA CalldataLaid ==
    ASSUME NEW c, IsSandwich(c)
    PROVE  \E start : Layout(c, Calldata(c), start)
<1>. DEFINE n == Len(c.ingredients)
            parts == [i \in DOMAIN c.ingredients |-> PartBytes(c, i)]
            all == FlattenSeq(parts)
            end == Bytes(<<L("end", Label(c.encoder, "exit"))>>, 0)
            data1 == Calldata(c)
            len(i) == Len(PartBytes(c, i))
<1>1. n \in Nat \ {0} /\ DOMAIN c.ingredients = 1..n
  BY SandwichFacts
<1>2. \A i \in 1..n : PartBytes(c, i) \in Seq(Byte)
  BY <1>1, PartsLaid, BytesLayout DEF PartBytes
<1>3. parts \in Seq(Seq(Byte)) /\ Len(parts) = n /\ \A i \in 1..n : parts[i] = PartBytes(c, i)
  BY <1>1, <1>2
<1>4. data1 = all \o (IF n > 1 THEN end ELSE <<>>)
  BY DEF Calldata, IsSandwich, PartBytes
<1>5. end \in Seq(Byte) /\ Len(end) = 1 /\ end[1] = EndByte(c.encoder)
  BY EndBytes, SandwichFacts
<1>. HIDE DEF parts, end, n, data1
<1>6. PICK start \in [1..(Len(parts) + 1) -> Nat] :
          /\ start[1] = 0
          /\ \A k \in 1..Len(parts) : start[k + 1] = start[k] + Len(parts[k])
          /\ Len(all) = start[Len(parts) + 1]
          /\ \A k \in 1..Len(parts) :
                /\ start[k + 1] <= Len(all)
                /\ \A b \in 1..Len(parts[k]) : all[start[k] + b] = parts[k][b]
  BY <1>3, FlattenAt
<1>7. all \in Seq(Byte)
  BY <1>3, FlattenAt
<1>. HIDE DEF all
<1>8. /\ start \in [1..(n + 1) -> Nat] /\ start[1] = 0 /\ Len(all) = start[n + 1]
      /\ \A i \in 1..n : /\ start[i + 1] = start[i] + len(i) /\ start[i + 1] <= Len(all)
                         /\ \A b \in 1..len(i) : all[start[i] + b] = PartBytes(c, i)[b]
  BY <1>3, <1>6
<1>9. CASE n = 1
  <2>1. data1 = all
    BY <1>4, <1>5, <1>7, <1>9, Joined
  <2>. QED  BY <1>7, <1>8, <1>9, <2>1 DEF Layout, Alone, data1, n
<1>10. CASE n # 1
  <2>1. data1 = all \o end
    BY <1>1, <1>4, <1>10
  <2>2. /\ data1 \in Seq(Byte) /\ Len(data1) = Len(all) + 1
        /\ data1[Len(all) + 1] = end[1]
        /\ \A b \in 1..Len(all) : data1[b] = all[b]
    BY <1>5, <1>7, <2>1, Joined
  <2>3. ASSUME NEW i \in 1..n
        PROVE  /\ start[i + 1] <= Len(data1)
               /\ \A b \in 1..len(i) : data1[start[i] + b] = PartBytes(c, i)[b]
    <3>1. start[i] \in Nat /\ start[i + 1] \in Nat /\ Len(all) \in Nat
      BY <1>1, <1>7, <1>8
    <3>2. start[i + 1] = start[i] + len(i) /\ start[i + 1] <= Len(all)
      BY <1>8
    <3>3. len(i) \in Nat
      BY <1>2
    <3>. HIDE DEF len
    <3>4. \A b \in 1..len(i) : start[i] + b \in 1..Len(all)
      BY <3>1, <3>2, <3>3
    <3>5. start[i + 1] <= Len(data1)
      BY <2>2, <3>1, <3>2
    <3>6. ASSUME NEW b \in 1..len(i)
          PROVE  data1[start[i] + b] = PartBytes(c, i)[b]
      <4>1. data1[start[i] + b] = all[start[i] + b]
        BY <2>2, <3>4
      <4>2. all[start[i] + b] = PartBytes(c, i)[b]
        BY <1>8
      <4>. QED  BY <4>1, <4>2
    <3>. QED  BY <3>5, <3>6
  <2>4. Len(data1) = start[n + 1] + 1 /\ data1[start[n + 1] + 1] = EndByte(c.encoder)
    BY <1>5, <1>8, <2>2
  <2>5. \A i \in 1..n : start[i + 1] = start[i] + len(i)
    BY <1>8
  <2>6. start \in [1..(n + 1) -> Nat] /\ start[1] = 0
    BY <1>8
  <2>. QED  BY <1>10, <2>2, <2>3, <2>4, <2>5, <2>6 DEF Layout, data1, n, Alone
<1>. QED  BY <1>9, <1>10

\* the jump that byte b of the bytes names
Jump(bytes, b) == IF b < Len(bytes) /\ bytes[b + 1].val >= 0 THEN GateAt(bytes[b + 1].val)
                  ELSE "invalid"

\* where the handler of ingredient i counts from
Base(c, start, i) == start[i] + Ahead(c, i)

LEMMA Copied ==
    ASSUME NEW c, IsSandwich(c), NEW bytes, NEW start, Layout(c, bytes, start),
           NEW i \in 1..Len(c.ingredients), NEW s, NEW field, NEW of,
           Begins(PartBytes(c, i), s, field, of)
    PROVE  Begins(bytes, start[i] + s, field, of)
<1>. DEFINE n == Len(c.ingredients)
<1>1. n \in Nat \ {0} /\ i + 1 \in 1..(n + 1) /\ i \in 1..(n + 1)
  BY SandwichFacts
<1>2. start[i] \in Nat /\ start[i + 1] \in Nat
  BY <1>1 DEF Layout
<1>3. start[i + 1] = start[i] + Len(PartBytes(c, i)) /\ start[i + 1] <= Len(bytes)
      /\ \A b \in 1..Len(PartBytes(c, i)) : bytes[start[i] + b] = PartBytes(c, i)[b]
  BY DEF Layout
<1>4. PartBytes(c, i) \in Seq(Byte) /\ i \in Nat
  BY <1>1, PartsLaid, BytesLayout DEF PartBytes
<1>5. Len(PartBytes(c, i)) \in Nat /\ Len(bytes) \in Nat /\ s \in 1..Len(PartBytes(c, i))
  BY <1>4 DEF Begins, Layout
<1>6. start[i] + s \in 1..Len(bytes)
  BY <1>2, <1>3, <1>5
<1>. QED  BY <1>3, <1>5, <1>6 DEF Begins

LEMMA Jumps ==
    ASSUME NEW bytes \in Seq(Byte), NEW b \in Nat, NEW field, NEW of,
           Begins(bytes, b + 1, field, of)
    PROVE  /\ field.val \in Nat => Jump(bytes, b) = GateAt(field.val)
           /\ field.val = -1 => Jump(bytes, b) = "invalid"
BY DEF Begins, Jump

LEMMA HandlerFacts ==
    /\ Handler("v2_input_single").next = Stops
    /\ \A w \in BOOLEAN :
          /\ Handler(Side(w, "v2_output0_single", "v2_output1_single")).next = Stops
          /\ Handler(V3Gate("input", w)).next = Stops
          /\ Handler(V3Gate("output", w)).next = Stops
          /\ ~Handler(V3MultiGate("input", w)).value
          /\ ~Handler(V3MultiGate("output", w)).value
    /\ ~Handler("v2_input_multi_next").value /\ ~Handler("v2_output_multi_next").value
<1>1. \A g : V2SingleHandler(g).next = Stops
  BY DEF V2SingleHandler, Reads
<1>2. \A g : V3SingleHandler(g).next = Stops
  BY DEF V3SingleHandler, Reads
<1>3. \A g : ~V3MultiHandler(g).value
  BY DEF V3MultiHandler, Reads
<1>4. /\ ~V2MultiHandler("v2_input_multi_next").value
      /\ ~V2MultiHandler("v2_output_multi_next").value
  BY DEF V2MultiHandler, Reads
<1>. QED  BY <1>1, <1>2, <1>3, <1>4, HandlersWritten

LEMMA GateFacts ==
    ASSUME NEW c, IsSandwich(c), NEW i \in 1..Len(c.ingredients)
    PROVE  /\ GateOf(c, i) \in SwapGates
           /\ Swaps(GateOf(c, i), c.direction, c.ingredients[i])
           /\ Alone(c) => Handler(GateOf(c, i)).next = Stops
           /\ ~Alone(c) => Handler(GateOf(c, i)).next \in Nat
           /\ Handler(GateOf(c, i)).value => ValueOf(c) = i
<1>. DEFINE ing == c.ingredients[i]
            g == GateOf(c, i)
            n == Len(c.ingredients)
<1>0. /\ c.direction \in {"input", "output"} /\ ing.variant \in {"v2", "v3"}
      /\ ing.weth0 \in BOOLEAN /\ n \in Nat \ {0} /\ c.ingredients # <<>>
  BY SandwichFacts DEF IsSandwich, IsPayload
<1>1. CASE Alone(c) /\ ing.variant = "v2" /\ c.direction = "input"
  <2>1. g = "v2_input_single"
    BY <1>1 DEF GateOf
  <2>2. ValueOf(c) = i
    BY <1>1 DEF Alone, ValueOf
  <2>3. Swaps(g, c.direction, ing)
    BY <1>1, <2>1 DEF Swaps
  <2>. HIDE DEF g, ing
  <2>. QED  BY <1>1, <2>1, <2>2, <2>3, HandlerFacts, GatesWritten DEF g, ing
<1>2. CASE Alone(c) /\ ing.variant = "v2" /\ c.direction = "output"
  <2>1. g = Side(ing.weth0, "v2_output0_single", "v2_output1_single")
    BY <1>2 DEF GateOf
  <2>2. ValueOf(c) = i
    BY <1>2 DEF Alone, ValueOf
  <2>3. Swaps(g, c.direction, ing)
    BY <1>2, <2>1 DEF Swaps
  <2>. HIDE DEF g
  <2>. QED  BY <1>0, <1>2, <2>1, <2>2, <2>3, HandlerFacts, GatesWritten DEF g
<1>3. CASE Alone(c) /\ ing.variant = "v3"
  <2>1. g = V3Gate(c.direction, ing.weth0)
    BY <1>3 DEF GateOf
  <2>2. ValueOf(c) = i
    BY <1>3 DEF Alone, ValueOf
  <2>3. Swaps(g, c.direction, ing)
    BY <1>3, <2>1 DEF Swaps
  <2>. HIDE DEF g
  <2>. QED  BY <1>0, <1>3, <2>1, <2>2, <2>3, HandlerFacts, GatesWritten DEF g
<1>4. CASE ~Alone(c) /\ ing.variant = "v2"
  <2>1. g = IF c.direction = "input"
            THEN IF i = 1 THEN "v2_input_multi_first" ELSE "v2_input_multi_next"
            ELSE IF i = 1 THEN "v2_output_multi_first" ELSE "v2_output_multi_next"
    BY <1>4 DEF GateOf, V2MultiGate
  <2>2. i = 1 => ValueOf(c) = i
    BY <1>0, <1>4 DEF Alone, ValueOf
  <2>3. Swaps(g, c.direction, ing)
    BY <1>0, <1>4, <2>1 DEF Swaps
  <2>4. g \in V2MultiGates
    BY <2>1 DEF V2MultiGates
  <2>5. Handler(g).next \in {27, 31, 48, 52}
    <3>. HIDE DEF g
    <3>. QED  BY <2>1, NextWritten
  <2>. HIDE DEF g
  <2>. QED  BY <1>0, <1>4, <2>1, <2>2, <2>3, <2>4, <2>5, HandlerFacts, GatesWritten DEF g
<1>5. CASE ~Alone(c) /\ ing.variant = "v3"
  <2>1. g = V3MultiGate(c.direction, ing.weth0)
    BY <1>5 DEF GateOf
  <2>3. Swaps(g, c.direction, ing)
    BY <1>5, <2>1 DEF Swaps
  <2>5. Handler(g).next \in {64, 84}
    <3>. HIDE DEF g
    <3>. QED  BY <1>0, <2>1, NextWritten
  <2>. HIDE DEF g
  <2>. QED  BY <1>0, <1>5, <2>1, <2>3, <2>5, HandlerFacts, GatesWritten DEF g
<1>. QED  BY <1>0, <1>1, <1>2, <1>3, <1>4, <1>5

\* Where the contract starts to read.
LEMMA StartsWell ==
    ASSUME NEW c, IsSandwich(c), NEW bytes, NEW start, Layout(c, bytes, start)
    PROVE  /\ Begins(bytes, 1, Block, 1)
           /\ ~Prepares(c) => Jump(bytes, 1) = GateOf(c, 1)
           /\ Prepares(c) => /\ Jump(bytes, 1) = IF c.encoder = "helper" THEN "prepare_stack"
                                                                         ELSE "invalid"
                             /\ Jump(bytes, 2) = GateOf(c, 1)
<1>1. PartLaid(PartBytes(c, 1), c, 1) /\ 1 \in 1..Len(c.ingredients)
  BY PartsLaid, SandwichFacts DEF PartBytes, Reachable
<1>2. start[1] = 0 /\ bytes \in Seq(Byte)
  BY DEF Layout
<1>3. \A s \in {1, 2, 3} : \A field :
          Begins(PartBytes(c, 1), s, field, 1) => Begins(bytes, s, field, 1)
  <2>1. \A s \in {1, 2, 3} : 0 + s = s
    OBVIOUS
  <2>. QED  BY <1>1, <1>2, <2>1, Copied
<1>4. GateLabel(c, 1).val \in Nat /\ GateAt(GateLabel(c, 1).val) = GateOf(c, 1)
  BY <1>1, GateFacts, SandwichFacts, Labels DEF GateLabel, L
<1>. DEFINE prepare == L("prepare", Label(c.encoder, "prepare_stack"))
<1>5. /\ prepare.val \in Nat
      /\ GateAt(prepare.val) = IF c.encoder = "helper" THEN "prepare_stack" ELSE "invalid"
  BY SandwichFacts, OtherLabels DEF L, Encoders
<1>. HIDE DEF prepare
<1>6. \A b \in {1, 2} : \A field :
          Begins(bytes, b + 1, field, 1) /\ field.val \in Nat => Jump(bytes, b) = GateAt(field.val)
  BY <1>2, Jumps
<1>7. /\ Begins(bytes, 1, Block, 1)
      /\ ~Prepares(c) => Begins(bytes, 1 + 1, GateLabel(c, 1), 1)
      /\ Prepares(c) => Begins(bytes, 1 + 1, prepare, 1) /\ Begins(bytes, 2 + 1, GateLabel(c, 1), 1)
  BY <1>1, <1>3 DEF PartLaid, Entered, prepare
<1>. QED  BY <1>4, <1>5, <1>6, <1>7

LEMMA OffsetsAreNumbers == \A g \in SwapGates : \A r \in Handler(g).fields : r.offset \in Int
<1>1. \A g : \A r \in V2SingleHandler(g).fields : r.offset \in Int
  BY DEF V2SingleHandler, Reads, R
<1>2. \A g \in V2MultiGates : \A r \in V2MultiHandler(g).fields : r.offset \in Int
  BY DEF V2MultiGates, V2MultiHandler, Reads, R
<1>3. \A g : \A r \in V3SingleHandler(g).fields : r.offset \in Int
  BY DEF V3SingleHandler, Reads, R
<1>4. \A g : \A r \in V3MultiHandler(g).fields : r.offset \in Int
  BY DEF V3MultiHandler, Reads, R
<1>5. \A g \in SwapGates : \/ g \in V2MultiGates /\ Handler(g) = V2MultiHandler(g)
                          \/ Handler(g) = V2SingleHandler(g)
                          \/ Handler(g) = V3SingleHandler(g)
                          \/ Handler(g) = V3MultiHandler(g)
  BY DEF Handler, SwapGates, V2SingleGates, V2MultiGates, V3SingleGates, V3MultiGates
<1>. QED  BY <1>1, <1>2, <1>3, <1>4, <1>5

\* Its handler finds every field of a swap.
LEMMA ReadsWell ==
    ASSUME NEW c, IsSandwich(c), NEW bytes, NEW start, Layout(c, bytes, start),
           NEW i \in 1..Len(c.ingredients), Reachable(c, i), ~Wide(c)
    PROVE  Finds(bytes, Base(c, start, i), Handler(GateOf(c, i)), i)
<1>. DEFINE h == Handler(GateOf(c, i))
            o == Ahead(c, i)
            part == PartBytes(c, i)
            n == Len(c.ingredients)
<1>1. Finds(part, o, h, i)
  BY PartsLaid DEF PartLaid, PartBytes
<1>2. n \in Nat /\ i \in 1..(n + 1) /\ i + 1 \in 1..(n + 1)
  BY SandwichFacts
<1>3. /\ start[i] \in Nat /\ start[i + 1] \in Nat /\ start[i + 1] = start[i] + Len(part)
      /\ start[i + 1] <= Len(bytes) /\ \A b \in 1..Len(part) : bytes[start[i] + b] = part[b]
  BY <1>2 DEF Layout
<1>4. o \in Nat /\ Len(part) \in Nat /\ Len(bytes) \in Nat
  <2>1. part \in Seq(Byte)
    BY <1>2, PartsLaid, BytesLayout DEF PartBytes
  <2>2. bytes \in Seq(Byte)
    BY DEF Layout
  <2>. HIDE DEF part
  <2>. QED  BY <2>1, <2>2 DEF Ahead
<1>. HIDE DEF h, o, part
<1>5. ASSUME NEW r \in h.fields, r.offset \in Int
      PROVE  /\ start[i] + o + r.offset + 1 \in 1..Len(bytes)
             /\ bytes[start[i] + o + r.offset + 1] = part[o + r.offset + 1]
  <2>. DEFINE b == o + r.offset + 1
  <2>1. b \in 1..Len(part)
    BY <1>1 DEF Finds
  <2>2. start[i] + o + r.offset + 1 = start[i] + b
    BY <1>3, <1>4, <1>5
  <2>. HIDE DEF b
  <2>3. start[i] + b \in 1..Len(bytes) /\ bytes[start[i] + b] = part[b]
    BY <1>3, <1>4, <2>1
  <2>. QED  BY <2>2, <2>3 DEF b
<1>6. \A r \in h.fields : r.offset \in Int
  BY GateFacts, OffsetsAreNumbers DEF h
<1>. QED  BY <1>1, <1>5, <1>6 DEF Finds, Base, h, o

\* Behind it is the label of the next swap, and exit behind the last; the bot
\* writes neither.
LEMMA GoesOn ==
    ASSUME NEW c, IsSandwich(c), NEW bytes, NEW start, Layout(c, bytes, start),
           NEW i \in 1..Len(c.ingredients), Reachable(c, i), ~Alone(c)
    PROVE  /\ Base(c, start, i) + Handler(GateOf(c, i)).next = start[i + 1]
           /\ Jump(bytes, start[i + 1]) =
                 IF c.encoder = "bot" THEN "invalid"
                 ELSE IF i = Len(c.ingredients) THEN "exit" ELSE GateOf(c, i + 1)
           /\ i < Len(c.ingredients) => Base(c, start, i + 1) = start[i + 1]
<1>. DEFINE n == Len(c.ingredients)
<1>1. /\ n \in Nat /\ n >= 2 /\ i \in 1..(n + 1) /\ i + 1 \in 1..(n + 1)
      /\ i < n => i + 1 \in 1..n /\ i + 1 # 1
      /\ n + 1 \in 1..(n + 1)
  <2>1. n \in Nat \ {0} /\ n # 1
    BY SandwichFacts DEF Alone
  <2>. HIDE DEF n
  <2>2. i \in 1..n
    BY DEF n
  <2>. QED  BY <2>1, <2>2
<1>2. /\ start[i] \in Nat /\ start[i + 1] \in Nat /\ start[n + 1] \in Nat
      /\ start[i + 1] = start[i] + Len(PartBytes(c, i)) /\ bytes \in Seq(Byte)
  BY <1>1 DEF Layout
<1>3. Base(c, start, i) + Handler(GateOf(c, i)).next = start[i + 1]
  <2>1. Ahead(c, i) + Handler(GateOf(c, i)).next = Len(PartBytes(c, i))
    BY PartsLaid DEF PartLaid, PartBytes
  <2>2. Ahead(c, i) \in Nat /\ Handler(GateOf(c, i)).next \in Nat
    BY GateFacts DEF Ahead
  <2>. QED  BY <1>2, <2>1, <2>2 DEF Base
<1>4. i < n => Base(c, start, i + 1) = start[i + 1]
  BY <1>1, <1>2 DEF Base, Ahead
<1>5. CASE c.encoder = "bot"
  <2>1. i = 1 /\ 2 \in 1..n /\ ~Reachable(c, 2) /\ c.encoder # "helper"
    BY <1>1, <1>5 DEF Reachable
  <2>2. Begins(PartBytes(c, 2), 1, Block, 2)
    BY <2>1, PartsLaid DEF PartBytes
  <2>3. Begins(bytes, start[2] + 1, Block, 2)
    BY <2>1, <2>2, Copied
  <2>4. Block.val = -1 /\ start[2] \in Nat
    BY <1>2, <2>1 DEF Block, F
  <2>5. Jump(bytes, start[2]) = "invalid"
    BY <1>2, <2>3, <2>4, Jumps
  <2>. QED  BY <1>3, <1>4, <1>5, <2>1, <2>5
<1>6. CASE c.encoder = "helper" /\ i # n
  <2>1. i + 1 \in 1..n /\ i + 1 # 1 /\ Reachable(c, i + 1)
    BY <1>1, <1>6 DEF Reachable
  <2>2. Begins(PartBytes(c, i + 1), 1, GateLabel(c, i + 1), i + 1)
    BY <2>1, PartsLaid DEF PartLaid, Entered, PartBytes
  <2>3. Begins(bytes, start[i + 1] + 1, GateLabel(c, i + 1), i + 1)
    BY <2>1, <2>2, Copied
  <2>4. GateLabel(c, i + 1).val \in Nat /\ GateAt(GateLabel(c, i + 1).val) = GateOf(c, i + 1)
    BY <2>1, GateFacts, SandwichFacts, Labels DEF GateLabel, L
  <2>5. Jump(bytes, start[i + 1]) = GateOf(c, i + 1)
    BY <1>2, <2>3, <2>4, Jumps
  <2>. QED  BY <1>3, <1>4, <1>6, <2>5
<1>7. CASE c.encoder = "helper" /\ i = n
  <2>1. /\ Len(bytes) = start[n + 1] + 1
        /\ bytes[start[n + 1] + 1].val = 46
    BY <1>7, OtherLabels DEF Layout, EndByte
  <2>2. Jump(bytes, start[n + 1]) = "exit"
    BY <1>2, <2>1, OtherLabels DEF Jump
  <2>. QED  BY <1>3, <1>4, <1>7, <2>2
<1>. QED  BY <1>5, <1>6, <1>7, SandwichFacts DEF Encoders

\* Payloads that the two programs do not write alike: of several ingredients,
\* and with the wider amount.
LEMMA BotDiffers ==
    ASSUME NEW c, IsSandwich(c), c.encoder = "bot", Wide(c) \/ ~Alone(c)
    PROVE  Calldata(c) # Calldata([c EXCEPT !.encoder = "helper"])
<1>. DEFINE h == [c EXCEPT !.encoder = "helper"]
<1>1. /\ h.encoder = "helper" /\ h.direction = c.direction /\ h.ingredients = c.ingredients
      /\ IsSandwich(h) /\ (Alone(h) <=> Alone(c))
  BY DEF IsSandwich, IsPayload, Encoders, Alone
<1>. HIDE DEF h
<1>2. PICK start : Layout(c, Calldata(c), start)
  BY CalldataLaid
<1>3. PICK start1 : Layout(h, Calldata(h), start1)
  BY <1>1, CalldataLaid
<1>. DEFINE n == Len(c.ingredients)
<1>4. CASE ~Alone(c)
  <2>1. /\ Calldata(c)[Len(Calldata(c))] = EndByte("bot")
        /\ Calldata(h)[Len(Calldata(h))] = EndByte("helper")
    BY <1>1, <1>2, <1>3, <1>4 DEF Layout
  <2>2. EndByte("bot") # EndByte("helper")
    <3>1. EndByte("bot").val = 37 /\ EndByte("helper").val = 46
      BY OtherLabels DEF EndByte
    <3>. QED  BY <3>1
  <2>. QED  BY <2>1, <2>2 DEF h
<1>5. CASE Wide(c)
  <2>. DEFINE ing == c.ingredients[1]
  <2>1. n = 1 /\ ing \in Ingredient /\ c.direction = "input" /\ ing.variant = "v3"
    BY <1>5, SandwichFacts DEF Wide, Alone
  <2>2. /\ Fields(c, 1) = V3Single("bot", "input", ing)
        /\ Fields(h, 1) = V3Single("helper", "input", ing)
    BY <1>1, <2>1 DEF Fields
  <2>. HIDE DEF ing
  <2>3. Len(PartBytes(c, 1)) = 60 /\ Len(PartBytes(h, 1)) = 59
    BY <2>1, <2>2, V3InputWideLaid, V3InputSingleLaid DEF PartBytes, Encoders
  <2>4. /\ Len(Calldata(c)) = start[1 + 1] /\ Len(Calldata(h)) = start1[1 + 1]
        /\ start[1 + 1] = start[1] + Len(PartBytes(c, 1)) /\ start[1] = 0
        /\ start1[1 + 1] = start1[1] + Len(PartBytes(h, 1)) /\ start1[1] = 0
    BY <1>1, <1>2, <1>3, <1>5, <2>1 DEF Layout, Wide
  <2>5. Len(Calldata(c)) = 60 /\ Len(Calldata(h)) = 59
    BY <2>3, <2>4
  <2>. QED  BY <2>5 DEF h
<1>. QED  BY <1>4, <1>5

\* recover_weth: the bot's bytes are not a call of the searcher.
LEMMA RecoverLaid ==
    /\ LET bytes == Bytes(RecoverFields("helper"), 0)
       IN  bytes \in Seq(Byte) /\ Len(bytes) = 2 /\ bytes[1].name = "block"
           /\ Jump(bytes, 1) = "recover_weth"
    /\ LET bytes == Bytes(RecoverFields("bot"), 0)
       IN  bytes \in Seq(Byte) /\ Len(bytes) = 1 /\ bytes[1].name = "label"
<1>1. LET bytes == Bytes(RecoverFields("helper"), 0)
      IN  bytes \in Seq(Byte) /\ Len(bytes) = 2 /\ bytes[1].name = "block"
           /\ Jump(bytes, 1) = "recover_weth"
  <2>. DEFINE label == L("label", Label("helper", "recover_weth"))
              fields == <<Block, label>>
              names == <<"block", "label">>
              w == <<0, 1, 2>>
              bytes == Bytes(fields, 0)
  <2>1. RecoverFields("helper") = fields
    <3>1. <<Block>> \o <<label>> = <<Block, label>>
      <4>. HIDE DEF label
      <4>. DEFINE S == {Block, label}
                  s == <<Block>> \o <<label>>
                  t == <<Block, label>>
      <4>1. s \in Seq(S) /\ t \in Seq(S)
        OBVIOUS
      <4>2. Len(s) = 2 /\ Len(t) = 2
        OBVIOUS
      <4>3. Len(s) = Len(t) /\ \A k \in 1..Len(s) : s[k] = t[k]
        BY <4>2
      <4>. HIDE DEF s, t, S
      <4>4. s = t
        BY <4>1, <4>3, SeqEqual
      <4>. QED  BY <4>4 DEF s, t
    <3>. QED  BY <3>1 DEF RecoverFields
  <2>2. label \in Field /\ label.width = 1 /\ label.name = "label" /\ label.val = 148
    BY LabelFields, FieldsWritten, OtherLabels DEF Encoders
  <2>. HIDE DEF label
  <2>3. fields \in Seq(Field) /\ Named(fields, names, w)
    BY <2>2, FieldsWritten DEF Named
  <2>4. Laid(bytes, fields, 0, w) /\ bytes \in Seq(Byte)
    <3>. HIDE DEF fields, names, w
    <3>. QED  BY <2>3, FirstBytes, BytesLayout
  <2>5. Len(bytes) = w[3] /\ \A k \in 1..2 : Begins(bytes, w[k] + 1, fields[k], 0)
    <3>1. Len(fields) = 2
      OBVIOUS
    <3>. HIDE DEF fields, names, w, bytes
    <3>. QED  BY <2>4, <3>1 DEF Laid
  <2>. HIDE DEF bytes
  <2>6. Len(bytes) = 2 /\ Begins(bytes, 0 + 1, Block, 0) /\ Begins(bytes, 1 + 1, label, 0)
    BY <2>5
  <2>7. Jump(bytes, 1) = "recover_weth"
    BY <2>2, <2>4, <2>6, Jumps, OtherLabels
  <2>8. bytes[1].name = "block"
    BY <2>6, FieldsWritten DEF Begins
  <2>. QED  BY <2>1, <2>4, <2>6, <2>7, <2>8 DEF bytes
<1>2. LET bytes == Bytes(RecoverFields("bot"), 0)
      IN  bytes \in Seq(Byte) /\ Len(bytes) = 1 /\ bytes[1].name = "label"
  <2>. DEFINE label == L("label", Label("bot", "recover_weth"))
              fields == <<label>>
              names == <<"label">>
              w == <<0, 1>>
              bytes == Bytes(fields, 0)
  <2>1. RecoverFields("bot") = fields
    <3>1. <<>> \o <<label>> = <<label>>
      <4>. HIDE DEF label
      <4>. QED  OBVIOUS
    <3>. QED  BY <3>1 DEF RecoverFields
  <2>2. label \in Field /\ label.width = 1 /\ label.name = "label"
    BY LabelFields, FieldsWritten DEF Encoders
  <2>. HIDE DEF label
  <2>3. fields \in Seq(Field) /\ Named(fields, names, w) /\ Len(fields) = 1
    BY <2>2 DEF Named
  <2>4. Laid(bytes, fields, 0, w) /\ bytes \in Seq(Byte)
    <3>. HIDE DEF fields, names, w
    <3>. QED  BY <2>3, FirstBytes, BytesLayout
  <2>. HIDE DEF bytes
  <2>5. Len(bytes) = 1 /\ Begins(bytes, 1, label, 0)
    BY <2>3, <2>4 DEF Laid
  <2>. QED  BY <2>1, <2>2, <2>4, <2>5 DEF bytes, Begins
<1>. QED  BY <1>1, <1>2

-----------------------------------------------------------------------------
(* The way of a call.                                                      *)

StartOf(c) == CHOOSE start : Layout(c, Calldata(c), start)

\* the first i ingredients, in turn
SoFar(i) == [k \in 1..i |-> k]

AtGate(i) ==
    /\ at = GateOf(case, i) /\ Reachable(case, i)
    /\ p = Base(case, StartOf(case), i)
    /\ made = SoFar(i - 1)

\* the payloads that only the bot writes
Own(c) == IsSandwich(c) /\ c.encoder = "bot" /\ (Wide(c) \/ ~Alone(c))

\* The handler that runs is the one for what has been done: the gate of an
\* ingredient with the position that its handler counts from when exactly the
\* ones before it are swapped, exit when all are.
OnTrack ==
    \/ at = "exit" /\ made = Wanted
    \/ at = "recover_weth" /\ case.direction = "recover" /\ made = <<>>
    \/ /\ at = "prepare_stack" /\ made = <<>>
       /\ IsSandwich(case) /\ Prepares(case) /\ case.encoder = "helper"
    \/ IsSandwich(case) /\ \E i \in 1..Len(case.ingredients) : AtGate(i)
    \/ at = "invalid" /\ Own(case)

Track ==
    /\ case \in Cases /\ distance \in Distances /\ searcher \in BOOLEAN
    /\ status \in {"start", "run", "stopped", "reverted", "lost"}
    /\ status = "start" => at = "MAIN" /\ p = 0 /\ made = <<>>
    /\ status = "run" => EntryChecks /\ OnTrack
    /\ status = "stopped" => (made = <<>> /\ ~EntryChecks) \/ (made = Wanted /\ EntryChecks)
    /\ status \in {"reverted", "lost"} => made = <<>>
    /\ status = "lost" => Own(case)

LEMMA Appended ==
    SoFar(0) = <<>> /\ \A i \in Nat \ {0} : Append(SoFar(i - 1), i) = SoFar(i)
<1>1. SoFar(0) = <<>>
  BY DEF SoFar
<1>2. ASSUME NEW i \in Nat \ {0}
      PROVE  Append(SoFar(i - 1), i) = SoFar(i)
  <2>. DEFINE s == SoFar(i - 1)
              t == SoFar(i)
  <2>1. s \in Seq(Nat) /\ Len(s) = i - 1 /\ \A k \in 1..(i - 1) : s[k] = k
    BY DEF SoFar
  <2>2. t \in Seq(Nat) /\ Len(t) = i /\ \A k \in 1..i : t[k] = k
    BY DEF SoFar
  <2>. HIDE DEF s, t
  <2>3. Append(s, i) \in Seq(Nat) /\ Len(Append(s, i)) = i
    BY <2>1
  <2>4. \A k \in 1..i : Append(s, i)[k] = t[k]
    BY <2>1, <2>2
  <2>5. Append(s, i) = t
    BY <2>2, <2>3, <2>4, SeqEqual
  <2>. QED  BY <2>5 DEF s, t
<1>. QED  BY <1>1, <1>2

LEMMA NoSwapGates ==
    /\ {"exit", "prepare_stack", "recover_weth", "invalid", "MAIN"} \intersect SwapGates = {}
    /\ \A g \in SwapGates : Handler(g).fields # {}
<1>1. {"exit", "prepare_stack", "recover_weth", "invalid", "MAIN"} \intersect SwapGates = {}
  BY DEF SwapGates, V2SingleGates, V2MultiGates, V3SingleGates, V3MultiGates
<1>2. \A g : V2SingleHandler(g).fields # {} /\ V3SingleHandler(g).fields # {}
             /\ V3MultiHandler(g).fields # {}
  BY DEF V2SingleHandler, V3SingleHandler, V3MultiHandler, Reads
<1>3. \A g \in V2MultiGates : V2MultiHandler(g).fields # {}
  BY DEF V2MultiGates, V2MultiHandler, Reads
<1>4. \A g \in SwapGates : \/ g \in V2MultiGates /\ Handler(g) = V2MultiHandler(g)
                          \/ Handler(g) = V2SingleHandler(g)
                          \/ Handler(g) = V3SingleHandler(g)
                          \/ Handler(g) = V3MultiHandler(g)
  BY DEF Handler, SwapGates, V2SingleGates, V2MultiGates, V3SingleGates, V3MultiGates
<1>. QED  BY <1>1, <1>2, <1>3, <1>4

\* What the contract reads of a sandwich, in the state's own terms.
LEMMA SandwichRead ==
    ASSUME case \in Cases, IsSandwich(case)
    PROVE  LET s == StartOf(case)
               n == Len(case.ingredients)
               next(i) == Handler(GateOf(case, i)).next
           IN  /\ data[1].name = "block" /\ Len(data) \in Nat
               /\ \A i \in 1..n : Base(case, s, i) \in Nat
               /\ ~Prepares(case) => LabelAt(1) = GateOf(case, 1) /\ Base(case, s, 1) = 0
               /\ Prepares(case) => /\ LabelAt(1) = IF case.encoder = "helper"
                                                    THEN "prepare_stack" ELSE "invalid"
                                    /\ LabelAt(2) = GateOf(case, 1) /\ Base(case, s, 1) = 2
               /\ \A i \in 1..n : Reachable(case, i) /\ ~Wide(case) =>
                     Finds(data, Base(case, s, i), Handler(GateOf(case, i)), i)
               /\ \A i \in 1..n : Reachable(case, i) /\ ~Alone(case) =>
                     /\ LabelAt(Base(case, s, i) + next(i)) =
                           IF case.encoder = "bot" THEN "invalid"
                           ELSE IF i = n THEN "exit" ELSE GateOf(case, i + 1)
                     /\ i < n => Base(case, s, i + 1) = Base(case, s, i) + next(i)
<1>. DEFINE s == StartOf(case)
            n == Len(case.ingredients)
            bytes == Calldata(case)
<1>1. Layout(case, bytes, s)
  <2>1. \E start : Layout(case, bytes, start)
    BY CalldataLaid
  <2>. HIDE DEF bytes
  <2>. QED  BY <2>1 DEF StartOf, bytes
<1>2. data = bytes
  BY DEF data, CalldataOf
<1>3. \A b : LabelAt(b) = Jump(bytes, b)
  <2>. HIDE DEF bytes
  <2>. QED  BY <1>2 DEF LabelAt, Jump
<1>. HIDE DEF bytes, s
<1>4. s[1] = 0 /\ 1 \in 1..n
  BY <1>1, SandwichFacts DEF Layout
<1>5. /\ bytes[1].name = "block"
      /\ ~Prepares(case) => Jump(bytes, 1) = GateOf(case, 1)
      /\ Prepares(case) => /\ Jump(bytes, 1) = IF case.encoder = "helper"
                                               THEN "prepare_stack" ELSE "invalid"
                           /\ Jump(bytes, 2) = GateOf(case, 1)
  BY <1>1, StartsWell, FieldsWritten DEF Begins
<1>6. Base(case, s, 1) = IF Prepares(case) THEN 2 ELSE 0
  BY <1>4 DEF Base, Ahead
<1>7. \A i \in 1..n : Reachable(case, i) /\ ~Wide(case) =>
          Finds(bytes, Base(case, s, i), Handler(GateOf(case, i)), i)
  BY <1>1, ReadsWell
<1>8. \A i \in 1..n : Reachable(case, i) /\ ~Alone(case) =>
          /\ Base(case, s, i) + Handler(GateOf(case, i)).next = s[i + 1]
          /\ Jump(bytes, s[i + 1]) =
                 IF case.encoder = "bot" THEN "invalid"
                 ELSE IF i = n THEN "exit" ELSE GateOf(case, i + 1)
          /\ i < n => Base(case, s, i + 1) = s[i + 1]
  BY <1>1, GoesOn
<1>9. Len(bytes) \in Nat /\ \A i \in 1..n : Base(case, s, i) \in Nat
  <2>1. bytes \in Seq(Byte)
    BY <1>1 DEF Layout
  <2>2. ASSUME NEW i \in 1..n
        PROVE  Base(case, s, i) \in Nat
    <3>1. i \in 1..(n + 1)
      BY SandwichFacts
    <3>2. s[i] \in Nat
      BY <1>1, <3>1 DEF Layout
    <3>. QED  BY <3>2 DEF Base, Ahead
  <2>. QED  BY <2>1, <2>2
<1>. QED  BY <1>2, <1>3, <1>5, <1>6, <1>7, <1>8, <1>9 DEF s

LEMMA RecoverRead ==
    ASSUME case \in Cases, ~IsSandwich(case)
    PROVE  /\ case.direction = "recover"
           /\ case.encoder = "helper" => data[1].name = "block" /\ LabelAt(1) = "recover_weth"
           /\ case.encoder = "bot" => data[1].name # "block" /\ ~WrittenAlike
           /\ case.encoder \in Encoders
<1>1. /\ IsPayload(case) /\ case.direction = "recover" /\ case.encoder \in Encoders
      /\ data = Calldata(case)
  BY PayloadAssumption DEF IsSandwich, IsPayload, data, CalldataOf
<1>2. data = Bytes(RecoverFields(case.encoder), 0)
  BY <1>1 DEF Calldata
<1>3. Calldata([case EXCEPT !.encoder = "helper"]) = Bytes(RecoverFields("helper"), 0)
  BY <1>1 DEF Calldata, IsPayload
<1>. HIDE DEF data
<1>4. CASE case.encoder = "helper"
  <2>1. LabelAt(1) = Jump(data, 1)
    BY DEF LabelAt, Jump
  <2>. QED  BY <1>1, <1>2, <1>4, <2>1, RecoverLaid
<1>5. CASE case.encoder = "bot"
  BY <1>1, <1>2, <1>3, <1>5, RecoverLaid DEF WrittenAlike
<1>. QED  BY <1>1, <1>4, <1>5 DEF Encoders

\* The swap of the ingredient whose turn it is.
LEMMA OneSwap ==
    ASSUME case \in Cases, IsSandwich(case), NEW i \in 1..Len(case.ingredients), AtGate(i)
    PROVE  /\ ~Wide(case) => Read(Handler(at), i)
           /\ \A j \in DOMAIN case.ingredients : Read(Handler(at), j) => j = i
<1>. DEFINE h == Handler(at)
<1>1. at \in SwapGates /\ Swaps(at, case.direction, case.ingredients[i])
      /\ (h.value => ValueOf(case) = i)
  BY GateFacts DEF AtGate
<1>2. CASE Wide(case)
  BY <1>2, SandwichFacts DEF Wide, Alone
<1>3. CASE ~Wide(case)
  <2>1. Finds(data, p, h, i)
    BY <1>3, SandwichRead DEF AtGate
  <2>2. p \in Nat /\ Len(data) \in Nat
    BY SandwichRead DEF AtGate
  <2>3. h.fields # {} /\ \A r \in h.fields : r.offset \in Int
    BY <1>1, NoSwapGates, OffsetsAreNumbers
  <2>. HIDE DEF h
  <2>4. ASSUME NEW r \in h.fields
        PROVE  /\ p + r.offset < Len(data)
               /\ data[p + r.offset + 1].name = r.name /\ data[p + r.offset + 1].of = i
               /\ data[p + r.offset + 1].nth = 1
    <3>1. r.offset \in Int /\ p + r.offset + 1 \in 1..Len(data)
      BY <2>1, <2>3 DEF Finds
    <3>2. p + r.offset < Len(data)
      BY <2>2, <3>1
    <3>. QED  BY <2>1, <3>2 DEF Finds
  <2>5. Read(h, i)
    BY <1>1, <2>4 DEF Read, h
  <2>6. ASSUME NEW j \in DOMAIN case.ingredients, Read(h, j)
        PROVE  j = i
    <3>1. PICK r \in h.fields : TRUE
      BY <2>3
    <3>2. data[p + r.offset + 1].of = j
      BY <2>6, <3>1 DEF Read
    <3>. QED  BY <2>4, <3>1, <3>2
  <2>. QED  BY <2>5, <2>6 DEF h
<1>. QED  BY <1>2, <1>3

-----------------------------------------------------------------------------
(* The invariant, step by step.                                            *)

LEMMA TrackInit == Init => Track
BY DEF Init, Track

LEMMA EnterTracks == Track /\ Enter => Track'
<1>. SUFFICES ASSUME Track, Enter PROVE Track'
  OBVIOUS
<1>1. /\ case \in Cases /\ EntryChecks /\ p = 0 /\ made = <<>>
      /\ case' = case /\ distance' = distance /\ searcher' = searcher
      /\ p' = p /\ made' = made /\ at' = LabelAt(1) /\ status' = "run"
  BY DEF Track, Enter, call
<1>2. EntryChecks'
  BY <1>1 DEF EntryChecks, data
<1>3. CASE IsSandwich(case)
  <2>1. 1 \in 1..Len(case.ingredients) /\ Reachable(case, 1) /\ made = SoFar(1 - 1)
    BY <1>1, <1>3, SandwichFacts, Appended DEF Reachable
  <2>2. CASE ~Prepares(case)
    <3>1. at' = GateOf(case, 1) /\ p = Base(case, StartOf(case), 1)
      BY <1>1, <1>3, <2>2, SandwichRead
    <3>2. AtGate(1)'
      BY <1>1, <2>1, <3>1 DEF AtGate
    <3>3. OnTrack'
      BY <1>1, <1>3, <2>1, <3>2 DEF OnTrack
    <3>. QED  BY <1>1, <1>2, <3>3 DEF Track
  <2>3. CASE Prepares(case) /\ case.encoder = "helper"
    <3>1. at' = "prepare_stack"
      BY <1>1, <1>3, <2>3, SandwichRead
    <3>2. OnTrack'
      BY <1>1, <1>3, <2>3, <3>1 DEF OnTrack
    <3>. QED  BY <1>1, <1>2, <3>2 DEF Track
  <2>4. CASE Prepares(case) /\ case.encoder = "bot"
    <3>1. at' = "invalid" /\ Own(case)
      BY <1>1, <1>3, <2>4, SandwichRead DEF Own, Prepares
    <3>2. OnTrack'
      BY <1>1, <3>1 DEF OnTrack
    <3>. QED  BY <1>1, <1>2, <3>2 DEF Track
  <2>. QED  BY <1>3, <2>2, <2>3, <2>4, SandwichFacts DEF Encoders
<1>4. CASE ~IsSandwich(case)
  <2>1. case.direction = "recover" /\ at' = "recover_weth"
    BY <1>1, <1>4, RecoverRead DEF EntryChecks, Encoders
  <2>2. OnTrack'
    BY <1>1, <2>1 DEF OnTrack
  <2>. QED  BY <1>1, <1>2, <2>2 DEF Track
<1>. QED  BY <1>3, <1>4

LEMMA CallbackTracks == Track /\ Callback => Track'
<1>. SUFFICES ASSUME Track, Callback PROVE Track'
  OBVIOUS
<1>1. /\ case \in Cases /\ ~EntryChecks /\ made = <<>>
      /\ case' = case /\ distance' = distance /\ searcher' = searcher
      /\ made' = made /\ status' \in {"stopped", "reverted"}
  BY DEF Track, Callback, call
<1>2. ~EntryChecks'
  BY <1>1 DEF EntryChecks, data
<1>. QED  BY <1>1, <1>2 DEF Track

LEMMA ExitTracks == Track /\ Exit => Track'
<1>. SUFFICES ASSUME Track, Exit PROVE Track'
  OBVIOUS
<1>1. /\ case \in Cases /\ EntryChecks /\ OnTrack /\ at = "exit"
      /\ case' = case /\ distance' = distance /\ searcher' = searcher
      /\ made' = made /\ status' = "stopped"
  BY DEF Track, Exit, call
<1>2. EntryChecks' /\ Wanted' = Wanted
  BY <1>1 DEF EntryChecks, data, Wanted
<1>3. made = Wanted
  <2>1. \A i \in 1..Len(case.ingredients) : ~(IsSandwich(case) /\ AtGate(i))
    BY <1>1, GateFacts, NoSwapGates DEF AtGate
  <2>. QED  BY <1>1, <2>1 DEF OnTrack
<1>. QED  BY <1>1, <1>2, <1>3 DEF Track

LEMMA PrepareStackTracks == Track /\ PrepareStack => Track'
<1>. SUFFICES ASSUME Track, PrepareStack PROVE Track'
  OBVIOUS
<1>1. /\ case \in Cases /\ EntryChecks /\ OnTrack /\ at = "prepare_stack" /\ status = "run"
      /\ case' = case /\ distance' = distance /\ searcher' = searcher
      /\ made' = made /\ status' = status /\ p' = 2 /\ at' = LabelAt(2)
  BY DEF Track, PrepareStack, call
<1>2. EntryChecks'
  BY <1>1 DEF EntryChecks, data
<1>3. made = <<>> /\ IsSandwich(case) /\ Prepares(case) /\ case.encoder = "helper"
  <2>1. \A i \in 1..Len(case.ingredients) : ~(IsSandwich(case) /\ AtGate(i))
    BY <1>1, GateFacts, NoSwapGates DEF AtGate
  <2>. QED  BY <1>1, <2>1 DEF OnTrack
<1>4. 1 \in 1..Len(case.ingredients) /\ Reachable(case, 1) /\ made = SoFar(1 - 1)
  BY <1>3, SandwichFacts, Appended DEF Reachable
<1>5. at' = GateOf(case, 1) /\ p' = Base(case, StartOf(case), 1)
  BY <1>1, <1>3, SandwichRead
<1>6. AtGate(1)'
  BY <1>1, <1>4, <1>5 DEF AtGate
<1>7. OnTrack'
  BY <1>1, <1>3, <1>4, <1>6 DEF OnTrack
<1>. QED  BY <1>1, <1>2, <1>7 DEF Track

LEMMA RecoverWethTracks == Track /\ RecoverWeth => Track'
<1>. SUFFICES ASSUME Track, RecoverWeth PROVE Track'
  OBVIOUS
<1>1. /\ case \in Cases /\ EntryChecks /\ OnTrack /\ at = "recover_weth" /\ status = "run"
      /\ case' = case /\ distance' = distance /\ searcher' = searcher
      /\ made' = <<0>> /\ status' = status /\ at' = "exit"
  BY DEF Track, RecoverWeth, call
<1>2. EntryChecks' /\ Wanted' = Wanted
  BY <1>1 DEF EntryChecks, data, Wanted
<1>3. case.direction = "recover"
  <2>1. \A i \in 1..Len(case.ingredients) : ~(IsSandwich(case) /\ AtGate(i))
    BY <1>1, GateFacts, NoSwapGates DEF AtGate
  <2>. QED  BY <1>1, <2>1 DEF OnTrack
<1>4. OnTrack'
  BY <1>1, <1>2, <1>3 DEF OnTrack, Wanted
<1>. QED  BY <1>1, <1>2, <1>4 DEF Track

LEMMA SucceedTracks == Track /\ Succeed => Track'
<1>. SUFFICES ASSUME Track, Succeed PROVE Track'
  OBVIOUS
<1>1. /\ case \in Cases /\ EntryChecks /\ OnTrack /\ at \in SwapGates /\ status = "run"
      /\ case' = case /\ distance' = distance /\ searcher' = searcher
      /\ status' = status
  BY DEF Track, Succeed, call
<1>2. EntryChecks' /\ Wanted' = Wanted
  BY <1>1 DEF EntryChecks, data, Wanted
<1>3. IsSandwich(case) /\ \E i \in 1..Len(case.ingredients) : AtGate(i)
  BY <1>1, NoSwapGates DEF OnTrack
<1>4. PICK i \in 1..Len(case.ingredients) : AtGate(i)
  BY <1>3
<1>. DEFINE n == Len(case.ingredients)
            next == Handler(at).next
<1>5. /\ made' = Append(made, i)
      /\ IF next = Stops THEN at' = "exit" /\ p' = p
         ELSE at' = LabelAt(p + next) /\ p' = p + next
  <2>1. PICK j \in DOMAIN case.ingredients : Swap(j)
    BY DEF Succeed
  <2>2. Read(Handler(at), j)
    BY <2>1 DEF Swap
  <2>3. j = i
    BY <1>1, <1>3, <1>4, <2>2, OneSwap
  <2>. QED  BY <2>1, <2>3 DEF Swap
<1>6. n \in Nat \ {0} /\ i \in Nat \ {0} /\ Wanted = SoFar(n)
  BY <1>3, SandwichFacts DEF Wanted, IsSandwich, SoFar
<1>7. made' = SoFar(i) /\ at = GateOf(case, i) /\ p = Base(case, StartOf(case), i)
      /\ Reachable(case, i)
  BY <1>4, <1>5, <1>6, Appended DEF AtGate
<1>8. OnTrack'
  <2>1. CASE Alone(case)
    <3>1. i = n /\ next = Stops
      BY <1>3, <1>6, <1>7, <2>1, GateFacts DEF Alone
    <3>. QED  BY <1>1, <1>2, <1>5, <1>6, <1>7, <3>1 DEF OnTrack
  <2>2. CASE ~Alone(case)
    <3>1. next # Stops
      BY <1>3, <1>7, <2>2, GateFacts DEF Stops
    <3>2. at' = IF case.encoder = "bot" THEN "invalid"
                ELSE IF i = n THEN "exit" ELSE GateOf(case, i + 1)
      BY <1>1, <1>3, <1>5, <1>7, <2>2, <3>1, SandwichRead
    <3>3. CASE case.encoder = "bot"
      <4>1. Own(case)
        BY <1>3, <2>2, <3>3 DEF Own
      <4>. QED  BY <1>1, <3>2, <3>3, <4>1 DEF OnTrack
    <3>4. CASE case.encoder = "helper" /\ i = n
      BY <1>1, <1>2, <1>6, <1>7, <3>2, <3>4 DEF OnTrack
    <3>5. CASE case.encoder = "helper" /\ i # n
      <4>1. i + 1 \in 1..n /\ i < n /\ (i + 1) - 1 = i
        BY <1>6, <3>5
      <4>2. p' = Base(case, StartOf(case), i + 1)
        BY <1>1, <1>3, <1>5, <1>7, <2>2, <3>1, <4>1, SandwichRead
      <4>3. AtGate(i + 1)'
        BY <1>1, <1>7, <3>2, <3>5, <4>1, <4>2 DEF AtGate, Reachable
      <4>. QED  BY <1>1, <1>3, <4>1, <4>3 DEF OnTrack
    <3>. QED  BY <1>3, <3>3, <3>4, <3>5, SandwichFacts DEF Encoders
  <2>. QED  BY <2>1, <2>2
<1>. QED  BY <1>1, <1>2, <1>8 DEF Track

LEMMA FailTracks == Track /\ Fail => Track'
BY DEF Track, Fail, call

\* A jump goes astray, and a swap finds what it does not expect, only in the
\* payloads that the bot writes in its own way.
LEMMA StrayTracks == Track /\ Stray => Track'
<1>. SUFFICES ASSUME Track, Stray PROVE Track'
  OBVIOUS
<1>1. /\ case \in Cases /\ OnTrack /\ at \notin {"exit", "prepare_stack", "recover_weth"}
      /\ case' = case /\ distance' = distance /\ searcher' = searcher
      /\ made' = <<>> /\ status' = "lost"
      /\ at \in SwapGates => \A i \in DOMAIN case.ingredients : ~Read(Handler(at), i)
  BY DEF Track, Stray, call
<1>2. Own(case)
  <2>1. CASE at = "invalid"
    <3>1. \A i \in 1..Len(case.ingredients) : ~(IsSandwich(case) /\ AtGate(i))
      BY <2>1, GateFacts, NoSwapGates DEF AtGate
    <3>. QED  BY <1>1, <2>1, <3>1 DEF OnTrack
  <2>2. CASE at # "invalid"
    <3>1. IsSandwich(case) /\ \E i \in 1..Len(case.ingredients) : AtGate(i)
      BY <1>1, <2>2 DEF OnTrack
    <3>2. PICK i \in 1..Len(case.ingredients) : AtGate(i)
      BY <3>1
    <3>3. at \in SwapGates /\ i \in DOMAIN case.ingredients
      BY <3>1, <3>2, GateFacts, SandwichFacts DEF AtGate
    <3>4. Wide(case)
      BY <1>1, <3>1, <3>2, <3>3, OneSwap
    <3>. QED  BY <3>1, <3>4 DEF Own, Wide
  <2>. QED  BY <2>1, <2>2
<1>3. Own(case)'
  BY <1>1, <1>2
<1>. QED  BY <1>1, <1>3 DEF Track

LEMMA StutterTracks == Track /\ UNCHANGED vars => Track'
<1>. SUFFICES ASSUME Track, UNCHANGED vars PROVE Track'
  OBVIOUS
<1>1. /\ case' = case /\ distance' = distance /\ searcher' = searcher /\ at' = at /\ p' = p
      /\ made' = made /\ status' = status
  BY DEF vars
<1>2. (EntryChecks' <=> EntryChecks) /\ Wanted' = Wanted /\ (OnTrack' <=> OnTrack)
  BY <1>1 DEF EntryChecks, data, Wanted, OnTrack, AtGate
<1>. QED  BY <1>1, <1>2 DEF Track

LEMMA NextTracks == Track /\ [Next]_vars => Track'
BY EnterTracks, CallbackTracks, ExitTracks, PrepareStackTracks, RecoverWethTracks, SucceedTracks,
   FailTracks, StrayTracks, StutterTracks DEF Next, Ended

\* The contract is on track, whatever the payload, the caller and the block.
THEOREM TrackHolds == Spec => []Track
BY TrackInit, NextTracks, PTL DEF Spec

\* A payload that lands in a later block, or is sent by another, does nothing.
THEOREM OnlyInItsBlockHolds == Spec => []OnlyInItsBlock
<1>1. Track => OnlyInItsBlock
  <2>. SUFFICES ASSUME Track, distance \in 1..255 \/ ~searcher PROVE made = <<>>
    BY DEF OnlyInItsBlock
  <2>1. ~EntryChecks
    <3>1. \A d \in 1..255 : d % 256 # 0
      OBVIOUS
    <3>. QED  BY <3>1 DEF EntryChecks
  <2>. QED  BY <2>1 DEF Track
<1>. QED  BY <1>1, TrackHolds, PTL

\* A call that ends without an error has made all swaps of its payload or none,
\* whichever program wrote it.
THEOREM NeverHalfHolds == Spec => []NeverHalf
<1>1. Track => NeverHalf
  BY DEF Track, NeverHalf
<1>. QED  BY <1>1, TrackHolds, PTL

\* The searcher's call in its block makes every swap in order or is undone,
\* for each payload that the bot and the contract's tests write alike.
THEOREM AlikeAllOrNothingHolds == Spec => []AlikeAllOrNothing
<1>1. Track => AlikeAllOrNothing
  <2>. SUFFICES ASSUME Track, WrittenAlike, searcher, distance = 0
                PROVE  /\ status = "stopped" => made = Wanted
                       /\ status = "reverted" => made = <<>>
                       /\ status # "lost"
    BY DEF AlikeAllOrNothing, AllOrNothing
  <2>1. case \in Cases /\ data = Calldata(case)
    BY DEF Track, data, CalldataOf
  <2>2. ~Own(case)
    BY <2>1, BotDiffers DEF Own, WrittenAlike
  <2>3. EntryChecks
    <3>1. data[1].name = "block"
      BY <2>1, SandwichRead, RecoverRead DEF Encoders
    <3>2. 0 % 256 = 0
      OBVIOUS
    <3>. QED  BY <3>1, <3>2 DEF EntryChecks
  <2>. QED  BY <2>2, <2>3 DEF Track
<1>. QED  BY <1>1, TrackHolds, PTL
=============================================================================
