------------------------------ MODULE TxBuilder ------------------------------
(***************************************************************************)
(* The calldata of a sandwich transaction: how the bot writes it           *)
(* (src/bot/src/utils/tx_builder/sandwich/v2.rs and v3.rs, put together in *)
(* make_sandwich.rs) and how the contract's tests write it                 *)
(* (src/contract/test/helpers/MevHelper.sol).                              *)
(*                                                                         *)
(* Calldata is a sequence of bytes that know which field of which          *)
(* ingredient they belong to; jump labels, memory offsets and shifts have  *)
(* a value.                                                                *)
(***************************************************************************)
EXTENDS ContractMemory

Variants == {"v2", "v3"}
Encoders == {"bot", "helper"}
Directions == {"input", "output", "recover"}

\* by how many bytes the encoding cuts an amount; no reserve of a pool needs more
MaxShift == 11

\* shift and wethShift: of the amount of the other token and of that of WETH
Ingredient == [variant : Variants, weth0 : BOOLEAN,
               shift : 0..MaxShift, wethShift : 0..MaxShift]

IsPayload(c) ==
    /\ c \in [encoder : Encoders, direction : Directions, ingredients : Seq(Ingredient)]
    /\ (c.direction = "recover") <=> (c.ingredients = <<>>)

\* the gates of the contract: five bytes each, the first at offset 48; exit
\* is two bytes before it
Gates == <<"v2_input_single", "v2_output0_single", "v2_output1_single",
           "v3_input0", "v3_input1", "v3_output0", "v3_output1",
           "v2_input_multi_first", "v2_input_multi_next",
           "v2_output_multi_first", "v2_output_multi_next",
           "prepare_stack",
           "v3_input0_multi", "v3_input1_multi", "v3_output0_multi", "v3_output1_multi",
           "arbitrage_weth_input", "arbitrage_v2_swap_to_other", "arbitrage_v2_swap_to_this",
           "seppuku", "recover_weth", "deposit_weth">>

Offset(k) == 48 + 5 * (k - 1)

\* where a jump to byte b lands: a gate, exit, or no valid destination (also
\* for a byte of data, whose value is not known)
GateAt(b) ==
    IF b = 46 THEN "exit"
    ELSE IF \E k \in DOMAIN Gates : Offset(k) = b
         THEN Gates[CHOOSE k \in DOMAIN Gates : Offset(k) = b]
         ELSE "invalid"

HelperLabel(name) ==
    IF name = "exit" THEN 46 ELSE Offset(CHOOSE k \in DOMAIN Gates : Gates[k] = name)

\* the bot's own constants: the same but for three of them
BotLabel(name) ==
    CASE name = "exit" -> 37
      [] name = "prepare_stack" -> 94
      [] name = "recover_weth" -> 124
      [] OTHER -> HelperLabel(name)

Label(encoder, name) ==
    IF encoder = "bot" THEN BotLabel(name) ELSE HelperLabel(name)

-----------------------------------------------------------------------------
\* Writing.  A field is its name, its width in bytes and, for a label, an
\* offset or a shift, its value.
F(name, width) == [name |-> name, width |-> width, val |-> -1]
L(name, label) == [name |-> name, width |-> 1, val |-> label]
Block == F("block", 1)

Side(weth0, zero, one) == IF weth0 THEN zero ELSE one

V3Gate(direction, weth0) ==
    IF direction = "input" THEN Side(weth0, "v3_input0", "v3_input1")
                           ELSE Side(weth0, "v3_output0", "v3_output1")

V3MultiGate(direction, weth0) ==
    IF direction = "input" THEN Side(weth0, "v3_input0_multi", "v3_input1_multi")
                           ELSE Side(weth0, "v3_output0_multi", "v3_output1_multi")

V2MultiGate(direction, first) ==
    IF direction = "input"
    THEN IF first THEN "v2_input_multi_first" ELSE "v2_input_multi_next"
    ELSE IF first THEN "v2_output_multi_first" ELSE "v2_output_multi_next"

\* where the contract stores an amount so that it lands in its argument: the
\* amount in of transfer, the amount out of swap
OffIn(ing) == L("offIn", 64 - ing.shift)
OffOut(ing) == L("offOut", Side(ing.weth0, 64, 32) - ing.shift)
OffWethOut(ing) == L("offOut", Side(ing.weth0, 68, 100) - ing.wethShift)

\* how far the contract shifts an amount of so many bytes, in bytes
Shift(width, shift) == L("shift", WordSize - width - shift)

\* create_payload_weth_is_input, create_payload_weth_is_output of v2
V2Single(e, direction, ing) ==
    IF direction = "input"
    THEN <<Block, L("label", Label(e, "v2_input_single")),
           OffOut(ing), F("pair", 20), F("out", 4)>>
    ELSE <<Block,
           L("label", Label(e, Side(ing.weth0, "v2_output0_single", "v2_output1_single"))),
           OffIn(ing), F("pair", 20), F("token", 20), F("in", 4)>>

\* the tests write the amount out of a V3 frontrun in four bytes, the bot in five
V3OutWidth(e) == IF e = "bot" THEN 5 ELSE 4

\* ... of v3
V3Single(e, direction, ing) ==
    LET label == L("label", Label(e, V3Gate(direction, ing.weth0)))
        width == V3OutWidth(e)
    IN  IF direction = "input"
        THEN <<Block, label, F("pair", 20), Shift(width, ing.shift),
               F("out", width), F("hash", 32)>>
        ELSE <<Block, label, F("pair", 20), Shift(5, ing.shift),
               F("in", 5), F("token", 20), F("hash", 32)>>

\* create_multi_payload_weth_is_input, create_multi_payload_weth_is_output of v2
V2Multi(e, direction, ing, first) ==
    LET label == L("label", Label(e, V2MultiGate(direction, first)))
    IN  IF direction = "input"
        THEN <<label, OffOut(ing), F("pair", 20), F("out", 4)>>
                \o (IF first THEN <<>> ELSE <<F("in", 5)>>)
        ELSE <<label, OffIn(ing), F("pair", 20), F("token", 20), F("in", 4)>>
                \o (IF first THEN <<>> ELSE <<F("out", 5)>>) \o <<OffWethOut(ing)>>

\* ... of v3
V3Multi(e, direction, ing, first) ==
    LET label == L("label", Label(e, V3MultiGate(direction, ing.weth0)))
        prepare == IF first THEN <<L("prepare", Label(e, "prepare_stack"))>> ELSE <<>>
    IN  prepare \o
        IF direction = "input"
        THEN <<label, F("pair", 20), Shift(4, ing.wethShift), F("in", 4),
               Shift(5, ing.shift), F("out", 5), F("hash", 32)>>
        ELSE <<label, F("pair", 20), Shift(4, ing.wethShift), F("out", 4),
               Shift(5, ing.shift), F("in", 5), F("token", 20), F("hash", 32)>>

\* the part of ingredient i in a payload of several; the bot writes the block
\* number in front of each of them, the tests in front of the first
Part(c, i) ==
    LET ing == c.ingredients[i]
        multi == IF ing.variant = "v2"
                 THEN V2Multi(c.encoder, c.direction, ing, i = 1)
                 ELSE V3Multi(c.encoder, c.direction, ing, i = 1)
    IN  IF i = 1 \/ c.encoder = "bot" THEN <<Block>> \o multi ELSE multi

Fields(c, i) ==
    LET ing == c.ingredients[i]
    IN  IF Len(c.ingredients) = 1
        THEN IF ing.variant = "v2"
             THEN V2Single(c.encoder, c.direction, ing)
             ELSE V3Single(c.encoder, c.direction, ing)
        ELSE Part(c, i)

\* recover_weth: the bot sends the label alone
RecoverFields(e) ==
    (IF e = "bot" THEN <<>> ELSE <<Block>>) \o <<L("label", Label(e, "recover_weth"))>>

Bytes(fields, i) ==
    FlattenSeq([k \in DOMAIN fields |->
        [b \in 1..fields[k].width |->
            [name |-> fields[k].name, of |-> i, nth |-> b, val |-> fields[k].val]]])

Calldata(c) ==
    IF c.direction = "recover" THEN Bytes(RecoverFields(c.encoder), 0)
    ELSE FlattenSeq([i \in DOMAIN c.ingredients |-> Bytes(Fields(c, i), i)])
            \o (IF Len(c.ingredients) > 1
                THEN Bytes(<<L("end", Label(c.encoder, "exit"))>>, 0) ELSE <<>>)

\* the ingredient whose WETH amount is the value of the call, 0 for none
ValueOf(c) ==
    IF Len(c.ingredients) = 1 \/ (c.ingredients # <<>> /\ c.ingredients[1].variant = "v2")
    THEN 1 ELSE 0
=============================================================================
