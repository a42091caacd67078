------------------------------- MODULE Payload -------------------------------
(***************************************************************************)
(* How the contract (src/contract/src/sandwich.huff) reads and performs    *)
(* the calldata of a sandwich transaction: the first byte is the block     *)
(* number, the second the code offset of a gate, every swap of a payload   *)
(* of several ends in a jump to the gate that the byte behind it names.    *)
(*                                                                         *)
(* Swaps succeed when every field is read where it starts; what they ask   *)
(* of tokens and pools is put together in memory, which all swaps of a     *)
(* call share.  Tokens and pools themselves are left out.                  *)
(***************************************************************************)
EXTENDS TxBuilder

CONSTANTS Cases,        \* the payloads to run: encoder, direction, ingredients
          Distances,    \* blocks between the one meant and the one of the call
          Returned      \* the words that a V3 pool may answer a swap with

ASSUME PayloadAssumption ==
    /\ \A c \in Cases : IsPayload(c)
    /\ Distances \subseteq Nat
    /\ \A word \in Returned : DOMAIN word \subseteq 0..(WordSize - 1)

-----------------------------------------------------------------------------
\* Reading.  Where a handler reads its fields, counted from the base p on the
\* stack, whether it reads the value of the call, and where the byte is that it
\* jumps to; a single swap stops.
R(name, offset) == [name |-> name, offset |-> offset]
Stops == -1
Reads(fields, value, next) == [fields |-> fields, value |-> value, next |-> next]

V2SingleGates == {"v2_input_single", "v2_output0_single", "v2_output1_single"}
V2SingleHandler(g) ==
    IF g = "v2_input_single"
    THEN Reads({R("offOut", 2), R("pair", 3), R("out", 23)}, TRUE, Stops)
    ELSE Reads({R("offIn", 2), R("pair", 3), R("token", 23), R("in", 43)}, TRUE, Stops)

V2MultiGates == {"v2_input_multi_first", "v2_input_multi_next",
                 "v2_output_multi_first", "v2_output_multi_next"}
V2MultiHandler(g) ==
    CASE g = "v2_input_multi_first" ->
            Reads({R("offOut", 2), R("pair", 3), R("out", 23)}, TRUE, 27)
      [] g = "v2_input_multi_next" ->
            Reads({R("offOut", 1), R("pair", 2), R("out", 22), R("in", 26)}, FALSE, 31)
      [] g = "v2_output_multi_first" ->
            Reads({R("offIn", 2), R("pair", 3), R("token", 23), R("in", 43), R("offOut", 47)},
                  TRUE, 48)
      [] g = "v2_output_multi_next" ->
            Reads({R("offIn", 1), R("pair", 2), R("token", 22), R("in", 42), R("out", 46),
                   R("offOut", 51)}, FALSE, 52)

V3SingleGates == {"v3_input0", "v3_input1", "v3_output0", "v3_output1"}
V3SingleHandler(g) ==
    IF g \in {"v3_input0", "v3_input1"}
    THEN Reads({R("pair", 2), R("shift", 22), R("out", 23), R("hash", 27)}, TRUE, Stops)
    ELSE Reads({R("pair", 2), R("shift", 22), R("in", 23), R("token", 28), R("hash", 48)},
               TRUE, Stops)

V3MultiGates == {"v3_input0_multi", "v3_input1_multi", "v3_output0_multi", "v3_output1_multi"}
V3MultiHandler(g) ==
    IF g \in {"v3_input0_multi", "v3_input1_multi"}
    THEN Reads({R("pair", 1), R("shift", 21), R("in", 22), R("shift", 26), R("out", 27),
                R("hash", 32)}, FALSE, 64)
    ELSE Reads({R("pair", 1), R("shift", 21), R("out", 22), R("shift", 26), R("in", 27),
                R("token", 32), R("hash", 52)}, FALSE, 84)

SwapGates == V2SingleGates \union V2MultiGates \union V3SingleGates \union V3MultiGates
Handler(g) ==
    CASE g \in V2SingleGates -> V2SingleHandler(g)
      [] g \in V2MultiGates -> V2MultiHandler(g)
      [] g \in V3SingleGates -> V3SingleHandler(g)
      [] g \in V3MultiGates -> V3MultiHandler(g)

\* the swap that a gate stands for; a V2 handler but one finds the side of
\* WETH from the offsets in the calldata
Swaps(g, direction, ing) ==
    g \in IF ing.variant = "v2"
          THEN IF direction = "input"
               THEN {"v2_input_single", "v2_input_multi_first", "v2_input_multi_next"}
               ELSE {Side(ing.weth0, "v2_output0_single", "v2_output1_single"),
                     "v2_output_multi_first", "v2_output_multi_next"}
          ELSE {V3Gate(direction, ing.weth0), V3MultiGate(direction, ing.weth0)}

VARIABLES
    case,       \* the payload of the call
    distance,   \* block of the call less the block the payload is meant for
    searcher,   \* is the caller the searcher
    at,         \* the handler that runs
    p,          \* the position on the stack, 0 before there is one
    made,       \* the ingredients swapped so far
    memory,     \* of the contract's call
    asked,      \* what the last swap asked of a token and its pool
    status      \* "start", "run", "stopped", "reverted" by a swap that fails,
                \* or "lost": jumped astray or read the wrong bytes

vars == <<case, distance, searcher, at, p, made, memory, asked, status>>
call == <<case, distance, searcher>>
calls == <<memory, asked>>

MemorySize == 249

TypeOK ==
    /\ IsPayload(case) /\ distance \in Distances /\ searcher \in BOOLEAN
    /\ at \in ToSet(Gates) \union {"MAIN", "exit", "invalid"}
    /\ p \in Nat
    /\ \/ made = <<0>>
       \/ made \in Seq(DOMAIN case.ingredients) /\ Len(made) <= Len(case.ingredients)
    /\ DOMAIN memory \subseteq 0..(MemorySize - 1)
    /\ \A k \in DOMAIN asked : DOMAIN asked[k] = {"to", "data"}
    /\ status \in {"start", "run", "stopped", "reverted", "lost"}

Init ==
    /\ case \in Cases /\ distance \in Distances /\ searcher \in BOOLEAN
    /\ at = "MAIN" /\ p = 0 /\ made = <<>>
    /\ memory = Zero /\ asked = <<>>
    /\ status = "start"

CalldataOf == [c \in Cases |-> Calldata(c)]
data == CalldataOf[case]    \* byte b of the calldata is data[b + 1]

\* faulty variant: a byte that names no destination stops
LabelAtStops(b) == IF b < Len(data) /\ data[b + 1].val >= 0 THEN GateAt(data[b + 1].val)
                   ELSE "exit"

\* the jump that byte b names; a byte of data is taken to name none
LabelAt(b) == IF b < Len(data) /\ data[b + 1].val >= 0 THEN GateAt(data[b + 1].val)
              ELSE "invalid"

\* faulty variant: the block number is not compared
EntryChecksCaller == data[1].name = "block" /\ searcher

\* the first byte is the number of the block, modulo 256: an ingredient's label
\* there is not, and neither is anybody else a searcher
EntryChecks == /\ data[1].name = "block"
               /\ distance % 256 = 0
               /\ searcher

Enter ==
    /\ status = "start"
    /\ EntryChecks
    /\ at' = LabelAt(1)
    /\ status' = "run"
    /\ UNCHANGED <<call, p, made, calls>>

\* anything else is taken for the callback of a V3 pool: it ends the call of
\* the searcher, who is no pool, without an error and reverts another's
Callback ==
    /\ status = "start"
    /\ ~EntryChecks
    /\ at' = "exit"
    /\ status' = IF searcher THEN "stopped" ELSE "reverted"
    /\ UNCHANGED <<call, p, made, calls>>

Exit ==
    /\ status = "run" /\ at = "exit"
    /\ status' = "stopped"
    /\ UNCHANGED <<call, at, p, made, calls>>

\* faulty variant: the position is the one behind the label
PrepareStackBehind ==
    /\ status = "run" /\ at = "prepare_stack"
    /\ p' = 3
    /\ at' = LabelAt(2)
    /\ UNCHANGED <<call, made, status, calls>>

PrepareStack ==
    /\ status = "run" /\ at = "prepare_stack"
    /\ p' = 2
    /\ at' = LabelAt(2)
    /\ UNCHANGED <<call, made, status, calls>>

RecoverWeth ==
    /\ status = "run" /\ at = "recover_weth"
    /\ made' = <<0>>
    /\ at' = "exit"
    /\ UNCHANGED <<call, p, status, calls>>

\* ingredient i is read: each of its fields where it begins
Read(h, i) ==
    /\ \A r \in h.fields :
        /\ p + r.offset < Len(data)
        /\ LET byte == data[p + r.offset + 1]
           IN  byte.name = r.name /\ byte.of = i /\ byte.nth = 1
    /\ h.value => ValueOf(case) = i
    /\ Swaps(at, case.direction, case.ingredients[i])

-----------------------------------------------------------------------------
\* What a swap asks for.  calldataload at byte b, of which so many bytes are
\* taken; behind the end of the calldata it reads zeros.
Load(b, taken) ==
    [k \in {l \in 0..(taken - 1) : b + l < Len(data)} |->
        LET byte == data[b + k + 1] IN <<<<byte.name, byte.of>>, byte.nth>>]

Address(b) == Shr(Load(b, 20), 12)
ByteAt(b) == data[b + 1].val

\* an amount of V3, behind the byte that tells its shift
Amount(b, taken) == Shr(Load(b + 1, taken), ByteAt(b))

\* WETH amounts are multiples of 2^32 of at most five bytes
WethField(i) == <<IF case.direction = "input" THEN "in" ELSE "out", i>>
Callvalue == Number(WethField(ValueOf(case)), 5)

Self == Number("self", 20)
WETH == AtLeft("WETH", 20)

\* a call that is given a part of the memory
Asks(to, m, from, size) == [to |-> to, memory |-> m, data |-> Slice(m, from, size)]

\* o: the position of the handler's fields less that of v2_*_multi_next; next:
\* not the first swap, so that it clears what an earlier one may have left
V2Input(o, in, taken, next) ==
    LET transfer == Cleared(memory ++ <<0, AtLeft("transferFrom", 4)>> ++ <<4, Self>>, 68, next)
                        ++ <<64, in>> ++ <<36, Address(o + 2)>>
        swap == transfer ++ <<0, AtLeft("swap", 4)>> ++ <<4, Zero>> ++ <<36, Zero>>
                         ++ <<ByteAt(o + 1), Load(o + 22, taken)>>
                         ++ <<68, Self>> ++ <<100, Number("0x80", 1)>>
    IN  <<Asks(WETH, transfer, 0, 100),
          Asks(Address(o + 2), Cleared(swap, 132, next), 0, 164)>>

\* v2_output_multi_next stores the pair last: it shares no byte with the amount
V2Transfer(o, taken, next) ==
    Asks(Address(o + 22),
         Cleared(memory, 36, next)
            ++ <<0, AtLeft("transfer", 4)>> ++ <<4, Address(o + 2)>>
            ++ <<ByteAt(o + 1), Load(o + 42, taken)>>,
         0, 68)

\* faulty variant: the arguments that a swap before this one wrote stay
V2OutputMultiSwapUncleared(m, o, out, offOut, next) ==
    Asks(Address(o + 2),
         m ++ <<offOut, out>> ++ <<36, Number("swap", 4)>>
           ++ <<132, Self>> ++ <<164, Number("0x80", 1)>>,
         64, 164)

\* m: the memory behind the transfer
V2OutputMultiSwap(m, o, out, offOut, next) ==
    Asks(Address(o + 2),
         Cleared(Cleared(Cleared(m, 68, next), 100, next)
                    ++ <<offOut, out>> ++ <<36, Number("swap", 4)>>
                    ++ <<132, Self>> ++ <<164, Number("0x80", 1)>>, 196, next),
         64, 164)

V2OutputMulti(transfer, o, out, offOut, next) ==
    <<transfer, V2OutputMultiSwap(transfer.memory, o, out, offOut, next)>>

\* m: the memory with the amount out in its place
V2OutputSingle(transfer, m) ==
    <<transfer, Asks(Address(3), m ++ <<68, Self>> ++ <<100, Number("0x80", 1)>>, 0, 164)>>

V2Calls(gate) ==
    CASE gate = "v2_input_single" -> V2Input(1, Callvalue, WordSize, FALSE)
      [] gate = "v2_input_multi_first" -> V2Input(1, Callvalue, 4, FALSE)
      [] gate = "v2_input_multi_next" -> V2Input(p, Shr(Load(p + 26, 5), 27), 4, TRUE)
      [] gate = "v2_output0_single" ->
            LET transfer == V2Transfer(1, WordSize, FALSE)
            IN  V2OutputSingle(transfer,
                    transfer.memory ++ <<4, Zero>> ++ <<36, Zero>>
                                    ++ <<0, Or(AtLeft("swap", 4), Callvalue)>>)
      [] gate = "v2_output1_single" ->
            LET transfer == V2Transfer(1, WordSize, FALSE)
            IN  V2OutputSingle(transfer,
                    transfer.memory ++ <<0, AtLeft("swap", 4)>> ++ <<4, Zero>>
                                    ++ <<32, Callvalue>>)
      [] gate = "v2_output_multi_first" ->
            V2OutputMulti(V2Transfer(1, 4, FALSE), 1, Callvalue, ByteAt(47), FALSE)
      [] gate = "v2_output_multi_next" ->
            V2OutputMulti(V2Transfer(p, 4, TRUE), p, Shr(Load(p + 46, 5), 27), ByteAt(p + 51),
                          TRUE)

\* isZeroForOne and the input token, packed
Packed(zeroForOne, token) ==
    IF zeroForOne THEN Or(AtLeft("true", 1), Shr(token, 1)) ELSE Shr(token, 1)

Limit(zeroForOne) ==
    Number(IF zeroForOne THEN "MIN_SQRT_PRICE_LIMIT" ELSE "MAX_SQRT_PRICE_LIMIT", 20)

\* stored: zeroForOne is; where it is not, it is to be false
V3Swap(to, stored, zeroForOne, amount, token, hash) ==
    LET begun == memory ++ <<0, AtLeft("v3Swap", 4)>> ++ <<4, Self>>
        m == IF stored
             THEN begun ++ <<36, IF zeroForOne THEN Number("true", 1) ELSE Zero>>
             ELSE begun
    IN  <<Asks(to,
               m ++ <<68, amount>> ++ <<100, Limit(zeroForOne)>>
                 ++ <<132, Number("0xa0", 1)>> ++ <<164, Number("0x35", 1)>>
                 ++ <<196, Packed(zeroForOne, token)>> ++ <<217, Load(hash, WordSize)>>,
               0, 249)>>

Weth32(word) == [k \in {l - 4 : l \in DOMAIN word} |-> word[k + 4]]     \* 0x20 shl

V3Calls(gate) ==
    CASE gate = "v3_input0" ->
            V3Swap(Address(2), TRUE, TRUE, Minus(Amount(22, 5)), WETH, 27)
      [] gate = "v3_input1" ->
            V3Swap(Address(2), FALSE, FALSE, Weth32(Callvalue), WETH, 27)
      [] gate = "v3_output0" ->
            V3Swap(Address(2), FALSE, FALSE, Amount(22, 5), Load(28, 20), 48)
      [] gate = "v3_output1" ->
            V3Swap(Address(2), TRUE, TRUE, Minus(Weth32(Callvalue)), Load(28, 20), 48)
      [] gate = "v3_input0_multi" ->
            V3Swap(Address(p + 1), TRUE, TRUE, Minus(Amount(p + 26, 5)), WETH, p + 32)
      [] gate = "v3_input1_multi" ->
            V3Swap(Address(p + 1), TRUE, FALSE, Amount(p + 21, 4), WETH, p + 32)
      [] gate = "v3_output0_multi" ->
            V3Swap(Address(p + 1), TRUE, FALSE, Amount(p + 26, 5), Load(p + 32, 20), p + 52)
      [] gate = "v3_output1_multi" ->
            V3Swap(Address(p + 1), TRUE, TRUE, Minus(Amount(p + 21, 4)), Load(p + 32, 20), p + 52)

Calls(gate) == IF gate \in V2SingleGates \union V2MultiGates
               THEN V2Calls(gate) ELSE V3Calls(gate)

\* A V3 pool returns the amounts of both tokens, two words that its call has
\* written over the first of the memory; the other calls keep no answer.
Answered(gate, m) ==
    IF gate \in V3SingleGates \union V3MultiGates
    THEN {m ++ <<0, amount0>> ++ <<32, amount1>> : amount0, amount1 \in Returned}
    ELSE {m}

Perform(gate, asks) ==
    /\ memory' \in Answered(gate, Last(asks).memory)
    /\ asked' = [k \in DOMAIN asks |-> [to |-> asks[k].to, data |-> asks[k].data]]

-----------------------------------------------------------------------------
\* faulty variant: the position on the stack is where it was
SwapInPlace(i) ==
    LET h == Handler(at)
    IN  /\ Read(h, i)
        /\ made' = Append(made, i)
        /\ Perform(at, Calls(at))
        /\ at' = IF h.next = Stops THEN "exit" ELSE LabelAt(p + h.next)
        /\ p' = p

\* a swap succeeds: jump to what the byte behind it names
Swap(i) ==
    LET h == Handler(at)
    IN  /\ Read(h, i)
        /\ made' = Append(made, i)
        /\ Perform(at, Calls(at))
        /\ IF h.next = Stops
           THEN at' = "exit" /\ p' = p
           ELSE at' = LabelAt(p + h.next) /\ p' = p + h.next

Succeed ==
    /\ status = "run" /\ at \in SwapGates
    /\ \E i \in DOMAIN case.ingredients : Swap(i)
    /\ UNCHANGED <<call, status>>

\* a swap fails, or a V3 pool's answer falls short, since the price has moved:
\* the whole call is undone
Fail ==
    /\ status = "run" /\ at \in SwapGates \union {"recover_weth"}
    /\ made' = <<>>
    /\ memory' = Zero /\ asked' = <<>>
    /\ status' = "reverted"
    /\ UNCHANGED <<call, at, p>>

\* no such destination, or a swap of what nobody wrote
Stray ==
    /\ status = "run"
    /\ at \notin {"exit", "prepare_stack", "recover_weth"}
    /\ at \in SwapGates => \A i \in DOMAIN case.ingredients : ~Read(Handler(at), i)
    /\ made' = <<>>
    /\ memory' = Zero /\ asked' = <<>>
    /\ status' = "lost"
    /\ UNCHANGED <<call, at, p>>

Ended == status \notin {"start", "run"} /\ UNCHANGED vars

Next == Enter \/ Callback \/ Exit \/ PrepareStack \/ RecoverWeth
            \/ Succeed \/ Fail \/ Stray \/ Ended

Spec == Init /\ [][Next]_vars
-----------------------------------------------------------------------------
\* What the payload is for: every ingredient in turn.
Wanted ==
    IF case.direction = "recover" THEN <<0>>
    ELSE [i \in DOMAIN case.ingredients |-> i]

\* The searcher's call in the block it is meant for swaps every ingredient
\* once and in order, each with its own amounts, or is undone as a whole by a
\* swap that fails: what the encoder wrote is what the contract reads.
\* Mev.t.sol asserts so of every kind of payload ("calling swap failed").
AllOrNothing ==
    (searcher /\ distance = 0) =>
        CASE status = "stopped" -> made = Wanted
          [] status = "reverted" -> made = <<>>
          [] status = "lost" -> FALSE
          [] OTHER -> TRUE

\* What the transfer and the swaps of an ingredient are to be asked for: its own
\* pool, tokens and amounts, the amounts at their place in the number.
Wanted2(i, transfer) ==
    LET ing == case.ingredients[i]
        own(name, width, shift) == Scaled(<<name, i>>, width, shift)
        multi == Len(case.ingredients) > 1
        weth == IF multi /\ case.direction = "output" THEN ing.wethShift ELSE 4
        out == IF case.direction = "input" THEN own("out", 4, ing.shift)
                                           ELSE own("out", 5, weth)
        first == (case.direction = "output") = ing.weth0
    IN  IF ~transfer
        THEN [to |-> own("pair", 20, 0),
              data |-> Abi("swap", (IF first THEN <<out, Zero>> ELSE <<Zero, out>>)
                                    \o <<Self, Number("0x80", 1), Zero>>)]
        ELSE IF case.direction = "input"
        THEN [to |-> WETH,
              data |-> Abi("transferFrom", <<Self, own("pair", 20, 0), own("in", 5, 4)>>)]
        ELSE [to |-> own("token", 20, 0),
              data |-> Abi("transfer", <<own("pair", 20, 0), own("in", 4, ing.shift)>>)]

Wanted3(i) ==
    LET ing == case.ingredients[i]
        own(name, width, shift) == Scaled(<<name, i>>, width, shift)
        input == case.direction = "input"
        zeroForOne == input = ing.weth0
        weth(name) == IF Len(case.ingredients) > 1 THEN own(name, 4, ing.wethShift)
                                                  ELSE own(name, 5, 4)
        other(name) == own(name, IF input /\ Len(case.ingredients) = 1
                                 THEN V3OutWidth(case.encoder) ELSE 5, ing.shift)
        amount == IF zeroForOne THEN Minus(IF input THEN other("out") ELSE weth("out"))
                                ELSE IF input THEN weth("in") ELSE other("in")
        token == IF input THEN WETH ELSE AtLeft(<<"token", i>>, 20)
    IN  [to |-> own("pair", 20, 0),
         data |-> Abi("v3Swap",
                      <<Self, IF zeroForOne THEN Number("true", 1) ELSE Zero, amount,
                        Limit(zeroForOne), Number("0xa0", 1), Number("0x35", 1)>>)
                    ++ <<196, Packed(zeroForOne, token)>>
                    ++ <<217, AtLeft(<<"hash", i>>, WordSize)>>]

WantedCalls(i) == IF case.ingredients[i].variant = "v2"
                  THEN <<Wanted2(i, TRUE), Wanted2(i, FALSE)>> ELSE <<Wanted3(i)>>

\* Whatever the stores and the answers before it left in memory, of this swap or
\* of an earlier one, every call of a token or a pool carries the pool, the tokens and the
\* amounts of its own ingredient and nothing else.
AsksWhatIsMeant == asked # <<>> => asked = WantedCalls(Last(made))

\* Two of the single swaps: a backrun of a pool whose second token is WETH leaves
\* bytes of the amount in where an amount out ends, and v3_input0 takes a byte
\* of the hash for the amount of the tests' four bytes.
LeavesBytes ==
    /\ Len(case.ingredients) = 1
    /\ LET ing == case.ingredients[1]
       IN  \/ /\ case.direction = "output" /\ ing.variant = "v2"
              /\ ~ing.weth0 /\ ing.shift < 4
           \/ /\ case.direction = "input" /\ ing.variant = "v3"
              /\ ing.weth0 /\ ing.shift > 0

\* AsksWhatIsMeant of every other handler, through every mixture of V2 and V3
\* swaps that share one memory.
OthersAskWhatIsMeant == ~LeavesBytes => AsksWhatIsMeant

\* The bot and the contract's tests write the same bytes for the payload.
WrittenAlike == data = Calldata([case EXCEPT !.encoder = "helper"])

\* AllOrNothing of the payloads that both programs write alike: all of the
\* tests', and the bot's single swaps except a V3 frontrun.
AlikeAllOrNothing == WrittenAlike => AllOrNothing

\* Whatever an encoder wrote, a call that ends without an error has made all
\* swaps of its payload or none: a half made sandwich is reverted.
NeverHalf ==
    status = "stopped" => made \in {<<>>, Wanted}

\* A payload that lands in a later block, or is sent by another, does
\* nothing, until the block number's last byte comes round again.
OnlyInItsBlock ==
    (distance \in 1..255 \/ ~searcher) => made = <<>>
=============================================================================
