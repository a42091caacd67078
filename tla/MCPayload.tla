------------------------------ MODULE MCPayload ------------------------------
EXTENDS Payload

CONSTANTS MaxParts,     \* ingredients of a payload
          Shifts        \* of the two amounts of an ingredient

Ingredients == {ing \in Ingredient : <<ing.shift, ing.wethShift>> \in Shifts}
Shapes(k) == [1..k -> Ingredients]

\* an amount that is not cut, and one that is cut by as much as there can be
MCShifts == {<<0, 4>>, <<MaxShift, 1>>}

\* no byte of an answer, and all of them
MCReturned == {Zero, AtLeft("returned", WordSize)}

Payload(encoder, direction, ingredients) ==
    [encoder |-> encoder, direction |-> direction, ingredients |-> ingredients]

Sandwiches(encoder, lengths) ==
    UNION {{Payload(encoder, direction, shape) : shape \in Shapes(k)} :
           direction \in {"input", "output"}, k \in lengths}

\* whatever the two programs write
Everything ==
    UNION {Sandwiches(encoder, 1..MaxParts) \union {Payload(encoder, "recover", <<>>)} :
           encoder \in Encoders}

BotMulti == Sandwiches("bot", 2..MaxParts)
BotV3Input ==
    {c \in Sandwiches("bot", {1}) :
        c.direction = "input" /\ c.ingredients[1].variant = "v3"}

\* the backruns of V2 pools, as the bot writes them
BotBackruns ==
    {c \in Sandwiches("bot", {1}) :
        c.direction = "output" /\ c.ingredients[1].variant = "v2"}
=============================================================================
