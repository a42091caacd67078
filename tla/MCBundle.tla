------------------------------ MODULE MCBundle ------------------------------
EXTENDS Bundle

CONSTANTS MaxMeats, MaxIngredients, MaxFeeOfParent, MaxLimit

Victim(hash, legacy, price, tip, tight) ==
    [hash |-> hash, legacy |-> legacy, price |-> price, tip |-> tip, tight |-> tight]

\* a tip up to the base fee, one above it, and a legacy transaction, as the
\* tests replay them, that takes the tip from the one before
Victims == {Victim(1, FALSE, BaseFee + 1, BaseFee, FALSE),
            Victim(2, FALSE, BaseFee + 1, BaseFee + 1, FALSE),
            Victim(3, TRUE, BaseFee + 1, 0, FALSE)}
\* a price that a new base fee has passed, in a recipe of an earlier block; a
\* tight gas limit
OddVictims == {Victim(4, FALSE, BaseFee - 1, 0, FALSE), Victim(5, TRUE, BaseFee, 0, TRUE)}

\* a pool's ingredient has each of its victims once; ingredients share victims
Raw(victims, lengths) ==
    {raw \in UNION {[variant : Variants, meats : [1..k -> victims]] : k \in lengths} :
        IsInjective(raw.meats)}

\* the domain of a function is a set that TLC has enumerated
Singles == DOMAIN [o \in [1..1 -> Raw(Victims \union OddVictims, {1})] |-> 0]
MCOrders ==
    DOMAIN [o \in UNION {[1..n -> Raw(Victims, 1..MaxMeats)] : n \in 0..MaxIngredients}
                    \union Singles |-> 0]

\* among them a fuller block whose step rounds to nothing
Latest ==
    {b \in [fee : BaseFee-3..MaxFeeOfParent, used : 0..MaxLimit, limit : 4..MaxLimit] :
        b.used <= b.limit /\ NextBaseFee(b) = BaseFee}

\* a victim in the mempool, and the blocks that it may come after, one pool of
\* those that it touches; the recipes of a block
MCTasks ==
    DOMAIN [t \in
        [path : {"mempool"}, order : Singles, latest : {CHOOSE b \in Latest : TRUE},
         slots : UNION {[1..n -> Slots] : n \in 1..2}, weth : BOOLEAN, pool : {1}]
        \union [path : {"mempool"}, order : Singles, latest : Latest,
                slots : {<<"in">>}, weth : {TRUE}, pool : {1}]
        \union [path : {"mega"}, order : MCOrders, latest : {CHOOSE b \in Latest : TRUE},
                slots : {<<>>}, weth : {FALSE}, pool : {1}] |-> 0]

\* nothing earned, the frontrun not covered, a bid below the base fee, and
\* bids of other gas than the frontrun's
Earns(revenue, frontGas, backGas) ==
    [revenue |-> revenue, frontGas |-> frontGas, backGas |-> backGas]
MCReports == {Earns(0, 1, 1), Earns(BaseFee - 1, 1, 1), Earns(2 * BaseFee, 1, 1),
              Earns(4 * BaseFee, 2, 1), Earns(5 * BaseFee, 1, 2)}

\* bytes of two bits, numbers of two bytes
MCPow == [k \in 0..MaxShift |-> 4 ^ k]
MCLimit == [variant \in Variants |-> IF variant = "v2" THEN 8 ELSE 15]
=============================================================================
