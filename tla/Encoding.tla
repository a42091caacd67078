------------------------------ MODULE Encoding ------------------------------
(***************************************************************************)
(* Amounts in few bytes (src/bot/src/utils/tx_builder/sandwich): an amount *)
(* is cut at the right by whole bytes until the rest fits; the contract    *)
(* puts the rest back to where it was and reads zeros for what was cut.    *)
(***************************************************************************)
EXTENDS Integers

CONSTANTS Pow,          \* Pow[i]: 256^i
          MaxShift,     \* an amount is cut by so many bytes at most
          Limit,        \* the largest number that is not cut, by variant
          WethUnit      \* 2^32: WETH amounts are given in multiples of it

Variants == {"v2", "v3"}
Shifts == 0..MaxShift

ASSUME EncodingAssumption ==
    /\ MaxShift \in Nat
    /\ Pow \in [Shifts -> Nat \ {0}]
    /\ Pow[0] = 1
    /\ \A i, k \in Shifts : i <= k => Pow[k] % Pow[i] = 0
    /\ Limit \in [Variants -> Nat \ {0}]
    /\ WethUnit \in Nat \ {0}

\* what can be encoded at all: the code looks no further than MaxShift
Encodable(amount, variant) == amount \div Pow[MaxShift] <= Limit[variant]

IsShiftOf(i, amount, variant) ==
    /\ amount \div Pow[i] <= Limit[variant]
    /\ \A k \in Shifts : amount \div Pow[k] <= Limit[variant] => i <= k

\* encode_four_bytes of V2, encode_num_bytes of V3 with five
ShiftOf(amount, variant) == CHOOSE i \in Shifts : IsShiftOf(i, amount, variant)
Encoded(amount, variant) == amount \div Pow[ShiftOf(amount, variant)]

\* the amount that is left of it
DecodeIntermediary(amount, variant) ==
    Encoded(amount, variant) * Pow[ShiftOf(amount, variant)]

\* faulty variant: no dust is kept
EncodeIntermediaryAll(amount, variant) == DecodeIntermediary(amount, variant)

\* the amount to sell, of an amount that encodes to more than zero: one less of
\* the last byte that is kept
EncodeIntermediary(amount, variant) ==
    (Encoded(amount, variant) - 1) * Pow[ShiftOf(amount, variant)]

EncodeWeth(amount) == (amount \div WethUnit) * WethUnit
=============================================================================
