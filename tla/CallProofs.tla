----------------------------- MODULE CallProofs -----------------------------
(***************************************************************************)
(* Proofs about what the contract asks of tokens and pools while it runs a *)
(* payload: the data of every call is cut out of a memory that all swaps   *)
(* of the payload share, and into which they store 32 bytes at a time, at  *)
(* offsets that the payload chooses.                                       *)
(*                                                                         *)
(* A memory, a word and the data of a call are compared byte by byte       *)
(* (Cell).  The first part says what each operation does to a byte, and    *)
(* when a part of memory is the data of a call by the rules of Solidity    *)
(* (SliceIsAbi).  The second has the memory of each kind of call, for any  *)
(* memory that an earlier swap left (the lemmas ending in Data, and        *)
(* Bounded for how far it reaches).  The third says that what a handler    *)
(* loads is the value of the field it means (LoadShown), the next two that *)
(* the calls of each handler are those its ingredient wants (the lemmas    *)
(* ending in Meant and Gate), and CallsMeant puts the gates together.  The *)
(* last part is the invariant.                                             *)
(***************************************************************************)
EXTENDS PayloadProofs

-----------------------------------------------------------------------------
(* Memory, byte by byte.                                                   *)

\* what is at an offset of a memory, a word or the data of a call: one byte, or
\* none for zero
Cell(f, a) == IF a \in DOMAIN f THEN {f[a]} ELSE {}

IsWord(word) == DOMAIN word \subseteq 0..31

IsMap(f) == f = [x \in DOMAIN f |-> f[x]] /\ DOMAIN f \subseteq Int

\* Two of them with the same bytes are equal.
LEMMA MapEqual ==
    ASSUME NEW f, NEW g, IsMap(f), IsMap(g), \A a \in Int : Cell(f, a) = Cell(g, a)
    PROVE  f = g
<1>1. \A a \in Int : a \in DOMAIN f <=> a \in DOMAIN g
  BY DEF Cell
<1>2. DOMAIN f = DOMAIN g
  BY <1>1 DEF IsMap
<1>3. \A a \in DOMAIN f : f[a] = g[a]
  BY <1>2 DEF Cell, IsMap
<1>4. f = [x \in DOMAIN f |-> f[x]] /\ g = [x \in DOMAIN g |-> g[x]]
  BY DEF IsMap
<1>5. [x \in DOMAIN f |-> f[x]] = [x \in DOMAIN g |-> g[x]]
  BY <1>2, <1>3
<1>. QED  BY <1>4, <1>5

LEMMA CellOfZero == \A a : Cell(Zero, a) = {}
BY DEF Cell, Zero

LEMMA CellOfAtLeft ==
    ASSUME NEW field, NEW width \in Nat, NEW k \in Int
    PROVE  Cell(AtLeft(field, width), k) =
              IF 0 <= k /\ k < width THEN {<<field, k + 1>>} ELSE {}
BY DEF Cell, AtLeft

LEMMA CellOfShr ==
    ASSUME NEW word, NEW bytes \in Nat, NEW k \in Int
    PROVE  Cell(Shr(word, bytes), k) =
              IF bytes <= k /\ k <= 31 THEN Cell(word, k - bytes) ELSE {}
BY DEF Cell, Shr, WordSize

LEMMA CellOfScaled ==
    ASSUME NEW field, NEW width \in Nat, NEW shift \in Nat, width + shift <= 32, NEW k \in Int
    PROVE  Cell(Scaled(field, width, shift), k) =
              IF 32 - width - shift <= k /\ k < 32 - shift
              THEN {<<field, k - (32 - width - shift) + 1>>} ELSE {}
<1>. DEFINE bytes == 32 - width - shift
            left == AtLeft(field, width)
<1>1. Scaled(field, width, shift) = Shr(left, bytes)
  BY DEF Scaled, WordSize
<1>2. bytes \in Nat /\ k - bytes \in Int
  OBVIOUS
<1>3. Cell(left, k - bytes) = IF 0 <= k - bytes /\ k - bytes < width
                              THEN {<<field, (k - bytes) + 1>>} ELSE {}
  BY <1>2, CellOfAtLeft
<1>. HIDE DEF left
<1>4. Cell(Shr(left, bytes), k) = IF bytes <= k /\ k <= 31 THEN Cell(left, k - bytes) ELSE {}
  BY <1>2, CellOfShr
<1>. QED  BY <1>1, <1>3, <1>4

LEMMA ScaledIsMoved ==
    ASSUME NEW field, NEW width \in Nat, NEW shift \in Nat, width + shift <= 32, NEW k \in Int
    PROVE  Cell(Scaled(field, width, shift), k) =
              IF 32 - width - shift <= k /\ k <= 31
              THEN Cell(AtLeft(field, width), k - (32 - width - shift)) ELSE {}
<1>. DEFINE bytes == 32 - width - shift
            left == AtLeft(field, width)
<1>1. Scaled(field, width, shift) = Shr(left, bytes)
  BY DEF Scaled, WordSize
<1>2. bytes \in Nat
  OBVIOUS
<1>. HIDE DEF left, bytes
<1>3. Cell(Shr(left, bytes), k) = IF bytes <= k /\ k <= 31 THEN Cell(left, k - bytes) ELSE {}
  BY <1>2, CellOfShr
<1>. QED  BY <1>1, <1>3 DEF left, bytes

LEMMA MovedFour ==
    ASSUME NEW field, NEW shift \in 0..11, NEW k \in 0..31
    PROVE  Cell(Scaled(field, 4, shift), k) =
              IF 28 - shift <= k THEN Cell(AtLeft(field, 4), k - (28 - shift)) ELSE {}
<1>1. 32 - 4 - shift = 28 - shift /\ 4 + shift <= 32 /\ shift \in Nat
  OBVIOUS
<1>. QED  BY <1>1, ScaledIsMoved

LEMMA CellOfOr ==
    ASSUME NEW word, NEW other, NEW k
    PROVE  Cell(Or(word, other), k) = IF k \in DOMAIN word THEN Cell(word, k) ELSE Cell(other, k)
BY DEF Cell, Or

\* A store writes all of its 32 bytes, zeros too, and nothing else.
LEMMA CellOfStore ==
    ASSUME NEW m, NEW offset \in Int, NEW word, IsWord(word), NEW a \in Int
    PROVE  Cell(m ++ <<offset, word>>, a) =
              IF offset <= a /\ a < offset + 32 THEN Cell(word, a - offset) ELSE Cell(m, a)
<1>. DEFINE span == Span(offset, 32)
            D == (DOMAIN m \ span) \union {offset + k : k \in DOMAIN word}
            f == [b \in D |-> IF b \in span THEN word[b - offset] ELSE m[b]]
<1>1. m ++ <<offset, word>> = f
  BY DEF ++, Mstore, WordSize
<1>2. a \in span <=> offset <= a /\ a < offset + 32
  BY DEF Span
<1>3. a \in D <=> IF a \in span THEN a - offset \in DOMAIN word ELSE a \in DOMAIN m
  <2>1. a \in {offset + k : k \in DOMAIN word} <=> a - offset \in DOMAIN word
    BY DEF IsWord
  <2>2. a - offset \in DOMAIN word => a \in span
    BY DEF IsWord, Span
  <2>. HIDE DEF span
  <2>. QED  BY <2>1, <2>2
<1>4. Cell(f, a) = IF a \in D THEN {f[a]} ELSE {}
  BY DEF Cell
<1>5. a \in D => f[a] = IF a \in span THEN word[a - offset] ELSE m[a]
  OBVIOUS
<1>. HIDE DEF span, D, f
<1>. QED  BY <1>1, <1>2, <1>3, <1>4, <1>5 DEF Cell

LEMMA CellOfCleared ==
    ASSUME NEW m, NEW offset \in Int, NEW clears \in BOOLEAN, NEW a \in Int
    PROVE  Cell(Cleared(m, offset, clears), a) =
              IF clears /\ offset <= a /\ a < offset + 32 THEN {} ELSE Cell(m, a)
<1>1. IsWord(Zero)
  BY DEF IsWord, Zero
<1>. QED  BY <1>1, CellOfStore, CellOfZero DEF Cleared

\* A call is given the bytes of its part of memory.
LEMMA CellOfSlice ==
    ASSUME NEW m, NEW from \in Int, NEW size \in Nat, NEW b \in Int
    PROVE  Cell(Slice(m, from, size), b) =
              IF 0 <= b /\ b < size THEN Cell(m, from + b) ELSE {}
<1>. DEFINE E == {a - from : a \in DOMAIN m \intersect Span(from, size)}
            f == [c \in E |-> m[c + from]]
<1>1. Slice(m, from, size) = f
  BY DEF Slice
<1>2. b \in E <=> 0 <= b /\ b < size /\ from + b \in DOMAIN m
  BY DEF Span
<1>3. b \in E => f[b] = m[from + b]
  OBVIOUS
<1>4. Cell(f, b) = IF b \in E THEN {f[b]} ELSE {}
  BY DEF Cell
<1>. HIDE DEF E, f
<1>. QED  BY <1>1, <1>2, <1>3, <1>4 DEF Cell

\* The data that is meant: four bytes of the signature, then the words.
LEMMA CellOfAbi ==
    ASSUME NEW signature, NEW S, NEW words \in Seq(S), NEW b \in Int
    PROVE  Cell(Abi(signature, words), b) =
              IF b < 0 \/ b >= 4 + 32 * Len(words) THEN {}
              ELSE IF b < 4 THEN {<<signature, b + 1>>}
              ELSE Cell(words[(b - 4) \div 32 + 1], (b - 4) % 32)
<1>. DEFINE end == 4 + 32 * Len(words)
            Word(c) == words[(c - 4) \div 32 + 1]
            In(c) == (c - 4) % 32
            D == {c \in 0..(end - 1) : c < 4 \/ In(c) \in DOMAIN Word(c)}
            abi(c) == IF c < 4 THEN <<signature, c + 1>> ELSE Word(c)[In(c)]
            f == [c \in D |-> abi(c)]
<1>1. Abi(signature, words) = f
  BY DEF Abi, WordSize
<1>2. end \in Nat
  OBVIOUS
<1>3. b \in D <=> b \in 0..(end - 1) /\ (b < 4 \/ In(b) \in DOMAIN Word(b))
  OBVIOUS
<1>4. b \in D => f[b] = abi(b)
  OBVIOUS
<1>5. Cell(f, b) = IF b \in D THEN {f[b]} ELSE {}
  BY DEF Cell
<1>6. b \in 0..(end - 1) <=> ~(b < 0 \/ b >= end)
  BY <1>2
<1>. HIDE DEF end, D, f
<1>. QED  BY <1>1, <1>3, <1>4, <1>5, <1>6 DEF Cell, end

LEMMA MapOfSlice ==
    ASSUME NEW m, NEW from \in Int, NEW size \in Nat
    PROVE  IsMap(Slice(m, from, size))
BY DEF IsMap, Slice, Span

LEMMA MapOfAbi ==
    ASSUME NEW signature, NEW S, NEW words \in Seq(S)
    PROVE  IsMap(Abi(signature, words))
BY DEF IsMap, Abi, WordSize

LEMMA MapOfStore ==
    ASSUME NEW m, DOMAIN m \subseteq Int, NEW offset \in Int, NEW word, IsWord(word)
    PROVE  IsMap(m ++ <<offset, word>>)
BY DEF IsMap, IsWord, ++, Mstore, WordSize, Span

\* the bytes of the memory are among the first MemorySize
Bounded(m) == DOMAIN m \subseteq 0..(MemorySize - 1)

\* A store that ends within the memory leaves it bounded.
LEMMA BoundedStore ==
    ASSUME NEW m, Bounded(m), NEW offset \in 0..217, NEW word, IsWord(word)
    PROVE  Bounded(m ++ <<offset, word>>)
BY DEF Bounded, MemorySize, IsWord, ++, Mstore, WordSize, Span

LEMMA BoundedCleared ==
    ASSUME NEW m, Bounded(m), NEW offset \in 0..217, NEW clears
    PROVE  Bounded(Cleared(m, offset, clears))
<1>1. IsWord(Zero)
  BY DEF IsWord, Zero
<1>. QED  BY <1>1, BoundedStore DEF Cleared

LEMMA WordOfAtLeft ==
    ASSUME NEW field, NEW width \in 0..32 PROVE IsWord(AtLeft(field, width))
BY DEF IsWord, AtLeft

LEMMA WordOfShr ==
    ASSUME NEW word, NEW bytes \in Nat
    PROVE  IsWord(Shr(word, bytes))
BY DEF IsWord, Shr, WordSize

LEMMA WordOfScaled ==
    ASSUME NEW field, NEW width \in Nat, NEW shift \in Nat, width + shift <= 32
    PROVE  IsWord(Scaled(field, width, shift))
BY WordOfShr DEF Scaled, WordSize

LEMMA WordOfOr ==
    ASSUME NEW word, IsWord(word), NEW other, IsWord(other) PROVE IsWord(Or(word, other))
BY DEF IsWord, Or

LEMMA WordOfMinus ==
    ASSUME NEW word
    PROVE  IsWord(Minus(word))
BY DEF IsWord, Minus, WordSize

\* The constants of a call are words.
LEMMA FixedWords ==
    /\ IsWord(Zero) /\ IsWord(Self) /\ IsWord(WETH)
    /\ \A name : IsWord(AtLeft(name, 4))
    /\ \A name : IsWord(Number(name, 1))
    /\ \A name : IsWord(Number(name, 4))
    /\ \A name : IsWord(Number(name, 5))
    /\ \A zeroForOne : IsWord(Limit(zeroForOne))
<1>1. \A name : IsWord(Number(name, 1))
  BY WordOfScaled DEF Number
<1>2. \A name : IsWord(Number(name, 4))
  BY WordOfScaled DEF Number
<1>3. \A name : IsWord(Number(name, 5))
  BY WordOfScaled DEF Number
<1>4. \A name : IsWord(Number(name, 20))
  BY WordOfScaled DEF Number
<1>5. IsWord(Zero)
  BY DEF IsWord, Zero
<1>6. \A name : IsWord(AtLeft(name, 4))
  BY WordOfAtLeft
<1>7. \A name : IsWord(AtLeft(name, 20))
  BY WordOfAtLeft
<1>8. IsWord(Self) /\ IsWord(WETH) /\ \A zeroForOne : IsWord(Limit(zeroForOne))
  BY <1>4, <1>7 DEF Self, WETH, Limit
<1>. QED  BY <1>1, <1>2, <1>3, <1>5, <1>6, <1>8

LEMMA Places ==
    ASSUME NEW n \in Nat, NEW b \in 4..(4 + 32 * n - 1)
    PROVE  /\ (b - 4) \div 32 + 1 \in 1..n /\ (b - 4) % 32 \in 0..31
           /\ 4 + 32 * ((b - 4) \div 32 + 1 - 1) + ((b - 4) % 32) = b
<1>1. \A x \in Nat : x \div 32 \in Nat /\ x % 32 \in 0..31 /\ x = 32 * (x \div 32) + (x % 32)
  OBVIOUS
<1>2. b - 4 \in Nat /\ b - 4 < 32 * n
  OBVIOUS
<1>. DEFINE q == (b - 4) \div 32
            r == (b - 4) % 32
<1>3. q \in Nat /\ r \in 0..31 /\ b - 4 = 32 * q + r
  BY <1>1, <1>2
<1>. HIDE DEF q, r
<1>4. q + 1 \in 1..n /\ 4 + 32 * (q + 1 - 1) + r = b
  BY <1>2, <1>3
<1>. QED  BY <1>3, <1>4 DEF q, r

\* A part of the memory is the data of a call when it shows the signature and
\* then word by word what the call is given.
Signed(m, from, signature) == \A b \in 0..3 : Cell(m, from + b) = {<<signature, b + 1>>}

ShownAt(m, a, word) == \A l \in 0..31 : Cell(m, a + l) = Cell(word, l)

LEMMA ZeroShown ==
    ASSUME NEW m, NEW a, \A l \in 0..31 : Cell(m, a + l) = {}
    PROVE  ShownAt(m, a, Zero)
BY CellOfZero DEF ShownAt

LEMMA SliceIsAbi ==
    ASSUME NEW m, NEW from \in Int, NEW signature, NEW S, NEW words \in Seq(S),
           Signed(m, from, signature),
           \A k \in 1..Len(words) : ShownAt(m, from + (4 + 32 * (k - 1)), words[k])
    PROVE  Slice(m, from, 4 + 32 * Len(words)) = Abi(signature, words)
<1>. DEFINE n == Len(words)
            size == 4 + 32 * n
            slice == Slice(m, from, size)
            abi == Abi(signature, words)
<1>1. n \in Nat /\ size \in Nat
  OBVIOUS
<1>2. IsMap(slice) /\ IsMap(abi)
  BY <1>1, MapOfSlice, MapOfAbi
<1>3. ASSUME NEW b \in Int
      PROVE  Cell(slice, b) = Cell(abi, b)
  <2>. DEFINE k == (b - 4) \div 32 + 1
              l == (b - 4) % 32
  <2>1. Cell(slice, b) = IF 0 <= b /\ b < size THEN Cell(m, from + b) ELSE {}
    BY <1>1, CellOfSlice
  <2>2. Cell(abi, b) = IF b < 0 \/ b >= size THEN {}
                       ELSE IF b < 4 THEN {<<signature, b + 1>>} ELSE Cell(words[k], l)
    BY CellOfAbi
  <2>. HIDE DEF slice, abi
  <2>3. CASE b < 0 \/ b >= size
    BY <1>1, <2>1, <2>2, <2>3
  <2>4. CASE b \in 0..3
    <3>1. b < size /\ 0 <= b /\ b < 4 /\ ~(b < 0 \/ b >= size)
      BY <1>1, <2>4
    <3>2. Cell(m, from + b) = {<<signature, b + 1>>}
      BY <2>4 DEF Signed
    <3>. HIDE DEF size
    <3>. QED  BY <2>1, <2>2, <3>1, <3>2
  <2>5. CASE b \in 4..(size - 1)
    <3>. DEFINE place == 4 + 32 * (k - 1) + l
    <3>1. k \in 1..n /\ l \in 0..31 /\ place = b
      <4>1. b \in 4..(4 + 32 * n - 1)
        BY <2>5
      <4>2. n \in Nat
        BY <1>1
      <4>. HIDE DEF n, k, l, place, size
      <4>3. /\ (b - 4) \div 32 + 1 \in 1..n /\ (b - 4) % 32 \in 0..31
            /\ 4 + 32 * ((b - 4) \div 32 + 1 - 1) + ((b - 4) % 32) = b
        BY <4>1, <4>2, Places
      <4>. QED  BY <4>3 DEF k, l, place
    <3>2. ~(b < 0 \/ b >= size) /\ 0 <= b /\ ~(b < 4) /\ b < size
      BY <1>1, <2>5
    <3>. HIDE DEF k, l, size
    <3>3. Cell(m, from + place) = Cell(words[k], l)
      <4>1. k \in 1..Len(words) /\ k \in Int /\ l \in Int
        BY <3>1 DEF n
      <4>2. ShownAt(m, from + (4 + 32 * (k - 1)), words[k])
        BY <4>1
      <4>3. Cell(m, (from + (4 + 32 * (k - 1))) + l) = Cell(words[k], l)
        BY <3>1, <4>2 DEF ShownAt
      <4>4. (from + (4 + 32 * (k - 1))) + l = from + place
        BY <4>1
      <4>. QED  BY <4>3, <4>4
    <3>. HIDE DEF n, place
    <3>. QED  BY <2>1, <2>2, <3>1, <3>2, <3>3
  <2>. HIDE DEF k, l
  <2>6. (b < 0 \/ b >= size) \/ b \in 0..3 \/ b \in 4..(size - 1)
    <3>. HIDE DEF size
    <3>. QED  BY <1>1
  <2>. QED  BY <2>3, <2>4, <2>5, <2>6
<1>. HIDE DEF slice, abi
<1>4. slice = abi
  BY <1>2, <1>3, MapEqual
<1>. QED  BY <1>4 DEF slice, abi

LEMMA AbiOf2 ==
    ASSUME NEW m, NEW from \in Int, NEW signature, NEW w1, NEW w2,
           Signed(m, from, signature),
           ShownAt(m, from + 4, w1),
           ShownAt(m, from + 36, w2)
    PROVE  Slice(m, from, 68) = Abi(signature, <<w1, w2>>)
<1>. DEFINE words == <<w1, w2>>
<1>1. words \in Seq({w1, w2}) /\ Len(words) = 2
  OBVIOUS
<1>2. \A k \in 1..Len(words) :
          \/ k = 1 /\ 4 + 32 * (k - 1) = 4 /\ words[k] = w1
          \/ k = 2 /\ 4 + 32 * (k - 1) = 36 /\ words[k] = w2
  OBVIOUS
<1>. HIDE DEF words
<1>3. \A k \in 1..Len(words) : ShownAt(m, from + (4 + 32 * (k - 1)), words[k])
  BY <1>2
<1>4. Slice(m, from, 4 + 32 * Len(words)) = Abi(signature, words)
  BY <1>1, <1>3, SliceIsAbi
<1>. QED  BY <1>1, <1>4 DEF words

LEMMA AbiOf3 ==
    ASSUME NEW m, NEW from \in Int, NEW signature, NEW w1, NEW w2, NEW w3,
           Signed(m, from, signature),
           ShownAt(m, from + 4, w1),
           ShownAt(m, from + 36, w2),
           ShownAt(m, from + 68, w3)
    PROVE  Slice(m, from, 100) = Abi(signature, <<w1, w2, w3>>)
<1>. DEFINE words == <<w1, w2, w3>>
<1>1. words \in Seq({w1, w2, w3}) /\ Len(words) = 3
  OBVIOUS
<1>2. \A k \in 1..Len(words) :
          \/ k = 1 /\ 4 + 32 * (k - 1) = 4 /\ words[k] = w1
          \/ k = 2 /\ 4 + 32 * (k - 1) = 36 /\ words[k] = w2
          \/ k = 3 /\ 4 + 32 * (k - 1) = 68 /\ words[k] = w3
  OBVIOUS
<1>. HIDE DEF words
<1>3. \A k \in 1..Len(words) : ShownAt(m, from + (4 + 32 * (k - 1)), words[k])
  BY <1>2
<1>4. Slice(m, from, 4 + 32 * Len(words)) = Abi(signature, words)
  BY <1>1, <1>3, SliceIsAbi
<1>. QED  BY <1>1, <1>4 DEF words

LEMMA AbiOf5 ==
    ASSUME NEW m, NEW from \in Int, NEW signature, NEW w1, NEW w2, NEW w3, NEW w4, NEW w5,
           Signed(m, from, signature),
           ShownAt(m, from + 4, w1),
           ShownAt(m, from + 36, w2),
           ShownAt(m, from + 68, w3),
           ShownAt(m, from + 100, w4),
           ShownAt(m, from + 132, w5)
    PROVE  Slice(m, from, 164) = Abi(signature, <<w1, w2, w3, w4, w5>>)
<1>. DEFINE words == <<w1, w2, w3, w4, w5>>
<1>1. words \in Seq({w1, w2, w3, w4, w5}) /\ Len(words) = 5
  OBVIOUS
<1>2. \A k \in 1..Len(words) :
          \/ k = 1 /\ 4 + 32 * (k - 1) = 4 /\ words[k] = w1
          \/ k = 2 /\ 4 + 32 * (k - 1) = 36 /\ words[k] = w2
          \/ k = 3 /\ 4 + 32 * (k - 1) = 68 /\ words[k] = w3
          \/ k = 4 /\ 4 + 32 * (k - 1) = 100 /\ words[k] = w4
          \/ k = 5 /\ 4 + 32 * (k - 1) = 132 /\ words[k] = w5
  OBVIOUS
<1>. HIDE DEF words
<1>3. \A k \in 1..Len(words) : ShownAt(m, from + (4 + 32 * (k - 1)), words[k])
  BY <1>2
<1>4. Slice(m, from, 4 + 32 * Len(words)) = Abi(signature, words)
  BY <1>1, <1>3, SliceIsAbi
<1>. QED  BY <1>1, <1>4 DEF words

LEMMA AbiOf6 ==
    ASSUME NEW m, NEW from \in Int, NEW signature, NEW w1, NEW w2, NEW w3, NEW w4, NEW w5, NEW w6,
           Signed(m, from, signature),
           ShownAt(m, from + 4, w1),
           ShownAt(m, from + 36, w2),
           ShownAt(m, from + 68, w3),
           ShownAt(m, from + 100, w4),
           ShownAt(m, from + 132, w5),
           ShownAt(m, from + 164, w6)
    PROVE  Slice(m, from, 196) = Abi(signature, <<w1, w2, w3, w4, w5, w6>>)
<1>. DEFINE words == <<w1, w2, w3, w4, w5, w6>>
<1>1. words \in Seq({w1, w2, w3, w4, w5, w6}) /\ Len(words) = 6
  OBVIOUS
<1>2. \A k \in 1..Len(words) :
          \/ k = 1 /\ 4 + 32 * (k - 1) = 4 /\ words[k] = w1
          \/ k = 2 /\ 4 + 32 * (k - 1) = 36 /\ words[k] = w2
          \/ k = 3 /\ 4 + 32 * (k - 1) = 68 /\ words[k] = w3
          \/ k = 4 /\ 4 + 32 * (k - 1) = 100 /\ words[k] = w4
          \/ k = 5 /\ 4 + 32 * (k - 1) = 132 /\ words[k] = w5
          \/ k = 6 /\ 4 + 32 * (k - 1) = 164 /\ words[k] = w6
  OBVIOUS
<1>. HIDE DEF words
<1>3. \A k \in 1..Len(words) : ShownAt(m, from + (4 + 32 * (k - 1)), words[k])
  BY <1>2
<1>4. Slice(m, from, 4 + 32 * Len(words)) = Abi(signature, words)
  BY <1>1, <1>3, SliceIsAbi
<1>. QED  BY <1>1, <1>4 DEF words

-----------------------------------------------------------------------------
(* The memory of each kind of call.                                        *)

Shifts == 0..11
Blank(m, from, to) == \A a \in from..to : Cell(m, a) = {}

TransferFromWords(pair, amount) == <<Self, pair, amount>>
TransferWords(pair, amount) == <<pair, amount>>
FirstWords(amount) == <<amount, Zero, Self, Number("0x80", 1), Zero>>
SecondWords(amount) == <<Zero, amount, Self, Number("0x80", 1), Zero>>
V3Words(flag, amount, limit) ==
    <<Self, flag, amount, limit, Number("0xa0", 1), Number("0x35", 1)>>

\* transferFrom: the amount in is stored four bytes before its word
TransferFromMemory(m, in, pair, next) ==
    Cleared(m ++ <<0, AtLeft("transferFrom", 4)>> ++ <<4, Self>>, 68, next)
        ++ <<64, in>> ++ <<36, pair>>

\* transferFrom asks for the amount in: what is left of an earlier swap behind
\* it is cleared, or there was none.
LEMMA TransferFromData ==
    ASSUME NEW m, NEW next \in BOOLEAN, NEW field, NEW pair, IsWord(pair),
           next \/ Blank(m, 96, 99)
    PROVE  Slice(TransferFromMemory(m, Number(field, 5), pair, next), 0, 100) =
              Abi("transferFrom", TransferFromWords(pair, Scaled(field, 5, 4)))
<1>. USE DEF Blank, TransferFromWords
<1>. DEFINE name == "transferFrom"
            sig == AtLeft(name, 4)
            in == Number(field, 5)
            word == Scaled(field, 5, 4)
            m5 == TransferFromMemory(m, in, pair, next)
<1>2. IsWord(sig) /\ IsWord(Self) /\ IsWord(in) /\ IsWord(word)
  BY FixedWords, WordOfScaled
<1>3. /\ \A l \in Int : Cell(sig, l) = IF 0 <= l /\ l < 4 THEN {<<name, l + 1>>} ELSE {}
      /\ \A l \in Int : Cell(in, l) = IF 27 <= l /\ l < 32 THEN {<<field, l - 26>>} ELSE {}
      /\ \A l \in Int : Cell(word, l) = IF 23 <= l /\ l < 28 THEN {<<field, l - 22>>} ELSE {}
  BY CellOfAtLeft, CellOfScaled DEF Number
<1>1. m5 = Cleared(m ++ <<0, sig>> ++ <<4, Self>>, 68, next) ++ <<64, in>> ++ <<36, pair>>
  BY DEF TransferFromMemory
<1>. HIDE DEF in, word, name, sig, m5
<1>4. \A a \in Int : Cell(m5, a) =
          IF 36 <= a /\ a < 68 THEN Cell(pair, a - 36)
          ELSE IF 64 <= a /\ a < 96 THEN Cell(in, a - 64)
          ELSE IF next /\ 68 <= a /\ a < 100 THEN {}
          ELSE IF 4 <= a /\ a < 36 THEN Cell(Self, a - 4)
          ELSE IF 0 <= a /\ a < 32 THEN Cell(sig, a) ELSE Cell(m, a)
  BY <1>1, <1>2, CellOfStore, CellOfCleared
<1>5. Signed(m5, 0, name)
  BY <1>3, <1>4 DEF Signed
<1>6. ShownAt(m5, 4, Self)
  BY <1>3, <1>4 DEF ShownAt
<1>7. ShownAt(m5, 36, pair)
  BY <1>3, <1>4 DEF ShownAt
<1>8. ShownAt(m5, 68, word)
  <2>1. \A l \in 0..27 : Cell(m5, 68 + l) = Cell(in, l + 4)
    BY <1>4
  <2>2. \A l \in 0..27 : Cell(in, l + 4) = Cell(word, l)
    BY <1>3
  <2>3. \A l \in 28..31 : Cell(m5, 68 + l) = {}
    BY <1>4
  <2>4. \A l \in 28..31 : Cell(word, l) = {}
    BY <1>3
  <2>. QED  BY <2>1, <2>2, <2>3, <2>4 DEF ShownAt
<1>9. Slice(m5, 0, 100) = Abi(name, <<Self, pair, word>>)
  <2>. DEFINE from == 0
  <2>1. from + 4 = 4 /\ from + 36 = 36 /\ from + 68 = 68 /\ from \in Int
    OBVIOUS
  <2>2. Signed(m5, from, name)
    BY <1>5
  <2>. HIDE DEF from
  <2>3. Slice(m5, from, 100) = Abi(name, <<Self, pair, word>>)
    BY <1>6, <1>7, <1>8, <2>1, <2>2, AbiOf3
  <2>. QED  BY <2>3 DEF from
<1>. QED  BY <1>9 DEF name, in, word, m5

LEMMA AtZero ==
    \A k \in {4, 36, 68, 100, 132, 164} : \A from \in {0} : from + k = k /\ from \in Int
OBVIOUS

\* swap, the pair's token in the place that the offset tells
SwapInMemory(m, offset, out, next) ==
    Cleared(m ++ <<0, AtLeft("swap", 4)>> ++ <<4, Zero>> ++ <<36, Zero>> ++ <<offset, out>>
              ++ <<68, Self>> ++ <<100, Number("0x80", 1)>>, 132, next)

InOffset(weth0, shift) == Side(weth0, 64, 32) - shift
InWords(weth0, amount) == IF weth0 THEN SecondWords(amount) ELSE FirstWords(amount)

\* ... and so does the swap behind it for the amount out, in its place.
LEMMA SwapInData ==
    ASSUME NEW m, NEW next \in BOOLEAN, NEW field, NEW weth0 \in BOOLEAN, NEW shift \in Shifts,
           next \/ Blank(m, 132, 163)
    PROVE  Slice(SwapInMemory(m, InOffset(weth0, shift), AtLeft(field, 4), next), 0, 164)
              = Abi("swap", InWords(weth0, Scaled(field, 4, shift)))
<1>. USE DEF Shifts, Blank, FirstWords, SecondWords
<1>. DEFINE name == "swap"
            sig == AtLeft(name, 4)
            out == AtLeft(field, 4)
            word == Scaled(field, 4, shift)
            x80 == Number("0x80", 1)
            offset == InOffset(weth0, shift)
            last == SwapInMemory(m, offset, out, next)
<1>1. offset \in Int /\ offset = (IF weth0 THEN 64 - shift ELSE 32 - shift)
  BY DEF InOffset, Side
<1>2. IsWord(sig) /\ IsWord(Self) /\ IsWord(out) /\ IsWord(x80) /\ IsWord(Zero)
  BY FixedWords
<1>3. /\ \A l \in Int : Cell(sig, l) = IF 0 <= l /\ l < 4 THEN {<<name, l + 1>>} ELSE {}
      /\ \A l \in Int : Cell(out, l) = IF 0 <= l /\ l < 4 THEN {<<field, l + 1>>} ELSE {}
      /\ \A l \in 0..31 : Cell(word, l) = IF 28 - shift <= l
                                           THEN Cell(out, l - (28 - shift)) ELSE {}
      /\ \A l \in Int : Cell(Zero, l) = {}
  BY CellOfAtLeft, ScaledIsMoved, CellOfZero
<1>4. last = Cleared(m ++ <<0, sig>> ++ <<4, Zero>> ++ <<36, Zero>> ++ <<offset, out>>
                       ++ <<68, Self>> ++ <<100, x80>>, 132, next)
  BY DEF SwapInMemory
<1>. HIDE DEF word, name, sig, out, x80, offset, last
<1>5. \A a \in Int : Cell(last, a) =
          IF next /\ 132 <= a /\ a < 164 THEN {}
          ELSE IF 100 <= a /\ a < 132 THEN Cell(x80, a - 100)
          ELSE IF 68 <= a /\ a < 100 THEN Cell(Self, a - 68)
          ELSE IF offset <= a /\ a < offset + 32 THEN Cell(out, a - offset)
          ELSE IF 36 <= a /\ a < 68 THEN {}
          ELSE IF 4 <= a /\ a < 36 THEN {}
          ELSE IF 0 <= a /\ a < 32 THEN Cell(sig, a) ELSE Cell(m, a)
  BY <1>1, <1>2, <1>3, <1>4, CellOfStore, CellOfCleared
<1>6. Signed(last, 0, name)
  BY <1>1, <1>3, <1>5 DEF Signed
<1>7. ShownAt(last, 68, Self) /\ ShownAt(last, 100, x80)
  BY <1>1, <1>5 DEF ShownAt
<1>8. ShownAt(last, 132, Zero)
  <2>1. CASE next
    <3>1. \A l \in 0..31 : Cell(last, 132 + l) = {}
      BY <1>5, <2>1
    <3>. QED  BY <3>1, ZeroShown
  <2>2. CASE ~next
    <3>1. \A l \in 0..31 : Cell(last, 132 + l) = Cell(m, 132 + l)
      BY <1>1, <1>5, <2>2
    <3>2. \A l \in 0..31 : Cell(m, 132 + l) = {}
      BY <2>2
    <3>. QED  BY <3>1, <3>2, ZeroShown
  <2>. QED  BY <2>1, <2>2
<1>9. ASSUME NEW place \in {4, 36}, place = (IF weth0 THEN 36 ELSE 4), NEW l \in 0..31
      PROVE  Cell(last, place + l) = Cell(word, l)
  <2>0. offset = place + (28 - shift)
    BY <1>1, <1>9
  <2>1. CASE l >= 28 - shift
    <3>1. Cell(last, place + l) = Cell(out, (place + l) - offset)
      BY <1>5, <1>9, <2>0, <2>1
    <3>2. (place + l) - offset = l - (28 - shift)
      BY <2>0
    <3>. QED  BY <1>3, <2>1, <3>1, <3>2
  <2>2. CASE l < 28 - shift
    <3>1. Cell(last, place + l) = {}
      BY <1>5, <1>9, <2>0, <2>2
    <3>2. Cell(word, l) = {}
      BY <1>3, <2>2
    <3>. QED  BY <3>1, <3>2
  <2>. QED  BY <2>1, <2>2
<1>10. CASE weth0
  <2>1. ShownAt(last, 36, word)
    BY <1>9, <1>10 DEF ShownAt
  <2>2. ShownAt(last, 4, Zero)
    <3>1. \A l \in 0..31 : Cell(last, 4 + l) = {}
      BY <1>1, <1>5, <1>10
    <3>. QED  BY <3>1, ZeroShown
  <2>3. Slice(last, 0, 164) = Abi(name, <<Zero, word, Self, x80, Zero>>)
    <3>. DEFINE from == 0
    <3>1. Signed(last, from, name) /\ from \in {0}
      BY <1>6
    <3>. HIDE DEF from
    <3>2. Slice(last, from, 164) = Abi(name, <<Zero, word, Self, x80, Zero>>)
      BY <1>7, <1>8, <2>1, <2>2, <3>1, AtZero, AbiOf5
    <3>. QED  BY <3>2 DEF from
  <2>. QED  BY <1>10, <2>3 DEF InWords, last, name, word, x80, out, offset
<1>11. CASE ~weth0
  <2>1. ShownAt(last, 4, word)
    BY <1>9, <1>11 DEF ShownAt
  <2>2. ShownAt(last, 36, Zero)
    <3>1. \A l \in 0..31 : 36 + l < offset + 32 =>
              Cell(last, 36 + l) = Cell(out, 36 + l - offset) /\ 36 + l - offset >= 4
      BY <1>1, <1>5, <1>11
    <3>2. \A l \in 0..31 : 36 + l >= offset + 32 => Cell(last, 36 + l) = {}
      BY <1>1, <1>5, <1>11
    <3>3. \A l \in 0..31 : 36 + l < offset + 32 => Cell(last, 36 + l) = {}
      BY <1>1, <1>3, <3>1
    <3>4. \A l \in 0..31 : Cell(last, 36 + l) = {}
      BY <1>1, <3>2, <3>3
    <3>. QED  BY <3>4, ZeroShown
  <2>3. Slice(last, 0, 164) = Abi(name, <<word, Zero, Self, x80, Zero>>)
    <3>. DEFINE from == 0
    <3>1. Signed(last, from, name) /\ from \in {0}
      BY <1>6
    <3>. HIDE DEF from
    <3>2. Slice(last, from, 164) = Abi(name, <<word, Zero, Self, x80, Zero>>)
      BY <1>7, <1>8, <2>1, <2>2, <3>1, AtZero, AbiOf5
    <3>. QED  BY <3>2 DEF from
  <2>. QED  BY <1>11, <2>3 DEF InWords, last, name, word, x80, out, offset
<1>. QED  BY <1>10, <1>11

\* transfer, the amount in where its offset tells
TransferMemory(m, pair, offset, in, next) ==
    Cleared(m, 36, next) ++ <<0, AtLeft("transfer", 4)>> ++ <<4, pair>> ++ <<offset, in>>

TransferOffset(shift) == 64 - shift

\* transfer: the amount ends before its word does, the rest is cleared or blank.
LEMMA TransferData ==
    ASSUME NEW m, NEW next \in BOOLEAN, NEW field, NEW shift \in Shifts, NEW pair, IsWord(pair),
           NEW offset, offset = TransferOffset(shift), next \/ Blank(m, 36, 67)
    PROVE  Slice(TransferMemory(m, pair, offset, AtLeft(field, 4), next), 0, 68) =
              Abi("transfer", TransferWords(pair, Scaled(field, 4, shift)))
<1>. USE DEF Shifts, Blank, TransferWords, TransferOffset
<1>. DEFINE name == "transfer"
            sig == AtLeft(name, 4)
            in == AtLeft(field, 4)
            word == Scaled(field, 4, shift)
            last == TransferMemory(m, pair, offset, in, next)
<1>1. /\ \A l \in Int : Cell(sig, l) = IF 0 <= l /\ l < 4 THEN {<<name, l + 1>>} ELSE {}
      /\ \A l \in 0..31 : Cell(word, l) = IF 28 - shift <= l
                                          THEN Cell(in, l - (28 - shift)) ELSE {}
  BY CellOfAtLeft, MovedFour
<1>2. \A a \in Int : Cell(last, a) =
          IF offset <= a /\ a < offset + 32 THEN Cell(in, a - offset)
          ELSE IF 4 <= a /\ a < 36 THEN Cell(pair, a - 4)
          ELSE IF 0 <= a /\ a < 32 THEN Cell(sig, a)
          ELSE IF next /\ 36 <= a /\ a < 68 THEN {} ELSE Cell(m, a)
  <2>1. offset \in Int /\ IsWord(in) /\ IsWord(sig)
    BY FixedWords
  <2>2. last = Cleared(m, 36, next) ++ <<0, sig>> ++ <<4, pair>> ++ <<offset, in>>
    BY DEF TransferMemory
  <2>. HIDE DEF in, sig, last
  <2>. QED  BY <2>1, <2>2, CellOfStore, CellOfCleared
<1>. HIDE DEF word, name, sig, in, last
<1>3. Signed(last, 0, name)
  BY <1>1, <1>2 DEF Signed
<1>4. ShownAt(last, 4, pair)
  BY <1>2 DEF ShownAt
<1>5. ASSUME NEW l \in 0..31
      PROVE  Cell(last, 36 + l) = Cell(word, l)
  <2>1. CASE l >= 28 - shift
    <3>1. Cell(last, 36 + l) = Cell(in, (36 + l) - offset)
      BY <1>2, <2>1
    <3>2. (36 + l) - offset = l - (28 - shift)
      OBVIOUS
    <3>. QED  BY <1>1, <2>1, <3>1, <3>2
  <2>2. CASE l < 28 - shift
    <3>1. Cell(last, 36 + l) = {}
      <4>1. CASE next
        BY <1>2, <2>2, <4>1
      <4>2. CASE ~next
        <5>1. Cell(last, 36 + l) = Cell(m, 36 + l)
          BY <1>2, <2>2, <4>2
        <5>. QED  BY <4>2, <5>1
      <4>. QED  BY <4>1, <4>2
    <3>2. Cell(word, l) = {}
      BY <1>1, <2>2
    <3>. QED  BY <3>1, <3>2
  <2>. QED  BY <2>1, <2>2
<1>6. ShownAt(last, 36, word)
  BY <1>5 DEF ShownAt
<1>7. Slice(last, 0, 68) = Abi(name, <<pair, word>>)
  <2>. DEFINE from == 0
  <2>1. Signed(last, from, name) /\ from \in {0}
    BY <1>3
  <2>. HIDE DEF from
  <2>2. Slice(last, from, 68) = Abi(name, <<pair, word>>)
    BY <1>4, <1>6, <2>1, AtZero, AbiOf2
  <2>. QED  BY <2>2 DEF from
<1>. QED  BY <1>7 DEF last, name, word, in

\* the amount reaches no further than its word
LEMMA TransferRest ==
    ASSUME NEW m, NEW next \in BOOLEAN, NEW field, NEW shift \in Shifts, NEW pair, IsWord(pair),
           NEW offset, offset = TransferOffset(shift),
           NEW a \in Int, a >= 68 - shift, next \/ Cell(m, a) = {}, a >= 68 => Cell(m, a) = {}
    PROVE  Cell(TransferMemory(m, pair, offset, AtLeft(field, 4), next), a) = {}
<1>. USE DEF Shifts, TransferOffset
<1>. DEFINE in == AtLeft(field, 4)
            sig == AtLeft("transfer", 4)
            last == TransferMemory(m, pair, offset, in, next)
<1>1. \A l \in Int : l >= 4 => Cell(in, l) = {}
  BY CellOfAtLeft
<1>2. Cell(last, a) =
          IF offset <= a /\ a < offset + 32 THEN Cell(in, a - offset)
          ELSE IF 4 <= a /\ a < 36 THEN Cell(pair, a - 4)
          ELSE IF 0 <= a /\ a < 32 THEN Cell(sig, a)
          ELSE IF next /\ 36 <= a /\ a < 68 THEN {} ELSE Cell(m, a)
  <2>1. offset \in Int /\ IsWord(in) /\ IsWord(sig)
    BY FixedWords
  <2>2. last = Cleared(m, 36, next) ++ <<0, sig>> ++ <<4, pair>> ++ <<offset, in>>
    BY DEF TransferMemory
  <2>. HIDE DEF in, sig, last
  <2>. QED  BY <2>1, <2>2, CellOfStore, CellOfCleared
<1>3. a - offset \in Int /\ a - offset >= 4 /\ offset + 32 > 68 /\ a >= 57
  OBVIOUS
<1>. HIDE DEF in, sig, last
<1>4. CASE a < offset + 32
  <2>1. Cell(last, a) = Cell(in, a - offset)
    BY <1>2, <1>3, <1>4
  <2>. QED  BY <1>1, <1>3, <2>1 DEF last, in
<1>5. CASE a >= offset + 32
  <2>1. a >= 68 /\ Cell(m, a) = {}
    BY <1>3, <1>5
  <2>2. Cell(last, a) = Cell(m, a)
    BY <1>2, <1>3, <1>5, <2>1
  <2>. QED  BY <2>1, <2>2 DEF last, in
<1>. QED  BY <1>3, <1>4, <1>5

\* swap behind a transfer: the amount of WETH in the place that the offset
\* tells, all of it 64 bytes further than elsewhere
SwapOutMemory(m, offset, out, next) ==
    Cleared(Cleared(Cleared(m, 68, next), 100, next)
                ++ <<offset, out>> ++ <<36, Number("swap", 4)>>
                ++ <<132, Self>> ++ <<164, Number("0x80", 1)>>, 196, next)

LEMMA MovedFive ==
    ASSUME NEW field, NEW shift \in 0..11, NEW k \in 0..31
    PROVE  Cell(Scaled(field, 5, shift), k) =
              IF 27 - shift <= k THEN Cell(AtLeft(field, 5), k - (27 - shift)) ELSE {}
<1>1. 32 - 5 - shift = 27 - shift /\ 5 + shift <= 32 /\ shift \in Nat
  OBVIOUS
<1>. QED  BY <1>1, ScaledIsMoved

LEMMA MovedNone ==
    ASSUME NEW field, NEW k \in 0..31
    PROVE  Cell(Number(field, 5), k) =
              IF 27 <= k THEN Cell(AtLeft(field, 5), k - 27) ELSE {}
<1>. DEFINE shift == 0
<1>1. shift \in 0..11 /\ 27 - shift = 27
  OBVIOUS
<1>2. Number(field, 5) = Scaled(field, 5, shift)
  BY DEF Number
<1>. HIDE DEF shift
<1>. QED  BY <1>1, <1>2, MovedFive

OutOffset(weth0, shift) == Side(weth0, 68, 100) - shift
OutWords(weth0, amount) == IF weth0 THEN FirstWords(amount) ELSE SecondWords(amount)

\* The swap behind a transfer, for all shifts of both amounts.
LEMMA SwapOutData ==
    ASSUME NEW m, NEW next \in BOOLEAN, NEW field, NEW weth0 \in BOOLEAN, NEW shift \in Shifts,
           NEW offset, offset = OutOffset(weth0, shift), next \/ Blank(m, 68, 227)
    PROVE  Slice(SwapOutMemory(m, offset, Number(field, 5), next), 64, 164)
              = Abi("swap", OutWords(weth0, Scaled(field, 5, shift)))
<1>. USE DEF Shifts, Blank, FirstWords, SecondWords, OutOffset
<1>. DEFINE name == "swap"
            sig == Number(name, 4)
            out == Number(field, 5)
            left == AtLeft(field, 5)
            word == Scaled(field, 5, shift)
            x80 == Number("0x80", 1)
            last == SwapOutMemory(m, offset, out, next)
<1>1. offset \in Int /\ offset = (IF weth0 THEN 68 - shift ELSE 100 - shift)
  BY DEF Side
<1>2. IsWord(sig) /\ IsWord(Self) /\ IsWord(out) /\ IsWord(x80)
  BY FixedWords
<1>3. /\ \A l \in 0..31 : Cell(out, l) = IF 27 <= l THEN Cell(left, l - 27) ELSE {}
      /\ \A l \in 0..31 : Cell(word, l) = IF 27 - shift <= l
                                          THEN Cell(left, l - (27 - shift)) ELSE {}
  BY MovedFive, MovedNone
<1>4. \A l \in Int : l >= 5 => Cell(left, l) = {}
  BY CellOfAtLeft
<1>5. \A l \in 28..31 : Cell(sig, l) = {<<name, l - 27>>}
  <2>1. 4 + 0 <= 32 /\ 0 \in Nat /\ 4 \in Nat /\ 32 - 4 - 0 = 28 /\ \A l \in 28..31 : l - 28 + 1 = l - 27
    OBVIOUS
  <2>. HIDE DEF name
  <2>. QED  BY <2>1, CellOfScaled DEF Number
<1>6. last = Cleared(Cleared(Cleared(m, 68, next), 100, next)
                       ++ <<offset, out>> ++ <<36, sig>> ++ <<132, Self>> ++ <<164, x80>>, 196, next)
  BY DEF SwapOutMemory
<1>. HIDE DEF word, name, sig, out, left, x80, last
<1>7. \A a \in Int : Cell(last, a) =
          IF next /\ 196 <= a /\ a < 228 THEN {}
          ELSE IF 164 <= a /\ a < 196 THEN Cell(x80, a - 164)
          ELSE IF 132 <= a /\ a < 164 THEN Cell(Self, a - 132)
          ELSE IF 36 <= a /\ a < 68 THEN Cell(sig, a - 36)
          ELSE IF offset <= a /\ a < offset + 32 THEN Cell(out, a - offset)
          ELSE IF next /\ 100 <= a /\ a < 132 THEN {}
          ELSE IF next /\ 68 <= a /\ a < 100 THEN {} ELSE Cell(m, a)
  BY <1>1, <1>2, <1>6, CellOfStore, CellOfCleared
<1>8. Signed(last, 64, name)
  <2>1. \A b \in 0..3 : Cell(last, 64 + b) = Cell(sig, b + 28)
    BY <1>1, <1>7
  <2>2. \A b \in 0..3 : Cell(sig, b + 28) = {<<name, b + 1>>}
    BY <1>5
  <2>. QED  BY <2>1, <2>2 DEF Signed
<1>9. ShownAt(last, 132, Self) /\ ShownAt(last, 164, x80)
  BY <1>1, <1>7 DEF ShownAt
<1>10. ASSUME NEW a \in 68..131, a < offset \/ a >= offset + 32
       PROVE  Cell(last, a) = {}
  <2>1. CASE next
    BY <1>1, <1>7, <1>10, <2>1
  <2>2. CASE ~next
    <3>1. Cell(last, a) = Cell(m, a)
      BY <1>1, <1>7, <1>10, <2>2
    <3>. QED  BY <2>2, <3>1
  <2>. QED  BY <2>1, <2>2
<1>11. ShownAt(last, 196, Zero)
  <2>1. CASE next
    <3>1. \A l \in 0..31 : Cell(last, 196 + l) = {}
      BY <1>7, <2>1
    <3>. QED  BY <3>1, ZeroShown
  <2>2. CASE ~next
    <3>1. \A l \in 0..31 : Cell(last, 196 + l) = Cell(m, 196 + l)
      BY <1>1, <1>7, <2>2
    <3>2. \A l \in 0..31 : Cell(m, 196 + l) = {}
      BY <2>2
    <3>. QED  BY <3>1, <3>2, ZeroShown
  <2>. QED  BY <2>1, <2>2
<1>12. ASSUME NEW place \in {68, 100}, place = (IF weth0 THEN 68 ELSE 100), NEW l \in 0..31
       PROVE  Cell(last, place + l) = Cell(word, l)
  <2>0. offset = place - shift
    BY <1>1, <1>12
  <2>1. CASE l + shift >= 32
    <3>1. Cell(last, place + l) = {}
      BY <1>10, <2>0, <2>1
    <3>2. l - (27 - shift) \in Int /\ l - (27 - shift) >= 5
      BY <2>1
    <3>3. Cell(word, l) = {}
      BY <1>3, <1>4, <3>2
    <3>. QED  BY <3>1, <3>3
  <2>2. CASE l + shift < 32
    <3>1. Cell(last, place + l) = Cell(out, (place + l) - offset)
      BY <1>7, <1>12, <2>0, <2>2
    <3>2. (place + l) - offset = l + shift /\ l + shift \in 0..31
          /\ l + shift - 27 = l - (27 - shift)
      BY <2>0, <2>2
    <3>3. Cell(out, l + shift) = IF 27 <= l + shift THEN Cell(left, l + shift - 27) ELSE {}
      <4>. DEFINE x == l + shift
      <4>1. x \in 0..31
        BY <3>2
      <4>. HIDE DEF x
      <4>2. Cell(out, x) = IF 27 <= x THEN Cell(left, x - 27) ELSE {}
        BY <1>3, <4>1
      <4>. QED  BY <4>2 DEF x
    <3>4. Cell(word, l) = IF 27 - shift <= l THEN Cell(left, l - (27 - shift)) ELSE {}
      BY <1>3
    <3>5. 27 <= l + shift <=> 27 - shift <= l
      OBVIOUS
    <3>. QED  BY <3>1, <3>2, <3>3, <3>4, <3>5
  <2>. QED  BY <2>1, <2>2
<1>13. CASE weth0
  <2>1. ShownAt(last, 68, word)
    BY <1>12, <1>13 DEF ShownAt
  <2>2. ShownAt(last, 100, Zero)
    <3>0. offset = 68 - shift
      BY <1>1, <1>13
    <3>1. \A l \in 0..31 : 100 + l \in 68..131 /\ 100 + l >= offset + 32
      BY <3>0
    <3>2. \A l \in 0..31 : Cell(last, 100 + l) = {}
      BY <1>10, <3>1
    <3>. QED  BY <3>2, ZeroShown
  <2>3. Slice(last, 64, 164) = Abi(name, <<word, Zero, Self, x80, Zero>>)
    <3>. DEFINE from == 64
    <3>1. /\ Signed(last, from, name) /\ from \in Int /\ from + 4 = 68 /\ from + 36 = 100
          /\ from + 68 = 132 /\ from + 100 = 164 /\ from + 132 = 196
      BY <1>8
    <3>. HIDE DEF from
    <3>2. Slice(last, from, 164) = Abi(name, <<word, Zero, Self, x80, Zero>>)
      BY <1>9, <1>11, <2>1, <2>2, <3>1, AbiOf5
    <3>. QED  BY <3>2 DEF from
  <2>. QED  BY <1>13, <2>3 DEF OutWords, last, name, word, x80, out
<1>14. CASE ~weth0
  <2>1. ShownAt(last, 100, word)
    BY <1>12, <1>14 DEF ShownAt
  <2>2. ShownAt(last, 68, Zero)
    <3>1. \A l \in 0..31 : 68 + l >= offset =>
              /\ Cell(last, 68 + l) = Cell(out, (68 + l) - offset)
              /\ (68 + l) - offset \in 0..31 /\ (68 + l) - offset < 27
      BY <1>1, <1>7, <1>14
    <3>2. \A l \in 0..31 : 68 + l >= offset => Cell(last, 68 + l) = {}
      BY <1>3, <3>1
    <3>3. \A l \in 0..31 : 68 + l < offset => Cell(last, 68 + l) = {}
      BY <1>1, <1>10
    <3>4. \A l \in 0..31 : Cell(last, 68 + l) = {}
      BY <1>1, <3>2, <3>3
    <3>. QED  BY <3>4, ZeroShown
  <2>3. Slice(last, 64, 164) = Abi(name, <<Zero, word, Self, x80, Zero>>)
    <3>. DEFINE from == 64
    <3>1. /\ Signed(last, from, name) /\ from \in Int /\ from + 4 = 68 /\ from + 36 = 100
          /\ from + 68 = 132 /\ from + 100 = 164 /\ from + 132 = 196
      BY <1>8
    <3>. HIDE DEF from
    <3>2. Slice(last, from, 164) = Abi(name, <<Zero, word, Self, x80, Zero>>)
      BY <1>9, <1>11, <2>1, <2>2, <3>1, AbiOf5
    <3>. QED  BY <3>2 DEF from
  <2>. QED  BY <1>14, <2>3 DEF OutWords, last, name, word, x80, out
<1>. QED  BY <1>13, <1>14

\* swap of v2_output0_single: the amount of WETH shares a store with the
\* signature
SwapOut0Memory(m, out) ==
    m ++ <<4, Zero>> ++ <<36, Zero>> ++ <<0, Or(AtLeft("swap", 4), out)>>
      ++ <<68, Self>> ++ <<100, Number("0x80", 1)>>

LEMMA SwapOut0Data ==
    ASSUME NEW m, NEW field, Blank(m, 132, 163)
    PROVE  Slice(SwapOut0Memory(m, Number(field, 5)), 0, 164) =
              Abi("swap", FirstWords(Scaled(field, 5, 4)))
<1>. USE DEF Blank, FirstWords
<1>. DEFINE name == "swap"
            sig == AtLeft(name, 4)
            out == Number(field, 5)
            both == Or(sig, out)
            word == Scaled(field, 5, 4)
            x80 == Number("0x80", 1)
            last == SwapOut0Memory(m, out)
<1>1. IsWord(both) /\ IsWord(Self) /\ IsWord(x80) /\ IsWord(Zero)
  BY FixedWords, WordOfOr
<1>2. /\ \A l \in Int : Cell(out, l) = IF 27 <= l /\ l < 32 THEN {<<field, l - 26>>} ELSE {}
      /\ \A l \in Int : Cell(word, l) = IF 23 <= l /\ l < 28 THEN {<<field, l - 22>>} ELSE {}
  BY CellOfScaled DEF Number
<1>3. \A l \in Int : Cell(sig, l) = IF 0 <= l /\ l < 4 THEN {<<name, l + 1>>} ELSE {}
  BY CellOfAtLeft
<1>4. \A l \in Int : l \in DOMAIN sig <=> l \in 0..3
  BY DEF AtLeft
<1>5. last = m ++ <<4, Zero>> ++ <<36, Zero>> ++ <<0, both>> ++ <<68, Self>> ++ <<100, x80>>
  BY DEF SwapOut0Memory
<1>. HIDE DEF word, name, sig, out, x80, last
<1>6. /\ \A l \in 0..3 : Cell(both, l) = {<<name, l + 1>>}
      /\ \A l \in 4..31 : Cell(both, l) = Cell(out, l)
  BY <1>3, <1>4, CellOfOr
<1>. HIDE DEF both
<1>7. \A a \in Int : Cell(last, a) =
          IF 100 <= a /\ a < 132 THEN Cell(x80, a - 100)
          ELSE IF 68 <= a /\ a < 100 THEN Cell(Self, a - 68)
          ELSE IF 0 <= a /\ a < 32 THEN Cell(both, a)
          ELSE IF 36 <= a /\ a < 68 THEN {}
          ELSE IF 4 <= a /\ a < 36 THEN {} ELSE Cell(m, a)
  BY <1>1, <1>5, CellOfStore, CellOfZero
<1>8. Signed(last, 0, name)
  BY <1>6, <1>7 DEF Signed
<1>9. ShownAt(last, 68, Self) /\ ShownAt(last, 100, x80)
  BY <1>7 DEF ShownAt
<1>10. ShownAt(last, 36, Zero) /\ ShownAt(last, 132, Zero)
  <2>1. \A l \in 0..31 : Cell(last, 36 + l) = {}
    BY <1>7
  <2>2. \A l \in 0..31 : Cell(last, 132 + l) = Cell(m, 132 + l)
    BY <1>7
  <2>3. \A l \in 0..31 : Cell(m, 132 + l) = {}
    OBVIOUS
  <2>4. \A l \in 0..31 : Cell(last, 132 + l) = {}
    BY <2>2, <2>3
  <2>. QED  BY <2>1, <2>4, ZeroShown
<1>11. ShownAt(last, 4, word)
  <2>1. \A l \in 0..27 : Cell(last, 4 + l) = Cell(both, l + 4) /\ l + 4 \in 4..31
    BY <1>7
  <2>2. \A l \in 0..27 : Cell(last, 4 + l) = Cell(out, l + 4)
    BY <1>6, <2>1
  <2>3. \A l \in 0..27 : Cell(out, l + 4) = Cell(word, l)
    BY <1>2
  <2>4. \A l \in 28..31 : Cell(last, 4 + l) = {}
    BY <1>7
  <2>5. \A l \in 28..31 : Cell(word, l) = {}
    BY <1>2
  <2>. QED  BY <2>2, <2>3, <2>4, <2>5 DEF ShownAt
<1>12. Slice(last, 0, 164) = Abi(name, <<word, Zero, Self, x80, Zero>>)
  <2>. DEFINE from == 0
  <2>1. Signed(last, from, name) /\ from \in {0}
    BY <1>8
  <2>. HIDE DEF from
  <2>2. Slice(last, from, 164) = Abi(name, <<word, Zero, Self, x80, Zero>>)
    BY <1>9, <1>10, <1>11, <2>1, AtZero, AbiOf5
  <2>. QED  BY <2>2 DEF from
<1>. QED  BY <1>12 DEF last, name, word, x80, out

\* swap of v2_output1_single: the amount of WETH is stored four bytes before
\* its word, whose last bytes stay as they are
SwapOut1Memory(m, out) ==
    m ++ <<0, AtLeft("swap", 4)>> ++ <<4, Zero>> ++ <<32, out>>
      ++ <<68, Self>> ++ <<100, Number("0x80", 1)>>

LEMMA SwapOut1Data ==
    ASSUME NEW m, NEW field, Blank(m, 64, 67), Blank(m, 132, 163)
    PROVE  Slice(SwapOut1Memory(m, Number(field, 5)), 0, 164) =
              Abi("swap", SecondWords(Scaled(field, 5, 4)))
<1>. USE DEF Blank, SecondWords
<1>. DEFINE name == "swap"
            sig == AtLeft(name, 4)
            out == Number(field, 5)
            word == Scaled(field, 5, 4)
            x80 == Number("0x80", 1)
            last == SwapOut1Memory(m, out)
<1>1. IsWord(sig) /\ IsWord(Self) /\ IsWord(x80) /\ IsWord(Zero) /\ IsWord(out)
  BY FixedWords
<1>2. /\ \A l \in Int : Cell(out, l) = IF 27 <= l /\ l < 32 THEN {<<field, l - 26>>} ELSE {}
      /\ \A l \in Int : Cell(word, l) = IF 23 <= l /\ l < 28 THEN {<<field, l - 22>>} ELSE {}
  BY CellOfScaled DEF Number
<1>3. \A l \in Int : Cell(sig, l) = IF 0 <= l /\ l < 4 THEN {<<name, l + 1>>} ELSE {}
  BY CellOfAtLeft
<1>5. last = m ++ <<0, sig>> ++ <<4, Zero>> ++ <<32, out>> ++ <<68, Self>> ++ <<100, x80>>
  BY DEF SwapOut1Memory
<1>. HIDE DEF word, name, sig, out, x80, last
<1>7. \A a \in Int : Cell(last, a) =
          IF 100 <= a /\ a < 132 THEN Cell(x80, a - 100)
          ELSE IF 68 <= a /\ a < 100 THEN Cell(Self, a - 68)
          ELSE IF 32 <= a /\ a < 64 THEN Cell(out, a - 32)
          ELSE IF 4 <= a /\ a < 36 THEN {}
          ELSE IF 0 <= a /\ a < 32 THEN Cell(sig, a) ELSE Cell(m, a)
  BY <1>1, <1>5, CellOfStore, CellOfZero
<1>8. Signed(last, 0, name)
  BY <1>3, <1>7 DEF Signed
<1>9. ShownAt(last, 68, Self) /\ ShownAt(last, 100, x80)
  BY <1>7 DEF ShownAt
<1>10. ShownAt(last, 4, Zero) /\ ShownAt(last, 132, Zero)
  <2>1. \A l \in 0..27 : Cell(last, 4 + l) = {}
    BY <1>7
  <2>2. \A l \in 28..31 : Cell(last, 4 + l) = Cell(out, l - 28)
    BY <1>7
  <2>3. \A l \in 28..31 : Cell(out, l - 28) = {}
    BY <1>2
  <2>4. \A l \in 0..31 : Cell(last, 4 + l) = {}
    BY <2>1, <2>2, <2>3
  <2>5. \A l \in 0..31 : Cell(last, 132 + l) = Cell(m, 132 + l)
    BY <1>7
  <2>6. \A l \in 0..31 : Cell(m, 132 + l) = {}
    OBVIOUS
  <2>7. \A l \in 0..31 : Cell(last, 132 + l) = {}
    BY <2>5, <2>6
  <2>. QED  BY <2>4, <2>7, ZeroShown
<1>11. ShownAt(last, 36, word)
  <2>2. \A l \in 0..27 : Cell(last, 36 + l) = Cell(out, l + 4)
    BY <1>7
  <2>3. \A l \in 0..27 : Cell(out, l + 4) = Cell(word, l)
    BY <1>2
  <2>4. \A l \in 28..31 : Cell(last, 36 + l) = Cell(m, 36 + l) /\ 36 + l \in 64..67
    BY <1>7
  <2>5. \A l \in 28..31 : Cell(word, l) = {}
    BY <1>2
  <2>. QED  BY <2>2, <2>3, <2>4, <2>5 DEF ShownAt
<1>12. Slice(last, 0, 164) = Abi(name, <<Zero, word, Self, x80, Zero>>)
  <2>. DEFINE from == 0
  <2>1. Signed(last, from, name) /\ from \in {0}
    BY <1>8
  <2>. HIDE DEF from
  <2>2. Slice(last, from, 164) = Abi(name, <<Zero, word, Self, x80, Zero>>)
    BY <1>9, <1>10, <1>11, <2>1, AtZero, AbiOf5
  <2>. QED  BY <2>2 DEF from
<1>. QED  BY <1>12 DEF last, name, word, x80, out

\* swap of a V3 pool, without the data that the pool hands back: up to the
\* flag, and behind it
V3Begun(m) == m ++ <<0, AtLeft("v3Swap", 4)>> ++ <<4, Self>>
V3Asked(m, amount, limit) ==
    m ++ <<68, amount>> ++ <<100, limit>> ++ <<132, Number("0xa0", 1)>> ++ <<164, Number("0x35", 1)>>

V3Signed(m) == \A l \in 0..3 : Cell(m, l) = {<<"v3Swap", l + 1>>}

LEMMA V3BegunCells ==
    ASSUME NEW m
    PROVE  /\ V3Signed(V3Begun(m))
           /\ \A l \in 0..31 : Cell(V3Begun(m), 4 + l) = Cell(Self, l)
           /\ \A l \in 0..31 : Cell(V3Begun(m), 36 + l) = Cell(m, 36 + l)
<1>. DEFINE name == "v3Swap"
            sig == AtLeft(name, 4)
            begun == V3Begun(m)
<1>1. IsWord(sig) /\ IsWord(Self)
  BY FixedWords
<1>2. \A l \in Int : Cell(sig, l) = IF 0 <= l /\ l < 4 THEN {<<name, l + 1>>} ELSE {}
  BY CellOfAtLeft
<1>3. begun = m ++ <<0, sig>> ++ <<4, Self>>
  BY DEF V3Begun
<1>. HIDE DEF name, sig, begun
<1>4. \A a \in Int : Cell(begun, a) =
          IF 4 <= a /\ a < 36 THEN Cell(Self, a - 4)
          ELSE IF 0 <= a /\ a < 32 THEN Cell(sig, a) ELSE Cell(m, a)
  BY <1>1, <1>3, CellOfStore
<1>5. \A l \in 0..3 : Cell(begun, l) = {<<name, l + 1>>}
  BY <1>2, <1>4
<1>6. \A l \in 0..31 : Cell(begun, 4 + l) = Cell(Self, l)
  BY <1>4
<1>7. \A l \in 0..31 : Cell(begun, 36 + l) = Cell(m, 36 + l)
  BY <1>4
<1>. QED  BY <1>5, <1>6, <1>7 DEF begun, name, V3Signed

\* head: the memory with the flag, stored or left
LEMMA V3HeadData ==
    ASSUME NEW head, V3Signed(head),
           ShownAt(head, 4, Self), NEW flag, ShownAt(head, 36, flag),
           NEW amount, IsWord(amount), NEW limit, IsWord(limit)
    PROVE  Slice(V3Asked(head, amount, limit), 0, 196) =
              Abi("v3Swap", V3Words(flag, amount, limit))
<1>. USE DEF V3Words
<1>. DEFINE name == "v3Swap"
            xa0 == Number("0xa0", 1)
            x35 == Number("0x35", 1)
            last == V3Asked(head, amount, limit)
<1>1. IsWord(xa0) /\ IsWord(x35)
  BY FixedWords
<1>3. last = head ++ <<68, amount>> ++ <<100, limit>> ++ <<132, xa0>> ++ <<164, x35>>
  BY DEF V3Asked
<1>2. \A l \in 0..3 : Cell(head, l) = {<<name, l + 1>>}
  BY DEF V3Signed
<1>. HIDE DEF name, xa0, x35, last
<1>6. \A a \in Int : Cell(last, a) =
          IF 164 <= a /\ a < 196 THEN Cell(x35, a - 164)
          ELSE IF 132 <= a /\ a < 164 THEN Cell(xa0, a - 132)
          ELSE IF 100 <= a /\ a < 132 THEN Cell(limit, a - 100)
          ELSE IF 68 <= a /\ a < 100 THEN Cell(amount, a - 68) ELSE Cell(head, a)
  BY <1>1, <1>3, CellOfStore
<1>7. Signed(last, 0, name)
  <2>1. \A b \in 0..3 : Cell(last, 0 + b) = Cell(head, b)
    BY <1>6
  <2>. QED  BY <1>2, <2>1 DEF Signed
<1>8. ShownAt(last, 4, Self)
  <2>1. \A l \in 0..31 : Cell(last, 4 + l) = Cell(head, 4 + l)
    BY <1>6
  <2>. QED  BY <2>1 DEF ShownAt
<1>9. ShownAt(last, 36, flag)
  <2>1. \A l \in 0..31 : Cell(last, 36 + l) = Cell(head, 36 + l)
    BY <1>6
  <2>. QED  BY <2>1 DEF ShownAt
<1>10. /\ ShownAt(last, 68, amount) /\ ShownAt(last, 100, limit)
       /\ ShownAt(last, 132, xa0) /\ ShownAt(last, 164, x35)
  BY <1>6 DEF ShownAt
<1>11. Slice(last, 0, 196) = Abi(name, <<Self, flag, amount, limit, xa0, x35>>)
  <2>. DEFINE from == 0
  <2>1. Signed(last, from, name) /\ from \in {0}
    BY <1>7
  <2>. HIDE DEF from
  <2>2. Slice(last, from, 196) = Abi(name, <<Self, flag, amount, limit, xa0, x35>>)
    BY <1>8, <1>9, <1>10, <2>1, AtZero, AbiOf6
  <2>. QED  BY <2>2 DEF from
<1>. QED  BY <1>11 DEF last, name, xa0, x35

\* A store into the memory behind what a call is given shows in its data.
LEMMA V3Data ==
    ASSUME NEW m, NEW abi, IsMap(abi), Slice(m, 0, 196) = abi, NEW packed, IsWord(packed),
           NEW hash, IsWord(hash)
    PROVE  Slice(m ++ <<196, packed>> ++ <<217, hash>>, 0, 249) =
              abi ++ <<196, packed>> ++ <<217, hash>>
<1>. DEFINE last == m ++ <<196, packed>> ++ <<217, hash>>
            slice == Slice(last, 0, 249)
            all == abi ++ <<196, packed>> ++ <<217, hash>>
<1>1. \A b \in Int : Cell(abi, b) = IF 0 <= b /\ b < 196 THEN Cell(m, b) ELSE {}
  BY CellOfSlice
<1>2. \A a \in Int : Cell(last, a) =
          IF 217 <= a /\ a < 249 THEN Cell(hash, a - 217)
          ELSE IF 196 <= a /\ a < 228 THEN Cell(packed, a - 196) ELSE Cell(m, a)
  BY CellOfStore
<1>3. \A a \in Int : Cell(all, a) =
          IF 217 <= a /\ a < 249 THEN Cell(hash, a - 217)
          ELSE IF 196 <= a /\ a < 228 THEN Cell(packed, a - 196) ELSE Cell(abi, a)
  BY CellOfStore
<1>4. IsMap(all)
  <2>1. IsMap(abi ++ <<196, packed>>)
    BY MapOfStore DEF IsMap
  <2>. DEFINE most == abi ++ <<196, packed>>
  <2>2. DOMAIN most \subseteq Int
    BY <2>1 DEF IsMap
  <2>. HIDE DEF most
  <2>3. IsMap(most ++ <<217, hash>>)
    BY <2>2, MapOfStore
  <2>. QED  BY <2>3 DEF most
<1>. HIDE DEF last
<1>5. \A b \in Int : Cell(slice, b) = IF 0 <= b /\ b < 249 THEN Cell(last, b) ELSE {}
  <2>. DEFINE from == 0
  <2>1. from \in Int /\ \A b \in Int : from + b = b
    OBVIOUS
  <2>. HIDE DEF from
  <2>2. \A b \in Int : Cell(Slice(last, from, 249), b) =
            IF 0 <= b /\ b < 249 THEN Cell(last, from + b) ELSE {}
    BY <2>1, CellOfSlice
  <2>3. \A b \in Int : Cell(Slice(last, from, 249), b) =
            IF 0 <= b /\ b < 249 THEN Cell(last, b) ELSE {}
    BY <2>1, <2>2
  <2>. QED  BY <2>3 DEF from
<1>6. IsMap(slice)
  BY MapOfSlice
<1>. HIDE DEF slice, all
<1>7. \A b \in Int : Cell(slice, b) = Cell(all, b)
  BY <1>1, <1>2, <1>3, <1>5
<1>8. slice = all
  BY <1>4, <1>6, <1>7, MapEqual
<1>. QED  BY <1>8 DEF slice, all, last

-----------------------------------------------------------------------------
(* What a handler loads.                                                   *)

LEMMA SpotsWritten ==
    ASSUME NEW c, IsSandwich(c), NEW i \in 1..Len(c.ingredients), NEW x \in Spots(c, i)
    PROVE  x.offset \in Nat /\ x.field.width \in Nat
<1>. DEFINE ing == c.ingredients[i]
<1>1. \A o, f : Spot(o, f).offset = o /\ Spot(o, f).field = f
  BY DEF Spot
<1>2. \A name, width : F(name, width).width = width /\ L(name, width).width = 1
  BY DEF F, L
<1>3. /\ OffIn(ing).width = 1 /\ OffOut(ing).width = 1 /\ OffWethOut(ing).width = 1
      /\ \A width, shift : Shift(width, shift).width = 1
  BY <1>2 DEF OffIn, OffOut, OffWethOut, Shift
<1>. DEFINE Fine(spots) == \A y \in spots : y.offset \in Nat /\ y.field.width \in Nat
<1>4. Fine(V2InputSpots(0, ing)) /\ Fine(V2InputSpots(1, ing))
  BY <1>1, <1>2, <1>3 DEF V2InputSpots
<1>5. Fine(V2OutputSpots(0, ing)) /\ Fine(V2OutputSpots(1, ing))
  BY <1>1, <1>2, <1>3 DEF V2OutputSpots
<1>6. Fine(V2InputNextSpots(ing)) /\ Fine(V2OutputFirstSpots(ing)) /\ Fine(V2OutputNextSpots(ing))
  BY <1>1, <1>2, <1>3, <1>4, <1>5 DEF V2InputNextSpots, V2OutputFirstSpots, V2OutputNextSpots
<1>7. Fine(V3InputSpots(ing)) /\ Fine(V3InputWideSpots) /\ Fine(V3OutputSpots(ing))
  <2>1. Fine(V3InputSpots(ing))
    BY DEF V3InputSpots, Spot, F, L, Shift
  <2>2. Fine(V3InputWideSpots)
    BY DEF V3InputWideSpots, Spot, F
  <2>3. Fine(V3OutputSpots(ing))
    BY DEF V3OutputSpots, Spot, F, L, Shift
  <2>. QED  BY <2>1, <2>2, <2>3
<1>8. Fine(V3InputMultiSpots(ing)) /\ Fine(V3OutputMultiSpots(ing))
  <2>1. Fine(V3InputMultiSpots(ing))
    BY DEF V3InputMultiSpots, Spot, F, L, Shift
  <2>2. Fine(V3OutputMultiSpots(ing))
    BY DEF V3OutputMultiSpots, Spot, F, L, Shift
  <2>. QED  BY <2>1, <2>2
<1>9. \/ Spots(c, i) \in {V2InputSpots(1, ing), V2InputNextSpots(ing), V2OutputSpots(1, ing)}
      \/ Spots(c, i) \in {V2OutputFirstSpots(ing), V2OutputNextSpots(ing), V3InputWideSpots}
      \/ Spots(c, i) \in {V3InputSpots(ing), V3InputMultiSpots(ing), V3OutputSpots(ing)}
      \/ Spots(c, i) = V3OutputMultiSpots(ing)
  BY DEF Spots
<1>10. Fine(Spots(c, i))
  <2>. HIDE DEF Fine
  <2>. QED  BY <1>4, <1>5, <1>6, <1>7, <1>8, <1>9
<1>. QED  BY <1>10 DEF Fine

LEMMA ShowsWell ==
    ASSUME NEW c, IsSandwich(c), NEW bytes, NEW start, Layout(c, bytes, start),
           NEW i \in 1..Len(c.ingredients), Reachable(c, i)
    PROVE  Shows(bytes, Base(c, start, i), Spots(c, i), i)
<1>. DEFINE part == PartBytes(c, i)
            o == Ahead(c, i)
            n == Len(c.ingredients)
<1>1. Shows(part, o, Spots(c, i), i) /\ part \in Seq(Byte)
  BY PartsLaid, BytesLayout, SandwichFacts DEF PartLaid, PartBytes
<1>2. n \in Nat /\ i \in 1..(n + 1) /\ i + 1 \in 1..(n + 1)
  BY SandwichFacts
<1>3. /\ start[i] \in Nat /\ start[i + 1] \in Nat /\ start[i + 1] = start[i] + Len(part)
      /\ start[i + 1] <= Len(bytes) /\ \A b \in 1..Len(part) : bytes[start[i] + b] = part[b]
      /\ bytes \in Seq(Byte)
  BY <1>2 DEF Layout
<1>4. o \in Nat /\ Len(part) \in Nat /\ Len(bytes) \in Nat
  <2>. HIDE DEF part
  <2>. QED  BY <1>1, <1>3 DEF Ahead
<1>. HIDE DEF part, o
<1>5. ASSUME NEW x \in Spots(c, i), NEW b \in 1..x.field.width
      PROVE  /\ start[i] + o + x.offset + b \in 1..Len(bytes)
             /\ bytes[start[i] + o + x.offset + b] =
                   [name |-> x.field.name, of |-> i, nth |-> b, val |-> x.field.val]
  <2>1. x.offset \in Nat /\ x.field.width \in Nat /\ b \in Nat
    BY SpotsWritten
  <2>. DEFINE s == o + x.offset + b
  <2>2. s \in 1..Len(part)
        /\ part[s] = [name |-> x.field.name, of |-> i, nth |-> b, val |-> x.field.val]
    BY <1>1 DEF Shows, Holds
  <2>3. start[i] + o + x.offset + b = start[i] + s
    BY <1>3, <1>4, <2>1
  <2>. HIDE DEF s
  <2>. QED  BY <1>3, <1>4, <2>2, <2>3
<1>. QED  BY <1>5 DEF Shows, Holds, Base, o

\* A load of a field's place in the calldata, shifted to its width, is its value.
LEMMA LoadShown ==
    ASSUME NEW b \in Nat, NEW field, NEW i, Holds(data, b, field, i), field.width \in Nat,
           NEW taken \in Nat, Len(data) \in Nat,
           \/ field.width = taken
           \/ field.width < taken /\ Len(data) = b + field.width
    PROVE  Load(b, taken) = AtLeft(<<field.name, i>>, field.width)
<1>. DEFINE D == {l \in 0..(taken - 1) : b + l < Len(data)}
            f(k) == <<<<data[b + k + 1].name, data[b + k + 1].of>>, data[b + k + 1].nth>>
            g(k) == <<<<field.name, i>>, k + 1>>
<1>1. ASSUME NEW k \in 0..(field.width - 1)
      PROVE  b + k < Len(data) /\ f(k) = g(k)
  <2>1. k + 1 \in 1..field.width /\ b + k + 1 = b + (k + 1)
    OBVIOUS
  <2>2. /\ b + (k + 1) \in 1..Len(data)
        /\ data[b + (k + 1)] = [name |-> field.name, of |-> i, nth |-> k + 1, val |-> field.val]
    BY <2>1 DEF Holds
  <2>3. b + k < Len(data)
    BY <2>1, <2>2
  <2>. QED  BY <2>1, <2>2, <2>3
<1>2. D = 0..(field.width - 1)
  BY <1>1
<1>3. Load(b, taken) = [k \in D |-> f(k)]
  BY DEF Load
<1>4. AtLeft(<<field.name, i>>, field.width) = [k \in 0..(field.width - 1) |-> g(k)]
  BY DEF AtLeft
<1>. HIDE DEF D, f, g
<1>. QED  BY <1>1, <1>2, <1>3, <1>4

LEMMA ByteShown ==
    ASSUME NEW b \in Nat, NEW field, NEW i, Holds(data, b, field, i), field.width = 1
    PROVE  ByteAt(b) = field.val
BY DEF Holds, ByteAt

\* Where the handler of a swap finds the fields whose values it takes.
LEMMA ShownToSwap ==
    ASSUME case \in Cases, IsSandwich(case), NEW i \in 1..Len(case.ingredients), AtGate(i)
    PROVE  /\ Shows(data, p, Spots(case, i), i)
           /\ p \in Nat /\ Len(data) \in Nat
           /\ i = 1 /\ ~Prepares(case) => p = 0
<1>. DEFINE s == StartOf(case)
            bytes == Calldata(case)
<1>1. Layout(case, bytes, s)
  <2>1. \E start : Layout(case, bytes, start)
    BY CalldataLaid
  <2>. HIDE DEF bytes
  <2>. QED  BY <2>1 DEF StartOf, bytes
<1>2. data = bytes
  BY DEF data, CalldataOf
<1>3. p = Base(case, s, i) /\ Reachable(case, i)
  BY DEF AtGate
<1>. HIDE DEF s, bytes
<1>4. Shows(bytes, Base(case, s, i), Spots(case, i), i)
  BY <1>1, <1>3, ShowsWell
<1>5. Base(case, s, i) \in Nat /\ Len(data) \in Nat
      /\ (~Prepares(case) => Base(case, s, 1) = 0)
  BY SandwichRead DEF s
<1>. QED  BY <1>2, <1>3, <1>4, <1>5

LEMMA AddressShown ==
    ASSUME NEW b \in Nat, NEW name, NEW i, Holds(data, b, F(name, 20), i), Len(data) \in Nat
    PROVE  Address(b) = Scaled(<<name, i>>, 20, 0)
<1>1. F(name, 20).width = 20 /\ F(name, 20).name = name
  BY DEF F
<1>. DEFINE field == F(name, 20)
<1>. HIDE DEF field
<1>2. field.width = 20 /\ field.name = name /\ Holds(data, b, field, i)
  BY <1>1 DEF field
<1>3. Load(b, 20) = AtLeft(<<name, i>>, 20)
  BY <1>2, LoadShown
<1>. QED  BY <1>3 DEF Address, Scaled, WordSize

\* the calls are those that ingredient i wants, and the memory is as large as
\* it may be
Meant(asks, i) ==
    /\ [k \in DOMAIN asks |-> [to |-> asks[k].to, data |-> asks[k].data]] = WantedCalls(i)
    /\ Bounded(Last(asks).memory)

LEMMA TwoMeant ==
    ASSUME NEW i, NEW to1, NEW to2, NEW data1, NEW data2, NEW asks, NEW call1, NEW call2,
           asks = <<call1, call2>>, call1.to = to1, call1.data = data1,
           call2.to = to2, call2.data = data2, Bounded(call2.memory),
           WantedCalls(i) = <<[to |-> to1, data |-> data1], [to |-> to2, data |-> data2]>>
    PROVE  Meant(asks, i)
<1>. DEFINE f == [k \in DOMAIN asks |-> [to |-> asks[k].to, data |-> asks[k].data]]
            w1 == [to |-> to1, data |-> data1]
            w2 == [to |-> to2, data |-> data2]
<1>1. DOMAIN asks = 1..2 /\ asks[1] = call1 /\ asks[2] = call2 /\ Len(asks) = 2
  OBVIOUS
<1>2. f \in Seq({w1, w2}) /\ Len(f) = 2 /\ f[1] = w1 /\ f[2] = w2
  BY <1>1
<1>3. <<w1, w2>> \in Seq({w1, w2}) /\ Len(<<w1, w2>>) = 2 /\ <<w1, w2>>[1] = w1
      /\ <<w1, w2>>[2] = w2
  OBVIOUS
<1>. HIDE DEF f, w1, w2
<1>4. f = <<w1, w2>>
  BY <1>2, <1>3, SeqEqual
<1>. QED  BY <1>1, <1>4 DEF Meant, Last, f, w1, w2

LEMMA FiveWords ==
    ASSUME NEW a, NEW b, NEW c, NEW d, NEW e
    PROVE  <<a, b>> \o <<c, d, e>> = <<a, b, c, d, e>>
<1>. DEFINE s == <<a, b>> \o <<c, d, e>>
            t == <<a, b, c, d, e>>
<1>1. s \in Seq({a, b, c, d, e}) /\ t \in Seq({a, b, c, d, e}) /\ Len(s) = 5 /\ Len(t) = 5
  OBVIOUS
<1>2. s[1] = a /\ s[2] = b /\ s[3] = c /\ s[4] = d /\ s[5] = e
  OBVIOUS
<1>3. t[1] = a /\ t[2] = b /\ t[3] = c /\ t[4] = d /\ t[5] = e
  OBVIOUS
<1>. HIDE DEF s, t
<1>4. s = t
  BY <1>1, <1>2, <1>3, SeqEqual
<1>. QED  BY <1>4 DEF s, t

LEMMA WantedInput ==
    ASSUME NEW i, NEW ing \in Ingredient, case.ingredients[i] = ing, ing.variant = "v2",
           case.direction = "input", NEW pair, pair = Scaled(<<"pair", i>>, 20, 0)
    PROVE  WantedCalls(i) =
              <<[to |-> WETH,
                 data |-> Abi("transferFrom", TransferFromWords(pair, Scaled(<<"in", i>>, 5, 4)))],
                [to |-> pair,
                 data |-> Abi("swap", InWords(ing.weth0, Scaled(<<"out", i>>, 4, ing.shift)))]>>
<1>. DEFINE out == Scaled(<<"out", i>>, 4, ing.shift)
            x80 == Number("0x80", 1)
            words == (IF ~ing.weth0 THEN <<out, Zero>> ELSE <<Zero, out>>) \o <<Self, x80, Zero>>
<1>1. Wanted2(i, TRUE) =
         [to |-> WETH,
          data |-> Abi("transferFrom", TransferFromWords(pair, Scaled(<<"in", i>>, 5, 4)))]
  BY DEF Wanted2, TransferFromWords
<1>2. ing.weth0 \in BOOLEAN
  BY DEF Ingredient
<1>3. Wanted2(i, FALSE) = [to |-> pair, data |-> Abi("swap", words)]
  BY <1>2 DEF Wanted2
<1>4. words = InWords(ing.weth0, out)
  <2>. HIDE DEF out, x80
  <2>1. words = IF ing.weth0 THEN <<Zero, out, Self, x80, Zero>> ELSE <<out, Zero, Self, x80, Zero>>
    BY FiveWords
  <2>. QED  BY <2>1 DEF InWords, FirstWords, SecondWords, x80
<1>. HIDE DEF words, out, x80
<1>5. WantedCalls(i) = <<Wanted2(i, TRUE), Wanted2(i, FALSE)>>
  BY DEF WantedCalls
<1>. QED  BY <1>1, <1>3, <1>4, <1>5 DEF out

LEMMA WantedOutput ==
    ASSUME NEW i, NEW ing \in Ingredient, case.ingredients[i] = ing, ing.variant = "v2",
           case.direction = "output", NEW pair, pair = Scaled(<<"pair", i>>, 20, 0),
           NEW weth, weth = (IF Len(case.ingredients) > 1 THEN ing.wethShift ELSE 4)
    PROVE  WantedCalls(i) =
              <<[to |-> Scaled(<<"token", i>>, 20, 0),
                 data |-> Abi("transfer",
                              TransferWords(pair, Scaled(<<"in", i>>, 4, ing.shift)))],
                [to |-> pair,
                 data |-> Abi("swap", OutWords(ing.weth0, Scaled(<<"out", i>>, 5, weth)))]>>
<1>. DEFINE out == Scaled(<<"out", i>>, 5, weth)
            x80 == Number("0x80", 1)
            words == (IF ing.weth0 THEN <<out, Zero>> ELSE <<Zero, out>>) \o <<Self, x80, Zero>>
<1>1. Wanted2(i, TRUE) =
         [to |-> Scaled(<<"token", i>>, 20, 0),
          data |-> Abi("transfer", TransferWords(pair, Scaled(<<"in", i>>, 4, ing.shift)))]
  BY DEF Wanted2, TransferWords
<1>2. ing.weth0 \in BOOLEAN
  BY DEF Ingredient
<1>3. Wanted2(i, FALSE) = [to |-> pair, data |-> Abi("swap", words)]
  BY <1>2 DEF Wanted2
<1>4. words = OutWords(ing.weth0, out)
  <2>. HIDE DEF out, x80
  <2>1. words = IF ing.weth0 THEN <<out, Zero, Self, x80, Zero>> ELSE <<Zero, out, Self, x80, Zero>>
    BY FiveWords
  <2>. QED  BY <2>1 DEF OutWords, FirstWords, SecondWords, x80
<1>. HIDE DEF words, out, x80
<1>5. WantedCalls(i) = <<Wanted2(i, TRUE), Wanted2(i, FALSE)>>
  BY DEF WantedCalls
<1>. QED  BY <1>1, <1>3, <1>4, <1>5 DEF out

-----------------------------------------------------------------------------
(* The calls of a V2 swap.                                                 *)

\* what is behind the amount in stays
LEMMA TransferFromRest ==
    ASSUME NEW m, NEW next \in BOOLEAN, NEW in, IsWord(in), NEW pair, IsWord(pair),
           NEW a \in Int, a >= 100, Cell(m, a) = {}
    PROVE  Cell(TransferFromMemory(m, in, pair, next), a) = {}
<1>. DEFINE sig == AtLeft("transferFrom", 4)
<1>1. IsWord(sig) /\ IsWord(Self)
  BY FixedWords
<1>2. TransferFromMemory(m, in, pair, next) =
          Cleared(m ++ <<0, sig>> ++ <<4, Self>>, 68, next) ++ <<64, in>> ++ <<36, pair>>
  BY DEF TransferFromMemory
<1>. HIDE DEF sig
<1>. QED  BY <1>1, <1>2, CellOfStore, CellOfCleared

LEMMA V2InputBounded ==
    ASSUME NEW m, Bounded(m), NEW next, NEW in, IsWord(in), NEW pair, IsWord(pair),
           NEW offset \in 0..100, NEW out, IsWord(out)
    PROVE  Bounded(SwapInMemory(TransferFromMemory(m, in, pair, next), offset, out, next))
<1>. DEFINE t == TransferFromMemory(m, in, pair, next)
<1>1. Bounded(t)
  <2>. DEFINE m1 == m ++ <<0, AtLeft("transferFrom", 4)>>
              m2 == m1 ++ <<4, Self>>
              m3 == Cleared(m2, 68, next)
              m4 == m3 ++ <<64, in>>
  <2>0. {0, 4, 36, 64, 68} \subseteq 0..217
    OBVIOUS
  <2>1. Bounded(m1)
    BY <2>0, FixedWords, BoundedStore
  <2>. HIDE DEF m1
  <2>2. Bounded(m2)
    BY <2>0, <2>1, FixedWords, BoundedStore
  <2>. HIDE DEF m2
  <2>3. Bounded(m3)
    BY <2>0, <2>2, BoundedCleared
  <2>. HIDE DEF m3
  <2>4. Bounded(m4)
    BY <2>0, <2>3, BoundedStore
  <2>. HIDE DEF m4
  <2>5. Bounded(m4 ++ <<36, pair>>)
    BY <2>0, <2>4, BoundedStore
  <2>. QED  BY <2>5 DEF TransferFromMemory, m1, m2, m3, m4
<1>. HIDE DEF t
<1>2. Bounded(SwapInMemory(t, offset, out, next))
  <2>. DEFINE m1 == t ++ <<0, AtLeft("swap", 4)>>
              m2 == m1 ++ <<4, Zero>>
              m3 == m2 ++ <<36, Zero>>
              m4 == m3 ++ <<offset, out>>
              m5 == m4 ++ <<68, Self>>
              m6 == m5 ++ <<100, Number("0x80", 1)>>
  <2>0. {0, 4, 36, offset, 68, 100, 132} \subseteq 0..217
    OBVIOUS
  <2>1. Bounded(m1)
    BY <1>1, <2>0, FixedWords, BoundedStore
  <2>. HIDE DEF m1
  <2>2. Bounded(m2)
    BY <2>0, <2>1, FixedWords, BoundedStore
  <2>. HIDE DEF m2
  <2>3. Bounded(m3)
    BY <2>0, <2>2, FixedWords, BoundedStore
  <2>. HIDE DEF m3
  <2>4. Bounded(m4)
    BY <2>0, <2>3, BoundedStore
  <2>. HIDE DEF m4
  <2>5. Bounded(m5)
    BY <2>0, <2>4, FixedWords, BoundedStore
  <2>. HIDE DEF m5
  <2>6. Bounded(m6)
    BY <2>0, <2>5, FixedWords, BoundedStore
  <2>. HIDE DEF m6
  <2>7. Bounded(Cleared(m6, 132, next))
    BY <2>0, <2>6, BoundedCleared
  <2>. QED  BY <2>7 DEF SwapInMemory, m1, m2, m3, m4, m5, m6
<1>. QED  BY <1>2 DEF t

InputDone(m, from, to, pair, weth0, shift, next) ==
    LET transfer == TransferFromMemory(m, Number(from, 5), pair, next)
    IN  /\ Slice(transfer, 0, 100) =
              Abi("transferFrom", TransferFromWords(pair, Scaled(from, 5, 4)))
        /\ Slice(SwapInMemory(transfer, InOffset(weth0, shift), AtLeft(to, 4), next), 0, 164) =
              Abi("swap", InWords(weth0, Scaled(to, 4, shift)))

LEMMA V2InputData ==
    ASSUME NEW m, NEW next \in BOOLEAN, next \/ m = Zero, NEW pair, IsWord(pair),
           NEW from, NEW to, NEW weth0 \in BOOLEAN, NEW shift \in Shifts
    PROVE  InputDone(m, from, to, pair, weth0, shift, next)
<1>. DEFINE in == Number(from, 5)
            transfer == TransferFromMemory(m, in, pair, next)
<1>1. next \/ Blank(m, 96, 99)
  BY CellOfZero DEF Blank
<1>2. Slice(transfer, 0, 100) = Abi("transferFrom", TransferFromWords(pair, Scaled(from, 5, 4)))
  BY <1>1, TransferFromData
<1>3. next \/ Blank(transfer, 132, 163)
  <2>1. IsWord(in)
    BY FixedWords
  <2>2. ~next => \A a \in 132..163 : a \in Int /\ a >= 100 /\ Cell(m, a) = {}
    BY CellOfZero
  <2>. HIDE DEF in
  <2>. QED  BY <2>1, <2>2, TransferFromRest DEF Blank
<1>. HIDE DEF transfer
<1>4. Slice(SwapInMemory(transfer, InOffset(weth0, shift), AtLeft(to, 4), next), 0, 164) =
          Abi("swap", InWords(weth0, Scaled(to, 4, shift)))
  BY <1>3, SwapInData
<1>. QED  BY <1>2, <1>4 DEF InputDone, transfer

\* The two calls of a V2 swap that buys are those of its ingredient.
LEMMA V2InputMeant ==
    ASSUME NEW i, NEW ing \in Ingredient, case.ingredients[i] = ing, ing.variant = "v2",
           case.direction = "input", Bounded(memory), Len(data) \in Nat,
           NEW o \in Nat, NEW taken, taken = 4 \/ (taken = 32 /\ Len(data) = o + 26),
           NEW next \in BOOLEAN, next \/ memory = Zero,
           Shows(data, 0, V2InputSpots(o, ing), i)
    PROVE  Meant(V2Input(o, Number(<<"in", i>>, 5), taken, next), i)
<1>. DEFINE in == Number(<<"in", i>>, 5)
            pair == Scaled(<<"pair", i>>, 20, 0)
            out == AtLeft(<<"out", i>>, 4)
            offset == InOffset(ing.weth0, ing.shift)
            transfer == TransferFromMemory(memory, in, pair, next)
            swap == SwapInMemory(transfer, offset, out, next)
            data1 == Abi("transferFrom", TransferFromWords(pair, Scaled(<<"in", i>>, 5, 4)))
            data2 == Abi("swap", InWords(ing.weth0, Scaled(<<"out", i>>, 4, ing.shift)))
<1>1. ing.weth0 \in BOOLEAN /\ ing.shift \in 0..11
  BY DEF Ingredient, MaxShift
<1>2. /\ Holds(data, o + 1, OffOut(ing), i) /\ Holds(data, o + 2, F("pair", 20), i)
      /\ Holds(data, o + 22, F("out", 4), i)
  <2>1. \A q \in Nat : 0 + (q + 1) = q + 1 /\ 0 + (q + 2) = q + 2 /\ 0 + (q + 22) = q + 22
    OBVIOUS
  <2>. QED  BY <2>1 DEF Shows, V2InputSpots, Spot
<1>3. Address(o + 2) = pair
  BY <1>2, AddressShown
<1>4. ByteAt(o + 1) = offset /\ offset \in 0..100
  <2>1. OffOut(ing).width = 1 /\ OffOut(ing).val = offset
    BY DEF OffOut, L, InOffset
  <2>2. offset \in 0..100
    <3>1. \A x \in {64, 32} : \A y \in 0..11 : x - y \in 0..100
      OBVIOUS
    <3>2. Side(ing.weth0, 64, 32) \in {64, 32}
      BY DEF Side
    <3>. QED  BY <1>1, <3>1, <3>2 DEF InOffset
  <2>. HIDE DEF offset
  <2>. QED  BY <1>2, <2>1, <2>2, ByteShown
<1>5. Load(o + 22, taken) = out
  <2>. DEFINE field == F("out", 4)
  <2>1. field.width = 4 /\ field.name = "out" /\ Holds(data, o + 22, field, i)
    BY <1>2 DEF F
  <2>. HIDE DEF field
  <2>2. o + 22 \in Nat /\ taken \in Nat /\ (o + 22) + 4 = o + 26
    OBVIOUS
  <2>. QED  BY <2>1, <2>2, LoadShown
<1>6. IsWord(in) /\ IsWord(pair) /\ IsWord(out)
  BY FixedWords, WordOfScaled
<1>. HIDE DEF offset, pair, out, in
<1>7. V2Input(o, in, taken, next) =
          <<Asks(WETH, transfer, 0, 100), Asks(pair, swap, 0, 164)>>
  BY <1>3, <1>4, <1>5 DEF V2Input, TransferFromMemory, SwapInMemory
<1>8. \A m, from, size, to : /\ Asks(to, m, from, size).to = to
                             /\ Asks(to, m, from, size).data = Slice(m, from, size)
                             /\ Asks(to, m, from, size).memory = m
  BY DEF Asks
<1>9. IsWord(pair) /\ ing.shift \in Shifts
  BY <1>1, <1>6 DEF Shifts
<1>10. Slice(transfer, 0, 100) = data1 /\ Slice(swap, 0, 164) = data2
  <2>. DEFINE from == <<"in", i>>
              to == <<"out", i>>
              weth0 == ing.weth0
              shift == ing.shift
              m == memory
  <2>1. weth0 \in BOOLEAN /\ shift \in Shifts /\ (next \/ m = Zero)
    BY <1>1, <1>9
  <2>. HIDE DEF transfer, swap, from, to, weth0, shift, m
  <2>2. InputDone(m, from, to, pair, weth0, shift, next)
    BY <1>9, <2>1, V2InputData
  <2>. QED  BY <2>2 DEF InputDone, transfer, swap, offset, in, out, from, to, weth0, shift, m
<1>12. Bounded(swap)
  BY <1>4, <1>6, V2InputBounded
<1>13. WantedCalls(i) = <<[to |-> WETH, data |-> data1], [to |-> pair, data |-> data2]>>
  BY WantedInput DEF pair
<1>. HIDE DEF swap, transfer, data1, data2
<1>14. Meant(V2Input(o, in, taken, next), i)
  <2>. DEFINE call1 == Asks(WETH, transfer, 0, 100)
              call2 == Asks(pair, swap, 0, 164)
  <2>1. call1.to = WETH /\ call1.data = data1 /\ call2.to = pair /\ call2.data = data2
        /\ call2.memory = swap
    BY <1>8, <1>10
  <2>. HIDE DEF call1, call2
  <2>2. V2Input(o, in, taken, next) = <<call1, call2>>
    BY <1>7 DEF call1, call2
  <2>. QED  BY <1>12, <1>13, <2>1, <2>2, TwoMeant
<1>. QED  BY <1>14 DEF in

\* Byte for byte what the handlers of several swaps that sell to WETH ask.
OutputDone(m, from, to, pair, weth0, shift, weth, next) ==
    LET transfer == TransferMemory(m, pair, TransferOffset(shift), AtLeft(from, 4), next)
    IN  /\ Slice(transfer, 0, 68) =
              Abi("transfer", TransferWords(pair, Scaled(from, 4, shift)))
        /\ Slice(SwapOutMemory(transfer, OutOffset(weth0, weth), Number(to, 5), next), 64, 164) =
              Abi("swap", OutWords(weth0, Scaled(to, 5, weth)))

LEMMA V2OutputData ==
    ASSUME NEW m, NEW next \in BOOLEAN, next \/ m = Zero, NEW pair, IsWord(pair),
           NEW from, NEW to, NEW weth0 \in BOOLEAN, NEW shift \in Shifts, NEW weth \in Shifts
    PROVE  OutputDone(m, from, to, pair, weth0, shift, weth, next)
<1>. DEFINE offset == TransferOffset(shift)
            transfer == TransferMemory(m, pair, offset, AtLeft(from, 4), next)
            offOut == OutOffset(weth0, weth)
<1>. HIDE DEF offset, offOut
<1>1. next \/ Blank(m, 36, 67)
  BY CellOfZero DEF Blank
<1>2. offset = TransferOffset(shift) /\ offOut = OutOffset(weth0, weth)
  BY DEF offset, offOut
<1>3. Slice(transfer, 0, 68) = Abi("transfer", TransferWords(pair, Scaled(from, 4, shift)))
  BY <1>1, <1>2, TransferData
<1>4. next \/ Blank(transfer, 68, 227)
  <2>1. ASSUME ~next, NEW a \in 68..227
        PROVE  Cell(transfer, a) = {}
    <3>1. a \in Int /\ a >= 68 - shift /\ Cell(m, a) = {}
      BY <2>1, CellOfZero DEF Shifts
    <3>. QED  BY <1>2, <3>1, TransferRest
  <2>. HIDE DEF transfer
  <2>. QED  BY <2>1 DEF Blank
<1>. HIDE DEF transfer
<1>5. Slice(SwapOutMemory(transfer, offOut, Number(to, 5), next), 64, 164) =
          Abi("swap", OutWords(weth0, Scaled(to, 5, weth)))
  BY <1>2, <1>4, SwapOutData
<1>. QED  BY <1>2, <1>3, <1>5 DEF OutputDone, transfer

\* ... and those of one swap.
Output0Done(m, from, to, pair, shift) ==
    LET transfer == TransferMemory(m, pair, TransferOffset(shift), AtLeft(from, 4), FALSE)
    IN  /\ Slice(transfer, 0, 68) =
              Abi("transfer", TransferWords(pair, Scaled(from, 4, shift)))
        /\ Slice(SwapOut0Memory(transfer, Number(to, 5)), 0, 164) =
              Abi("swap", FirstWords(Scaled(to, 5, 4)))

Output1Done(m, from, to, pair, shift) ==
    LET transfer == TransferMemory(m, pair, TransferOffset(shift), AtLeft(from, 4), FALSE)
    IN  /\ Slice(transfer, 0, 68) =
              Abi("transfer", TransferWords(pair, Scaled(from, 4, shift)))
        /\ Slice(SwapOut1Memory(transfer, Number(to, 5)), 0, 164) =
              Abi("swap", SecondWords(Scaled(to, 5, 4)))

LEMMA V2OutputSingleData ==
    ASSUME NEW m, m = Zero, NEW pair, IsWord(pair), NEW from, NEW to, NEW shift \in Shifts
    PROVE  /\ Output0Done(m, from, to, pair, shift)
           /\ shift >= 4 => Output1Done(m, from, to, pair, shift)
<1>. DEFINE offset == TransferOffset(shift)
            no == FALSE
            transfer == TransferMemory(m, pair, offset, AtLeft(from, 4), no)
<1>1. no \in BOOLEAN /\ ~no
  OBVIOUS
<1>. HIDE DEF offset, no
<1>2. offset = TransferOffset(shift) /\ Blank(m, 36, 67)
  BY CellOfZero DEF Blank, offset
<1>3. Slice(transfer, 0, 68) = Abi("transfer", TransferWords(pair, Scaled(from, 4, shift)))
  BY <1>1, <1>2, TransferData
<1>4. \A a \in Int : a >= 68 - shift => Cell(transfer, a) = {}
  <2>1. \A a \in Int : Cell(m, a) = {}
    BY CellOfZero
  <2>. QED  BY <1>1, <1>2, <2>1, TransferRest
<1>. HIDE DEF transfer
<1>5. Blank(transfer, 132, 163) /\ (shift >= 4 => Blank(transfer, 64, 67))
  <2>1. shift \in 0..11
    BY DEF Shifts
  <2>2. \A a \in 132..163 : a \in Int /\ a >= 68 - shift
    BY <2>1
  <2>3. shift >= 4 => \A a \in 64..67 : a \in Int /\ a >= 68 - shift
    BY <2>1
  <2>4. Blank(transfer, 132, 163)
    BY <1>4, <2>2 DEF Blank
  <2>. QED  BY <1>4, <2>3, <2>4 DEF Blank
<1>6. Slice(SwapOut0Memory(transfer, Number(to, 5)), 0, 164) =
          Abi("swap", FirstWords(Scaled(to, 5, 4)))
  BY <1>5, SwapOut0Data
<1>7. shift >= 4 => Slice(SwapOut1Memory(transfer, Number(to, 5)), 0, 164) =
                        Abi("swap", SecondWords(Scaled(to, 5, 4)))
  BY <1>5, SwapOut1Data
<1>. QED  BY <1>3, <1>6, <1>7 DEF Output0Done, Output1Done, transfer, offset, no

LEMMA TransferBounded ==
    ASSUME NEW m, Bounded(m), NEW next, NEW pair, IsWord(pair), NEW offset \in 0..100,
           NEW in, IsWord(in)
    PROVE  Bounded(TransferMemory(m, pair, offset, in, next))
<1>. DEFINE m1 == Cleared(m, 36, next)
            m2 == m1 ++ <<0, AtLeft("transfer", 4)>>
            m3 == m2 ++ <<4, pair>>
<1>0. {0, 4, 36, offset} \subseteq 0..217
  OBVIOUS
<1>1. Bounded(m1)
  BY <1>0, BoundedCleared
<1>. HIDE DEF m1
<1>2. Bounded(m2)
  BY <1>0, <1>1, FixedWords, BoundedStore
<1>. HIDE DEF m2
<1>3. Bounded(m3)
  BY <1>0, <1>2, BoundedStore
<1>. HIDE DEF m3
<1>4. Bounded(m3 ++ <<offset, in>>)
  BY <1>0, <1>3, BoundedStore
<1>. QED  BY <1>4 DEF TransferMemory, m1, m2, m3

LEMMA SwapOutBounded ==
    ASSUME NEW m, Bounded(m), NEW next, NEW offset \in 0..100, NEW out, IsWord(out)
    PROVE  Bounded(SwapOutMemory(m, offset, out, next))
<1>. DEFINE m1 == Cleared(m, 68, next)
            m2 == Cleared(m1, 100, next)
            m3 == m2 ++ <<offset, out>>
            m4 == m3 ++ <<36, Number("swap", 4)>>
            m5 == m4 ++ <<132, Self>>
            m6 == m5 ++ <<164, Number("0x80", 1)>>
<1>0. {36, 68, 100, 132, 164, 196, offset} \subseteq 0..217
  OBVIOUS
<1>1. Bounded(m1)
  BY <1>0, BoundedCleared
<1>. HIDE DEF m1
<1>2. Bounded(m2)
  BY <1>0, <1>1, BoundedCleared
<1>. HIDE DEF m2
<1>3. Bounded(m3)
  BY <1>0, <1>2, BoundedStore
<1>. HIDE DEF m3
<1>4. Bounded(m4)
  BY <1>0, <1>3, FixedWords, BoundedStore
<1>. HIDE DEF m4
<1>5. Bounded(m5)
  BY <1>0, <1>4, FixedWords, BoundedStore
<1>. HIDE DEF m5
<1>6. Bounded(m6)
  BY <1>0, <1>5, FixedWords, BoundedStore
<1>. HIDE DEF m6
<1>7. Bounded(Cleared(m6, 196, next))
  BY <1>0, <1>6, BoundedCleared
<1>. QED  BY <1>7 DEF SwapOutMemory, m1, m2, m3, m4, m5, m6

LEMMA SwapOutSingleBounded ==
    ASSUME NEW m, Bounded(m), NEW out, IsWord(out)
    PROVE  Bounded(SwapOut0Memory(m, out)) /\ Bounded(SwapOut1Memory(m, out))
<1>. DEFINE sig == AtLeft("swap", 4)
            both == Or(sig, out)
            x80 == Number("0x80", 1)
<1>0. {0, 4, 32, 36, 68, 100} \subseteq 0..217
  OBVIOUS
<1>1. IsWord(sig) /\ IsWord(both) /\ IsWord(Self) /\ IsWord(x80) /\ IsWord(Zero)
  BY FixedWords, WordOfOr
<1>. HIDE DEF sig, both, x80
<1>2. Bounded(SwapOut0Memory(m, out))
  <2>. DEFINE m1 == m ++ <<4, Zero>>
              m2 == m1 ++ <<36, Zero>>
              m3 == m2 ++ <<0, both>>
              m4 == m3 ++ <<68, Self>>
  <2>1. Bounded(m1)
    BY <1>0, <1>1, BoundedStore
  <2>. HIDE DEF m1
  <2>2. Bounded(m2)
    BY <1>0, <1>1, <2>1, BoundedStore
  <2>. HIDE DEF m2
  <2>3. Bounded(m3)
    BY <1>0, <1>1, <2>2, BoundedStore
  <2>. HIDE DEF m3
  <2>4. Bounded(m4)
    BY <1>0, <1>1, <2>3, BoundedStore
  <2>. HIDE DEF m4
  <2>5. Bounded(m4 ++ <<100, x80>>)
    BY <1>0, <1>1, <2>4, BoundedStore
  <2>. QED  BY <2>5 DEF SwapOut0Memory, m1, m2, m3, m4, sig, both, x80
<1>3. Bounded(SwapOut1Memory(m, out))
  <2>. DEFINE m1 == m ++ <<0, sig>>
              m2 == m1 ++ <<4, Zero>>
              m3 == m2 ++ <<32, out>>
              m4 == m3 ++ <<68, Self>>
  <2>1. Bounded(m1)
    BY <1>0, <1>1, BoundedStore
  <2>. HIDE DEF m1
  <2>2. Bounded(m2)
    BY <1>0, <1>1, <2>1, BoundedStore
  <2>. HIDE DEF m2
  <2>3. Bounded(m3)
    BY <1>0, <2>2, BoundedStore
  <2>. HIDE DEF m3
  <2>4. Bounded(m4)
    BY <1>0, <1>1, <2>3, BoundedStore
  <2>. HIDE DEF m4
  <2>5. Bounded(m4 ++ <<100, x80>>)
    BY <1>0, <1>1, <2>4, BoundedStore
  <2>. QED  BY <2>5 DEF SwapOut1Memory, m1, m2, m3, m4, sig, x80
<1>. QED  BY <1>2, <1>3

LEMMA V2TransferIs ==
    ASSUME NEW i, NEW ing \in Ingredient, Len(data) \in Nat, NEW o \in Nat,
           NEW taken, taken = 4 \/ (taken = 32 /\ Len(data) = o + 46), NEW next,
           Shows(data, 0, V2OutputSpots(o, ing), i),
           NEW pair, pair = Scaled(<<"pair", i>>, 20, 0),
           NEW token, token = Scaled(<<"token", i>>, 20, 0),
           NEW in, in = AtLeft(<<"in", i>>, 4), NEW offset, offset = TransferOffset(ing.shift)
    PROVE  /\ Address(o + 2) = pair
           /\ V2Transfer(o, taken, next) =
                 Asks(token, TransferMemory(memory, pair, offset, in, next), 0, 68)
<1>1. /\ Holds(data, o + 1, OffIn(ing), i) /\ Holds(data, o + 2, F("pair", 20), i)
      /\ Holds(data, o + 22, F("token", 20), i) /\ Holds(data, o + 42, F("in", 4), i)
  <2>1. \A q \in Nat : /\ 0 + (q + 1) = q + 1 /\ 0 + (q + 2) = q + 2
                       /\ 0 + (q + 22) = q + 22 /\ 0 + (q + 42) = q + 42
    OBVIOUS
  <2>. QED  BY <2>1 DEF Shows, V2OutputSpots, Spot
<1>2. Address(o + 2) = pair /\ Address(o + 22) = token
  BY <1>1, AddressShown
<1>3. ByteAt(o + 1) = offset
  <2>1. OffIn(ing).width = 1 /\ OffIn(ing).val = offset
    BY DEF OffIn, L, TransferOffset
  <2>. QED  BY <1>1, <2>1, ByteShown
<1>4. Load(o + 42, taken) = in
  <2>. DEFINE field == F("in", 4)
  <2>1. field.width = 4 /\ field.name = "in" /\ Holds(data, o + 42, field, i)
    BY <1>1 DEF F
  <2>. HIDE DEF field
  <2>2. o + 42 \in Nat /\ taken \in Nat /\ (o + 42) + 4 = o + 46
    OBVIOUS
  <2>. QED  BY <2>1, <2>2, LoadShown
<1>5. V2Transfer(o, taken, next) =
          Asks(token, TransferMemory(memory, pair, offset, in, next), 0, 68)
  BY <1>2, <1>3, <1>4 DEF V2Transfer, TransferMemory
<1>. QED  BY <1>2, <1>5

LEMMA AsksFacts ==
    \A to, m, from, size : /\ Asks(to, m, from, size).to = to
                           /\ Asks(to, m, from, size).data = Slice(m, from, size)
                           /\ Asks(to, m, from, size).memory = m
BY DEF Asks

LEMMA ShiftsOf ==
    ASSUME NEW ing \in Ingredient
    PROVE  /\ ing.weth0 \in BOOLEAN /\ ing.shift \in Shifts /\ ing.wethShift \in Shifts
           /\ \A shift \in Shifts : /\ TransferOffset(shift) \in 0..100
                                    /\ \A w \in BOOLEAN : /\ InOffset(w, shift) \in 0..100
                                                          /\ OutOffset(w, shift) \in 0..100
<1>1. ing.weth0 \in BOOLEAN /\ ing.shift \in Shifts /\ ing.wethShift \in Shifts
  BY DEF Ingredient, MaxShift, Shifts
<1>2. \A x \in {64, 32, 68, 100} : \A y \in Shifts : x - y \in 0..100
  BY DEF Shifts
<1>3. \A w : Side(w, 64, 32) \in {64, 32, 68, 100} /\ Side(w, 68, 100) \in {64, 32, 68, 100}
  BY DEF Side
<1>. QED  BY <1>1, <1>2, <1>3 DEF TransferOffset, InOffset, OutOffset

\* The two calls of a V2 swap that sells, in a payload of several.
LEMMA V2OutputMeant ==
    ASSUME NEW i, NEW ing \in Ingredient, case.ingredients[i] = ing, ing.variant = "v2",
           case.direction = "output", Len(case.ingredients) > 1,
           Bounded(memory), Len(data) \in Nat, NEW o \in Nat,
           NEW next \in BOOLEAN, next \/ memory = Zero,
           Shows(data, 0, V2OutputSpots(o, ing), i),
           NEW offOut, offOut = OutOffset(ing.weth0, ing.wethShift)
    PROVE  Meant(V2OutputMulti(V2Transfer(o, 4, next), o, Number(<<"out", i>>, 5), offOut, next), i)
<1>. DEFINE out == Number(<<"out", i>>, 5)
            pair == Scaled(<<"pair", i>>, 20, 0)
            token == Scaled(<<"token", i>>, 20, 0)
            in == AtLeft(<<"in", i>>, 4)
            offset == TransferOffset(ing.shift)
            transfer == TransferMemory(memory, pair, offset, in, next)
            swap == SwapOutMemory(transfer, offOut, out, next)
            data1 == Abi("transfer", TransferWords(pair, Scaled(<<"in", i>>, 4, ing.shift)))
            data2 == Abi("swap", OutWords(ing.weth0, Scaled(<<"out", i>>, 5, ing.wethShift)))
            call1 == Asks(token, transfer, 0, 68)
            call2 == Asks(pair, swap, 64, 164)
<1>1. /\ ing.weth0 \in BOOLEAN /\ ing.shift \in Shifts /\ ing.wethShift \in Shifts
      /\ offset \in 0..100 /\ offOut \in 0..100
  BY ShiftsOf
<1>2. IsWord(in) /\ IsWord(pair) /\ IsWord(out)
  BY FixedWords, WordOfScaled
<1>3. Address(o + 2) = pair /\ V2Transfer(o, 4, next) = call1
  <2>. DEFINE taken == 4
  <2>1. taken \in {4}
    OBVIOUS
  <2>2. /\ pair = Scaled(<<"pair", i>>, 20, 0) /\ token = Scaled(<<"token", i>>, 20, 0)
        /\ in = AtLeft(<<"in", i>>, 4) /\ offset = TransferOffset(ing.shift)
    OBVIOUS
  <2>. HIDE DEF taken, pair, token, in, offset
  <2>3. Address(o + 2) = pair /\ V2Transfer(o, taken, next) = call1
    BY <2>1, <2>2, V2TransferIs
  <2>. QED  BY <2>3 DEF taken
<1>4. Bounded(swap)
  <2>. HIDE DEF offset, pair, out, in
  <2>1. Bounded(transfer)
    BY <1>1, <1>2, TransferBounded
  <2>. HIDE DEF transfer
  <2>. QED  BY <1>1, <1>2, <2>1, SwapOutBounded
<1>5. Slice(transfer, 0, 68) = data1 /\ Slice(swap, 64, 164) = data2
  <2>. DEFINE from == <<"in", i>>
              to == <<"out", i>>
              weth0 == ing.weth0
              shift == ing.shift
              weth == ing.wethShift
              m == memory
  <2>1. weth0 \in BOOLEAN /\ shift \in Shifts /\ weth \in Shifts /\ (next \/ m = Zero)
    BY <1>1
  <2>2. IsWord(pair)
    BY <1>2
  <2>. HIDE DEF transfer, swap, from, to, weth0, shift, weth, m, pair
  <2>3. OutputDone(m, from, to, pair, weth0, shift, weth, next)
    BY <2>1, <2>2, V2OutputData
  <2>. QED  BY <2>3 DEF OutputDone, transfer, swap, from, to, weth0, shift, weth, m
<1>6. WantedCalls(i) = <<[to |-> token, data |-> data1], [to |-> pair, data |-> data2]>>
  <2>. DEFINE weth == ing.wethShift
  <2>1. weth = (IF Len(case.ingredients) > 1 THEN ing.wethShift ELSE 4)
    OBVIOUS
  <2>. HIDE DEF weth
  <2>2. WantedCalls(i) =
          <<[to |-> token, data |-> data1],
            [to |-> pair, data |-> Abi("swap", OutWords(ing.weth0, Scaled(<<"out", i>>, 5, weth)))]>>
    BY <2>1, WantedOutput
  <2>. QED  BY <2>2 DEF weth
<1>. HIDE DEF swap, transfer, data1, data2, pair, token, out, in
<1>7. V2OutputMulti(V2Transfer(o, 4, next), o, out, offOut, next) = <<call1, call2>>
  <2>1. call1.memory = transfer
    BY AsksFacts
  <2>. HIDE DEF call1
  <2>. QED  BY <1>3, <2>1 DEF V2OutputMulti, V2OutputMultiSwap, SwapOutMemory, swap
<1>8. Meant(V2OutputMulti(V2Transfer(o, 4, next), o, out, offOut, next), i)
  <2>1. call1.to = token /\ call1.data = data1 /\ call2.to = pair /\ call2.data = data2
        /\ call2.memory = swap
    BY <1>5, AsksFacts
  <2>. HIDE DEF call1, call2
  <2>. QED  BY <1>4, <1>6, <1>7, <2>1, TwoMeant
<1>. QED  BY <1>8 DEF out

LEMMA TwoBounded ==
    ASSUME NEW call1, NEW call2, Bounded(call2.memory)
    PROVE  Bounded(Last(<<call1, call2>>).memory)
BY DEF Last

LEMMA ValueShown ==
    ASSUME NEW i, ValueOf(case) = i, NEW name, name = (IF case.direction = "input" THEN "in" ELSE "out")
    PROVE  Callvalue = Number(<<name, i>>, 5)
BY DEF Callvalue, WethField

\* ... and alone; where WETH is the second token, if the shift leaves no bytes.
LEMMA V2OutputSingleMeant ==
    ASSUME NEW i, NEW ing \in Ingredient, case.ingredients[i] = ing, ing.variant = "v2",
           case.direction = "output", Len(case.ingredients) = 1, ValueOf(case) = i,
           memory = Zero, Len(data) = 47, Shows(data, 0, V2OutputSpots(1, ing), i)
    PROVE  /\ ing.weth0 => Meant(V2Calls("v2_output0_single"), i)
           /\ ~ing.weth0 => /\ Bounded(Last(V2Calls("v2_output1_single")).memory)
                            /\ ing.shift >= 4 => Meant(V2Calls("v2_output1_single"), i)
<1>. DEFINE out == Number(<<"out", i>>, 5)
            pair == Scaled(<<"pair", i>>, 20, 0)
            token == Scaled(<<"token", i>>, 20, 0)
            in == AtLeft(<<"in", i>>, 4)
            offset == TransferOffset(ing.shift)
            no == FALSE
            transfer == TransferMemory(memory, pair, offset, in, no)
            swap0 == SwapOut0Memory(transfer, out)
            swap1 == SwapOut1Memory(transfer, out)
            word == Scaled(<<"out", i>>, 5, 4)
            data1 == Abi("transfer", TransferWords(pair, Scaled(<<"in", i>>, 4, ing.shift)))
            call1 == Asks(token, transfer, 0, 68)
            call20 == Asks(pair, swap0, 0, 164)
            call21 == Asks(pair, swap1, 0, 164)
<1>1. /\ ing.weth0 \in BOOLEAN /\ ing.shift \in Shifts /\ offset \in 0..100
  BY ShiftsOf
<1>2. IsWord(in) /\ IsWord(pair) /\ IsWord(out)
  BY FixedWords, WordOfScaled
<1>3. Address(3) = pair /\ V2Transfer(1, WordSize, FALSE) = call1
  <2>. DEFINE taken == WordSize
              o == 1
  <2>1. taken = 32 /\ o \in Nat /\ Len(data) = o + 46 /\ o + 2 = 3
    BY DEF WordSize
  <2>2. Shows(data, 0, V2OutputSpots(o, ing), i)
    OBVIOUS
  <2>3. /\ pair = Scaled(<<"pair", i>>, 20, 0) /\ token = Scaled(<<"token", i>>, 20, 0)
        /\ in = AtLeft(<<"in", i>>, 4) /\ offset = TransferOffset(ing.shift)
    OBVIOUS
  <2>. HIDE DEF taken, o, pair, token, in, offset, no
  <2>4. Address(o + 2) = pair /\ V2Transfer(o, taken, no) = call1
    BY <2>1, <2>2, <2>3, V2TransferIs
  <2>5. o = 1 /\ taken = WordSize /\ no = FALSE
    BY DEF o, taken, no
  <2>. QED  BY <2>1, <2>4 DEF o, taken, no
<1>4. Callvalue = out
  <2>. DEFINE name == "out"
  <2>1. name = (IF case.direction = "input" THEN "in" ELSE "out")
    OBVIOUS
  <2>. HIDE DEF name
  <2>2. Callvalue = Number(<<name, i>>, 5)
    BY <2>1, ValueShown
  <2>. QED  BY <2>2 DEF name
<1>5. Bounded(swap0) /\ Bounded(swap1)
  <2>. HIDE DEF offset, pair, out, in, no
  <2>0. Bounded(memory)
    BY DEF Bounded, Zero
  <2>1. Bounded(transfer)
    BY <1>1, <1>2, <2>0, TransferBounded
  <2>. HIDE DEF transfer
  <2>. QED  BY <1>2, <2>1, SwapOutSingleBounded
<1>6. /\ Slice(transfer, 0, 68) = data1 /\ Slice(swap0, 0, 164) = Abi("swap", FirstWords(word))
      /\ ing.shift >= 4 => Slice(swap1, 0, 164) = Abi("swap", SecondWords(word))
  <2>. DEFINE from == <<"in", i>>
              to == <<"out", i>>
              shift == ing.shift
              m == memory
  <2>1. shift \in Shifts /\ m = Zero
    BY <1>1
  <2>2. IsWord(pair)
    BY <1>2
  <2>. HIDE DEF transfer, swap0, swap1, from, to, shift, m, pair
  <2>3. Output0Done(m, from, to, pair, shift) /\ (shift >= 4 => Output1Done(m, from, to, pair, shift))
    BY <2>1, <2>2, V2OutputSingleData
  <2>. QED  BY <2>3 DEF Output0Done, Output1Done, transfer, swap0, swap1, from, to, shift, m
<1>7. /\ ing.weth0 => WantedCalls(i) =
              <<[to |-> token, data |-> data1],
                [to |-> pair, data |-> Abi("swap", FirstWords(word))]>>
      /\ ~ing.weth0 => WantedCalls(i) =
              <<[to |-> token, data |-> data1],
                [to |-> pair, data |-> Abi("swap", SecondWords(word))]>>
  <2>. DEFINE weth == 4
  <2>1. weth = (IF Len(case.ingredients) > 1 THEN ing.wethShift ELSE 4)
    OBVIOUS
  <2>. HIDE DEF weth
  <2>2. WantedCalls(i) =
          <<[to |-> token, data |-> data1],
            [to |-> pair, data |-> Abi("swap", OutWords(ing.weth0, Scaled(<<"out", i>>, 5, weth)))]>>
    BY <2>1, WantedOutput
  <2>. HIDE DEF token, data1, pair
  <2>. QED  BY <2>2 DEF weth, OutWords
<1>. HIDE DEF swap0, swap1, transfer, data1, pair, token, out, in, word
<1>8. V2Calls("v2_output0_single") = <<call1, call20>>
      /\ V2Calls("v2_output1_single") = <<call1, call21>>
  <2>1. call1.memory = transfer
    BY AsksFacts
  <2>. HIDE DEF call1
  <2>2. V2Calls("v2_output0_single") = <<call1, call20>>
    BY <1>3, <1>4, <2>1 DEF V2Calls, V2OutputSingle, SwapOut0Memory, swap0
  <2>3. V2Calls("v2_output1_single") = <<call1, call21>>
    BY <1>3, <1>4, <2>1 DEF V2Calls, V2OutputSingle, SwapOut1Memory, swap1
  <2>. QED  BY <2>2, <2>3
<1>9. /\ call1.to = token /\ call1.data = data1 /\ call20.to = pair /\ call21.to = pair
      /\ call20.data = Abi("swap", FirstWords(word))
      /\ ing.shift >= 4 => call21.data = Abi("swap", SecondWords(word))
      /\ call20.memory = swap0 /\ call21.memory = swap1
  BY <1>6, AsksFacts
<1>. HIDE DEF call1, call20, call21
<1>. DEFINE asks0 == V2Calls("v2_output0_single")
            asks1 == V2Calls("v2_output1_single")
            swapped0 == Abi("swap", FirstWords(word))
            swapped1 == Abi("swap", SecondWords(word))
<1>10. asks0 = <<call1, call20>> /\ asks1 = <<call1, call21>>
  BY <1>8
<1>. HIDE DEF asks0, asks1, swapped0, swapped1
<1>11. ing.weth0 => Meant(asks0, i)
  <2>1. ing.weth0 => WantedCalls(i) =
            <<[to |-> token, data |-> data1], [to |-> pair, data |-> swapped0]>>
    BY <1>7 DEF swapped0
  <2>2. call20.data = swapped0 /\ Bounded(call20.memory)
    BY <1>5, <1>9 DEF swapped0
  <2>. QED  BY <1>9, <1>10, <2>1, <2>2, TwoMeant
<1>12. ~ing.weth0 /\ ing.shift >= 4 => Meant(asks1, i)
  <2>1. ~ing.weth0 => WantedCalls(i) =
            <<[to |-> token, data |-> data1], [to |-> pair, data |-> swapped1]>>
    BY <1>7 DEF swapped1
  <2>2. (ing.shift >= 4 => call21.data = swapped1) /\ Bounded(call21.memory)
    BY <1>5, <1>9 DEF swapped1
  <2>. QED  BY <1>9, <1>10, <2>1, <2>2, TwoMeant
<1>13. Bounded(Last(asks1).memory)
  BY <1>5, <1>9, <1>10, TwoBounded
<1>. QED  BY <1>11, <1>12, <1>13 DEF asks0, asks1

-----------------------------------------------------------------------------
(* The call of a V3 swap.                                                  *)

V3Handed(m, packed, hash) == m ++ <<196, packed>> ++ <<217, hash>>

\* with the flag, and without it
V3Stored(m, flag, amount, limit, packed, hash) ==
    V3Handed(V3Asked(V3Begun(m) ++ <<36, flag>>, amount, limit), packed, hash)
V3Unstored(m, amount, limit, packed, hash) ==
    V3Handed(V3Asked(V3Begun(m), amount, limit), packed, hash)

V3Bytes(flag, amount, limit, packed, hash) ==
    V3Handed(Abi("v3Swap", V3Words(flag, amount, limit)), packed, hash)

LEMMA V3StoredData ==
    ASSUME NEW m, NEW flag, IsWord(flag), NEW amount, IsWord(amount), NEW limit, IsWord(limit),
           NEW packed, IsWord(packed), NEW hash, IsWord(hash)
    PROVE  Slice(V3Stored(m, flag, amount, limit, packed, hash), 0, 249) =
              V3Bytes(flag, amount, limit, packed, hash)
<1>. DEFINE begun == V3Begun(m)
            flagged == begun ++ <<36, flag>>
            head == V3Asked(flagged, amount, limit)
            abi == Abi("v3Swap", V3Words(flag, amount, limit))
<1>. HIDE DEF begun
<1>1. \A a \in Int : Cell(flagged, a) =
          IF 36 <= a /\ a < 68 THEN Cell(flag, a - 36) ELSE Cell(begun, a)
  BY CellOfStore
<1>. HIDE DEF flagged
<1>2. /\ V3Signed(flagged)
      /\ ShownAt(flagged, 4, Self) /\ ShownAt(flagged, 36, flag)
  <2>1. \A l \in 0..3 : Cell(flagged, l) = Cell(begun, l)
    BY <1>1
  <2>2. \A l \in 0..31 : Cell(flagged, 4 + l) = Cell(begun, 4 + l)
    BY <1>1
  <2>3. \A l \in 0..31 : Cell(flagged, 36 + l) = Cell(flag, l)
    BY <1>1
  <2>4. /\ V3Signed(begun)
        /\ \A l \in 0..31 : Cell(begun, 4 + l) = Cell(Self, l)
    BY V3BegunCells DEF begun
  <2>. QED  BY <2>1, <2>2, <2>3, <2>4 DEF ShownAt, V3Signed
<1>3. Slice(head, 0, 196) = abi
  BY <1>2, V3HeadData
<1>4. IsMap(abi)
  <2>. DEFINE words == V3Words(flag, amount, limit)
              S == {Self, flag, amount, limit, Number("0xa0", 1), Number("0x35", 1)}
  <2>1. words \in Seq(S)
    BY DEF V3Words
  <2>. HIDE DEF words, S
  <2>2. IsMap(Abi("v3Swap", words))
    BY <2>1, MapOfAbi
  <2>. QED  BY <2>2 DEF words
<1>. HIDE DEF head, abi
<1>5. Slice(head ++ <<196, packed>> ++ <<217, hash>>, 0, 249) =
          abi ++ <<196, packed>> ++ <<217, hash>>
  BY <1>3, <1>4, V3Data
<1>. QED  BY <1>5 DEF V3Stored, V3Bytes, V3Handed, head, abi, flagged, begun

LEMMA V3UnstoredData ==
    ASSUME NEW m, m = Zero, NEW amount, IsWord(amount), NEW limit, IsWord(limit),
           NEW packed, IsWord(packed), NEW hash, IsWord(hash)
    PROVE  Slice(V3Unstored(m, amount, limit, packed, hash), 0, 249) =
              V3Bytes(Zero, amount, limit, packed, hash)
<1>. DEFINE flag == Zero
            begun == V3Begun(m)
            head == V3Asked(begun, amount, limit)
            abi == Abi("v3Swap", V3Words(flag, amount, limit))
<1>. HIDE DEF flag, begun
<1>2. /\ V3Signed(begun)
      /\ ShownAt(begun, 4, Self) /\ ShownAt(begun, 36, flag)
  <2>1. /\ V3Signed(begun)
        /\ \A l \in 0..31 : Cell(begun, 4 + l) = Cell(Self, l)
        /\ \A l \in 0..31 : Cell(begun, 36 + l) = Cell(m, 36 + l)
    BY V3BegunCells DEF begun
  <2>2. \A l \in 0..31 : Cell(begun, 36 + l) = {}
    BY <2>1, CellOfZero
  <2>. QED  BY <2>1, <2>2, ZeroShown DEF ShownAt, flag
<1>3. Slice(head, 0, 196) = abi
  BY <1>2, V3HeadData
<1>4. IsMap(abi)
  <2>. DEFINE words == V3Words(flag, amount, limit)
              S == {Self, flag, amount, limit, Number("0xa0", 1), Number("0x35", 1)}
  <2>1. words \in Seq(S)
    BY DEF V3Words
  <2>. HIDE DEF words, S
  <2>2. IsMap(Abi("v3Swap", words))
    BY <2>1, MapOfAbi
  <2>. QED  BY <2>2 DEF words
<1>. HIDE DEF head, abi
<1>5. Slice(head ++ <<196, packed>> ++ <<217, hash>>, 0, 249) =
          abi ++ <<196, packed>> ++ <<217, hash>>
  BY <1>3, <1>4, V3Data
<1>. QED  BY <1>5 DEF V3Unstored, V3Bytes, V3Handed, head, abi, flag, begun

LEMMA V3Bounded ==
    ASSUME NEW m, Bounded(m), NEW flag, IsWord(flag), NEW amount, IsWord(amount),
           NEW limit, IsWord(limit), NEW packed, IsWord(packed), NEW hash, IsWord(hash)
    PROVE  /\ Bounded(V3Stored(m, flag, amount, limit, packed, hash))
           /\ Bounded(V3Unstored(m, amount, limit, packed, hash))
<1>. DEFINE sig == AtLeft("v3Swap", 4)
            xa0 == Number("0xa0", 1)
            x35 == Number("0x35", 1)
<1>0. {0, 4, 36, 68, 100, 132, 164, 196, 217} \subseteq 0..217
  OBVIOUS
<1>1. IsWord(sig) /\ IsWord(xa0) /\ IsWord(x35) /\ IsWord(Self)
  BY FixedWords
<1>. HIDE DEF sig, xa0, x35
<1>2. ASSUME NEW n, Bounded(n)
      PROVE  Bounded(V3Handed(V3Asked(n, amount, limit), packed, hash))
  <2>. DEFINE m1 == n ++ <<68, amount>>
              m2 == m1 ++ <<100, limit>>
              m3 == m2 ++ <<132, xa0>>
              m4 == m3 ++ <<164, x35>>
              m5 == m4 ++ <<196, packed>>
  <2>1. Bounded(m1)
    BY <1>0, <1>2, BoundedStore
  <2>. HIDE DEF m1
  <2>2. Bounded(m2)
    BY <1>0, <2>1, BoundedStore
  <2>. HIDE DEF m2
  <2>3. Bounded(m3)
    BY <1>0, <1>1, <2>2, BoundedStore
  <2>. HIDE DEF m3
  <2>4. Bounded(m4)
    BY <1>0, <1>1, <2>3, BoundedStore
  <2>. HIDE DEF m4
  <2>5. Bounded(m5)
    BY <1>0, <2>4, BoundedStore
  <2>. HIDE DEF m5
  <2>6. Bounded(m5 ++ <<217, hash>>)
    BY <1>0, <2>5, BoundedStore
  <2>. QED  BY <2>6 DEF V3Handed, V3Asked, m1, m2, m3, m4, m5, xa0, x35
<1>3. Bounded(V3Begun(m))
  <2>. DEFINE m1 == m ++ <<0, sig>>
  <2>1. Bounded(m1)
    BY <1>0, <1>1, BoundedStore
  <2>. HIDE DEF m1
  <2>2. Bounded(m1 ++ <<4, Self>>)
    BY <1>0, <1>1, <2>1, BoundedStore
  <2>. QED  BY <2>2 DEF V3Begun, m1, sig
<1>4. Bounded(V3Begun(m) ++ <<36, flag>>)
  <2>. DEFINE begun == V3Begun(m)
  <2>. HIDE DEF begun
  <2>1. Bounded(begun)
    BY <1>3 DEF begun
  <2>2. Bounded(begun ++ <<36, flag>>)
    BY <1>0, <2>1, BoundedStore
  <2>. QED  BY <2>2 DEF begun
<1>. QED  BY <1>2, <1>3, <1>4 DEF V3Stored, V3Unstored

\* The amounts.
LEMMA AmountShown ==
    ASSUME NEW b \in Nat, NEW name, NEW width \in 4..5, NEW shift \in Shifts, NEW i,
           Len(data) \in Nat,
           Holds(data, b, Shift(width, shift), i), Holds(data, b + 1, F(name, width), i)
    PROVE  Amount(b, width) = Scaled(<<name, i>>, width, shift)
<1>1. ByteAt(b) = 32 - width - shift
  <2>. DEFINE field == Shift(width, shift)
  <2>1. field.width = 1 /\ field.val = 32 - width - shift
    BY DEF Shift, L, WordSize
  <2>. HIDE DEF field
  <2>2. Holds(data, b, field, i)
    BY DEF field
  <2>. QED  BY <2>1, <2>2, ByteShown
<1>2. Load(b + 1, width) = AtLeft(<<name, i>>, width)
  <2>. DEFINE field == F(name, width)
  <2>1. field.width = width /\ field.name = name /\ Holds(data, b + 1, field, i)
    BY DEF F
  <2>2. b + 1 \in Nat /\ width \in Nat
    OBVIOUS
  <2>. HIDE DEF field
  <2>. QED  BY <2>1, <2>2, LoadShown
<1>. QED  BY <1>1, <1>2 DEF Amount, Scaled, WordSize

\* v3_input0: the byte of the hash that is taken with an amount of four bytes
\* goes out again when the amount is not shifted
LEMMA AmountBefore ==
    ASSUME NEW b \in Nat, NEW name, NEW i, Len(data) \in Nat,
           Holds(data, b, Shift(4, 0), i), Holds(data, b + 1, F(name, 4), i)
    PROVE  Amount(b, 5) = Scaled(<<name, i>>, 4, 0)
<1>1. ByteAt(b) = 28
  <2>. DEFINE field == Shift(4, 0)
  <2>1. field.width = 1 /\ field.val = 28
    BY DEF Shift, L, WordSize
  <2>. HIDE DEF field
  <2>2. Holds(data, b, field, i)
    BY DEF field
  <2>. QED  BY <2>1, <2>2, ByteShown
<1>. DEFINE loaded == Load(b + 1, 5)
            left == AtLeft(<<name, i>>, 4)
<1>2. \A k \in 0..3 : k \in DOMAIN loaded /\ loaded[k] = left[k]
  <2>. DEFINE field == F(name, 4)
  <2>1. field.width = 4 /\ field.name = name /\ Holds(data, b + 1, field, i)
    BY DEF F
  <2>. HIDE DEF field
  <2>2. ASSUME NEW k \in 0..3
        PROVE  /\ b + 1 + k < Len(data)
               /\ <<<<data[b + 1 + k + 1].name, data[b + 1 + k + 1].of>>, data[b + 1 + k + 1].nth>>
                     = <<<<name, i>>, k + 1>>
    <3>1. k + 1 \in 1..field.width /\ (b + 1) + (k + 1) = b + 1 + k + 1
      BY <2>1
    <3>2. /\ b + 1 + k + 1 \in 1..Len(data)
          /\ data[b + 1 + k + 1] =
                [name |-> field.name, of |-> i, nth |-> k + 1, val |-> field.val]
      BY <2>1, <3>1 DEF Holds
    <3>. QED  BY <2>1, <3>1, <3>2
  <2>. DEFINE D == {l \in 0..4 : b + 1 + l < Len(data)}
              f(k) == <<<<data[b + 1 + k + 1].name,
                          data[b + 1 + k + 1].of>>, data[b + 1 + k + 1].nth>>
              g(k) == <<<<name, i>>, k + 1>>
  <2>3. /\ loaded = [k \in D |-> f(k)] /\ left = [k \in 0..3 |-> g(k)]
        /\ \A k \in 0..3 : k \in D /\ f(k) = g(k)
    BY <2>2 DEF Load, AtLeft
  <2>. HIDE DEF loaded, left, D, f, g
  <2>. QED  BY <2>3
<1>3. DOMAIN left = 0..3 /\ DOMAIN loaded \subseteq 0..4
  BY DEF AtLeft, Load
<1>. HIDE DEF loaded, left
<1>4. Shr(loaded, 28) = Shr(left, 28)
  <2>. DEFINE D == {l \in 28..31 : l - 28 \in DOMAIN loaded}
              E == {l \in 28..31 : l - 28 \in DOMAIN left}
  <2>1. D = E /\ \A k \in D : loaded[k - 28] = left[k - 28]
    BY <1>2, <1>3
  <2>2. Shr(loaded, 28) = [k \in D |-> loaded[k - 28]] /\ Shr(left, 28) = [k \in E |-> left[k - 28]]
    BY DEF Shr, WordSize
  <2>. HIDE DEF D, E
  <2>. QED  BY <2>1, <2>2
<1>. QED  BY <1>1, <1>4 DEF Amount, Scaled, WordSize, loaded, left

LEMMA Weth32Shown ==
    ASSUME NEW field PROVE Weth32(Number(field, 5)) = Scaled(field, 5, 4)
<1>. DEFINE left == AtLeft(field, 5)
            word == Number(field, 5)
<1>1. DOMAIN left = 0..4
  BY DEF AtLeft
<1>. HIDE DEF left
<1>2. word = [k \in 27..31 |-> left[k - 27]]
  <2>1. {l \in 27..31 : l - 27 \in DOMAIN left} = 27..31
    BY <1>1
  <2>. QED  BY <2>1 DEF Number, Scaled, Shr, WordSize, left
<1>3. Scaled(field, 5, 4) = [k \in 23..27 |-> left[k - 23]]
  <2>1. {l \in 23..31 : l - 23 \in DOMAIN left} = 23..27
    BY <1>1
  <2>. QED  BY <2>1 DEF Scaled, Shr, WordSize, left
<1>. HIDE DEF word
<1>4. {l - 4 : l \in DOMAIN word} = 23..27
  <2>1. DOMAIN word = 27..31
    BY <1>2
  <2>. QED  BY <2>1
<1>5. \A k \in 23..27 : word[k + 4] = left[k - 23]
  BY <1>2
<1>6. Weth32(word) = [k \in 23..27 |-> left[k - 23]]
  BY <1>4, <1>5 DEF Weth32
<1>. QED  BY <1>3, <1>6 DEF word

\* the only call that ingredient i wants
Wants(i, to, bytes) == WantedCalls(i) = <<[to |-> to, data |-> bytes]>>

LEMMA OneMeant ==
    ASSUME NEW i, NEW to, NEW bytes, NEW asks, NEW call1,
           asks = <<call1>>, call1.to = to, call1.data = bytes, Bounded(call1.memory),
           Wants(i, to, bytes)
    PROVE  Meant(asks, i)
<1>. DEFINE f == [k \in DOMAIN asks |-> [to |-> asks[k].to, data |-> asks[k].data]]
            w1 == [to |-> to, data |-> bytes]
<1>1. DOMAIN asks = 1..1 /\ asks[1] = call1 /\ Len(asks) = 1
  OBVIOUS
<1>2. f \in Seq({w1}) /\ Len(f) = 1 /\ f[1] = w1
  BY <1>1
<1>3. <<w1>> \in Seq({w1}) /\ Len(<<w1>>) = 1 /\ <<w1>>[1] = w1
  OBVIOUS
<1>. HIDE DEF f, w1
<1>4. f = <<w1>>
  BY <1>2, <1>3, SeqEqual
<1>. QED  BY <1>1, <1>4 DEF Meant, Last, f, w1, Wants

LEMMA OneBounded ==
    ASSUME NEW call1, Bounded(call1.memory)
    PROVE  Bounded(Last(<<call1>>).memory)
BY DEF Last

\* of the first token for the second, and the other way round: in the memory,
\* and in the data
ForOneMemory(m, amount, token, hash) ==
    V3Stored(m, Number("true", 1), amount, Number("MIN_SQRT_PRICE_LIMIT", 20),
             Or(AtLeft("true", 1), Shr(token, 1)), hash)
ForZeroMemory(m, amount, token, hash) ==
    V3Stored(m, Zero, amount, Number("MAX_SQRT_PRICE_LIMIT", 20), Shr(token, 1), hash)
ForZeroUnstored(m, amount, token, hash) ==
    V3Unstored(m, amount, Number("MAX_SQRT_PRICE_LIMIT", 20), Shr(token, 1), hash)

ForOneBytes(amount, token, hash) ==
    V3Bytes(Number("true", 1), amount, Number("MIN_SQRT_PRICE_LIMIT", 20),
            Or(AtLeft("true", 1), Shr(token, 1)), hash)
ForZeroBytes(amount, token, hash) ==
    V3Bytes(Zero, amount, Number("MAX_SQRT_PRICE_LIMIT", 20), Shr(token, 1), hash)

LEMMA V3CallsAre ==
    /\ V3Calls("v3_input0") =
           <<Asks(Address(2),
                  ForOneMemory(memory, Minus(Amount(22, 5)), WETH,
                      Load(27, WordSize)), 0, 249)>>
    /\ V3Calls("v3_input1") =
           <<Asks(Address(2),
                  ForZeroUnstored(memory, Weth32(Callvalue), WETH,
                      Load(27, WordSize)), 0, 249)>>
    /\ V3Calls("v3_output0") =
           <<Asks(Address(2),
                  ForZeroUnstored(memory, Amount(22, 5), Load(28, 20),
                      Load(48, WordSize)), 0, 249)>>
    /\ V3Calls("v3_output1") =
           <<Asks(Address(2),
                  ForOneMemory(memory, Minus(Weth32(Callvalue)), Load(28, 20),
                      Load(48, WordSize)), 0, 249)>>
    /\ V3Calls("v3_input0_multi") =
           <<Asks(Address(p + 1),
                  ForOneMemory(memory, Minus(Amount(p + 26, 5)), WETH,
                      Load(p + 32, WordSize)), 0, 249)>>
    /\ V3Calls("v3_input1_multi") =
           <<Asks(Address(p + 1),
                  ForZeroMemory(memory, Amount(p + 21, 4), WETH,
                      Load(p + 32, WordSize)), 0, 249)>>
    /\ V3Calls("v3_output0_multi") =
           <<Asks(Address(p + 1),
                  ForZeroMemory(memory, Amount(p + 26, 5), Load(p + 32, 20),
                      Load(p + 52, WordSize)), 0, 249)>>
    /\ V3Calls("v3_output1_multi") =
           <<Asks(Address(p + 1),
                  ForOneMemory(memory, Minus(Amount(p + 21, 4)), Load(p + 32, 20),
                      Load(p + 52, WordSize)), 0, 249)>>
<1>. USE DEF V3Swap, Limit, Packed, ForOneMemory, ForZeroMemory, ForZeroUnstored, V3Stored,
             V3Unstored,
            V3Begun, V3Asked, V3Handed
<1>1. V3Calls("v3_input0") =
          <<Asks(Address(2),
                 ForOneMemory(memory, Minus(Amount(22, 5)), WETH,
                      Load(27, WordSize)), 0, 249)>>
  BY DEF V3Calls
<1>2. V3Calls("v3_input1") =
          <<Asks(Address(2),
                 ForZeroUnstored(memory, Weth32(Callvalue), WETH,
                      Load(27, WordSize)), 0, 249)>>
  BY DEF V3Calls
<1>3. V3Calls("v3_output0") =
          <<Asks(Address(2),
                 ForZeroUnstored(memory, Amount(22, 5), Load(28, 20),
                      Load(48, WordSize)), 0, 249)>>
  BY DEF V3Calls
<1>4. V3Calls("v3_output1") =
          <<Asks(Address(2),
                 ForOneMemory(memory, Minus(Weth32(Callvalue)), Load(28, 20),
                      Load(48, WordSize)), 0, 249)>>
  BY DEF V3Calls
<1>5. V3Calls("v3_input0_multi") =
          <<Asks(Address(p + 1),
                 ForOneMemory(memory, Minus(Amount(p + 26, 5)), WETH,
                      Load(p + 32, WordSize)), 0, 249)>>
  BY DEF V3Calls
<1>6. V3Calls("v3_input1_multi") =
          <<Asks(Address(p + 1),
                 ForZeroMemory(memory, Amount(p + 21, 4), WETH,
                      Load(p + 32, WordSize)), 0, 249)>>
  BY DEF V3Calls
<1>7. V3Calls("v3_output0_multi") =
          <<Asks(Address(p + 1),
                 ForZeroMemory(memory, Amount(p + 26, 5), Load(p + 32, 20),
                      Load(p + 52, WordSize)), 0, 249)>>
  BY DEF V3Calls
<1>8. V3Calls("v3_output1_multi") =
          <<Asks(Address(p + 1),
                 ForOneMemory(memory, Minus(Amount(p + 21, 4)), Load(p + 32, 20),
                      Load(p + 52, WordSize)), 0, 249)>>
  BY DEF V3Calls
<1>. HIDE DEF V3Swap, Limit, Packed, ForOneMemory, ForZeroMemory, ForZeroUnstored, V3Stored,
              V3Unstored,
             V3Begun, V3Asked, V3Handed
<1>. QED  BY <1>1, <1>2, <1>3, <1>4, <1>5, <1>6, <1>7, <1>8

LEMMA V3FixedWords ==
    ASSUME NEW token
    PROVE  /\ IsWord(Zero) /\ IsWord(Number("true", 1))
           /\ IsWord(Number("MIN_SQRT_PRICE_LIMIT", 20))
           /\ IsWord(Number("MAX_SQRT_PRICE_LIMIT", 20))
           /\ IsWord(Or(AtLeft("true", 1), Shr(token, 1))) /\ IsWord(Shr(token, 1))
<1>1. \A name : IsWord(Number(name, 20)) /\ IsWord(AtLeft(name, 1))
  BY WordOfScaled, WordOfAtLeft DEF Number
<1>2. IsWord(Shr(token, 1))
  BY WordOfShr
<1>. QED  BY <1>1, <1>2, WordOfOr, FixedWords

LEMMA V3Done ==
    ASSUME NEW m, Bounded(m), NEW amount, IsWord(amount), NEW token, NEW hash, IsWord(hash)
    PROVE  /\ Slice(ForOneMemory(m, amount, token, hash), 0, 249) = ForOneBytes(amount, token, hash)
           /\ Bounded(ForOneMemory(m, amount, token, hash))
           /\ Slice(ForZeroMemory(m, amount, token, hash), 0, 249) = ForZeroBytes(amount, token, hash)
           /\ Bounded(ForZeroMemory(m, amount, token, hash))
           /\ m = Zero => Slice(ForZeroUnstored(m, amount, token, hash), 0, 249) =
                              ForZeroBytes(amount, token, hash)
           /\ Bounded(ForZeroUnstored(m, amount, token, hash))
<1>. DEFINE true == Number("true", 1)
            min == Number("MIN_SQRT_PRICE_LIMIT", 20)
            max == Number("MAX_SQRT_PRICE_LIMIT", 20)
            one == Or(AtLeft("true", 1), Shr(token, 1))
            zero == Shr(token, 1)
<1>1. IsWord(Zero) /\ IsWord(true) /\ IsWord(min) /\ IsWord(max) /\ IsWord(one) /\ IsWord(zero)
  BY V3FixedWords
<1>2. /\ ForOneMemory(m, amount, token, hash) = V3Stored(m, true, amount, min, one, hash)
      /\ ForZeroMemory(m, amount, token, hash) = V3Stored(m, Zero, amount, max, zero, hash)
      /\ ForZeroUnstored(m, amount, token, hash) = V3Unstored(m, amount, max, zero, hash)
      /\ ForOneBytes(amount, token, hash) = V3Bytes(true, amount, min, one, hash)
      /\ ForZeroBytes(amount, token, hash) = V3Bytes(Zero, amount, max, zero, hash)
  BY DEF ForOneMemory, ForZeroMemory, ForZeroUnstored, ForOneBytes, ForZeroBytes
<1>. HIDE DEF true, min, max, one, zero
<1>3. /\ Slice(V3Stored(m, true, amount, min, one, hash), 0, 249) =
             V3Bytes(true, amount, min, one, hash)
      /\ Slice(V3Stored(m, Zero, amount, max, zero, hash), 0, 249) =
             V3Bytes(Zero, amount, max, zero, hash)
  BY <1>1, V3StoredData
<1>4. m = Zero => Slice(V3Unstored(m, amount, max, zero, hash), 0, 249) =
                      V3Bytes(Zero, amount, max, zero, hash)
  BY <1>1, V3UnstoredData
<1>5. Bounded(V3Stored(m, true, amount, min, one, hash))
  BY <1>1, V3Bounded
<1>6. Bounded(V3Stored(m, Zero, amount, max, zero, hash))
      /\ Bounded(V3Unstored(m, amount, max, zero, hash))
  BY <1>1, V3Bounded
<1>. QED  BY <1>2, <1>3, <1>4, <1>5, <1>6

\* the amount of WETH that a V3 swap wants, its own four bytes or the value
WethAmount(name, i, ing) ==
    IF Len(case.ingredients) > 1 THEN Scaled(<<name, i>>, 4, ing.wethShift)
                                 ELSE Scaled(<<name, i>>, 5, 4)

LEMMA WantedV3Input ==
    ASSUME NEW i, NEW ing \in Ingredient, case.ingredients[i] = ing, ing.variant = "v3",
           case.direction = "input", NEW pair, pair = Scaled(<<"pair", i>>, 20, 0),
           NEW width, width = (IF Len(case.ingredients) = 1 THEN V3OutWidth(case.encoder) ELSE 5),
           NEW weth, weth = WethAmount("in", i, ing),
           NEW hash, hash = AtLeft(<<"hash", i>>, 32)
    PROVE  /\ ing.weth0 => Wants(i, pair, ForOneBytes(Minus(Scaled(<<"out", i>>, width, ing.shift)), WETH, hash))
           /\ ~ing.weth0 => Wants(i, pair, ForZeroBytes(weth, WETH, hash))
<1>. DEFINE other == Scaled(<<"out", i>>, width, ing.shift)
<1>0. ing.weth0 \in BOOLEAN
  BY DEF Ingredient
<1>1. WantedCalls(i) = <<Wanted3(i)>>
  BY DEF WantedCalls
<1>2. ing.weth0 => Wanted3(i) = [to |-> pair, data |-> ForOneBytes(Minus(other), WETH, hash)]
  BY <1>0 DEF Wanted3, Limit, Packed, ForOneBytes, V3Bytes, V3Handed, V3Words, WordSize, WethAmount
<1>3. ~ing.weth0 => Wanted3(i) = [to |-> pair, data |-> ForZeroBytes(weth, WETH, hash)]
  BY <1>0 DEF Wanted3, Limit, Packed, ForZeroBytes, V3Bytes, V3Handed, V3Words, WordSize, WethAmount
<1>. QED  BY <1>1, <1>2, <1>3 DEF Wants

LEMMA WantedV3Output ==
    ASSUME NEW i, NEW ing \in Ingredient, case.ingredients[i] = ing, ing.variant = "v3",
           case.direction = "output", NEW pair, pair = Scaled(<<"pair", i>>, 20, 0),
           NEW weth, weth = WethAmount("out", i, ing),
           NEW hash, hash = AtLeft(<<"hash", i>>, 32),
           NEW token, token = AtLeft(<<"token", i>>, 20)
    PROVE  /\ ing.weth0 => Wants(i, pair, ForZeroBytes(Scaled(<<"in", i>>, 5, ing.shift), token, hash))
           /\ ~ing.weth0 => Wants(i, pair, ForOneBytes(Minus(weth), token, hash))
<1>. DEFINE other == Scaled(<<"in", i>>, 5, ing.shift)
<1>0. ing.weth0 \in BOOLEAN
  BY DEF Ingredient
<1>1. WantedCalls(i) = <<Wanted3(i)>>
  BY DEF WantedCalls
<1>2. ing.weth0 => Wanted3(i) = [to |-> pair, data |-> ForZeroBytes(other, token, hash)]
  BY <1>0 DEF Wanted3, Limit, Packed, ForZeroBytes, V3Bytes, V3Handed, V3Words, WordSize, WethAmount
<1>3. ~ing.weth0 => Wanted3(i) = [to |-> pair, data |-> ForOneBytes(Minus(weth), token, hash)]
  BY <1>0 DEF Wanted3, Limit, Packed, ForOneBytes, V3Bytes, V3Handed, V3Words, WordSize, WethAmount
<1>. QED  BY <1>1, <1>2, <1>3 DEF Wants

LEMMA WordShown ==
    ASSUME NEW b \in Nat, NEW name, NEW width \in {20, 32}, NEW i, Len(data) \in Nat,
           Holds(data, b, F(name, width), i)
    PROVE  Load(b, width) = AtLeft(<<name, i>>, width)
<1>. DEFINE field == F(name, width)
<1>1. field.width = width /\ field.name = name /\ Holds(data, b, field, i)
  BY DEF F
<1>. HIDE DEF field
<1>2. width \in Nat
  OBVIOUS
<1>. QED  BY <1>1, <1>2, LoadShown

\* a call of one of the three kinds is bounded, and meant when it is wanted
LEMMA V3Meant ==
    ASSUME NEW i, NEW pair, NEW amount, IsWord(amount), NEW token, NEW hash, IsWord(hash),
           Bounded(memory), NEW asks
    PROVE  /\ asks = <<Asks(pair, ForOneMemory(memory, amount, token, hash), 0, 249)>> =>
                 /\ Bounded(Last(asks).memory)
                 /\ (Wants(i, pair, ForOneBytes(amount, token, hash))
                        => Meant(asks, i))
           /\ asks = <<Asks(pair, ForZeroMemory(memory, amount, token, hash), 0, 249)>> =>
                 /\ Bounded(Last(asks).memory)
                 /\ (Wants(i, pair, ForZeroBytes(amount, token, hash))
                        => Meant(asks, i))
           /\ asks = <<Asks(pair, ForZeroUnstored(memory, amount, token, hash), 0, 249)>> =>
                 /\ Bounded(Last(asks).memory)
                 /\ (memory = Zero
                     /\ Wants(i, pair, ForZeroBytes(amount, token, hash))
                        => Meant(asks, i))
<1>. DEFINE one == ForOneMemory(memory, amount, token, hash)
            zero == ForZeroMemory(memory, amount, token, hash)
            unstored == ForZeroUnstored(memory, amount, token, hash)
            oneBytes == ForOneBytes(amount, token, hash)
            zeroBytes == ForZeroBytes(amount, token, hash)
<1>1. /\ Slice(one, 0, 249) = oneBytes /\ Bounded(one)
      /\ Slice(zero, 0, 249) = zeroBytes /\ Bounded(zero)
      /\ (memory = Zero => Slice(unstored, 0, 249) = zeroBytes) /\ Bounded(unstored)
  BY V3Done
<1>. HIDE DEF one, zero, unstored, oneBytes, zeroBytes
<1>2. ASSUME NEW m, Bounded(m), asks = <<Asks(pair, m, 0, 249)>>
      PROVE  /\ Bounded(Last(asks).memory)
             /\ \A bytes : (Slice(m, 0, 249) = bytes
                            /\ Wants(i, pair, bytes)) => Meant(asks, i)
  <2>. DEFINE call1 == Asks(pair, m, 0, 249)
  <2>1. call1.to = pair /\ call1.data = Slice(m, 0, 249) /\ call1.memory = m
    BY AsksFacts
  <2>. HIDE DEF call1
  <2>2. asks = <<call1>> /\ Bounded(call1.memory)
    BY <1>2, <2>1 DEF call1
  <2>3. Bounded(Last(asks).memory)
    BY <2>2, OneBounded
  <2>4. ASSUME NEW bytes, Slice(m, 0, 249) = bytes,
               Wants(i, pair, bytes)
        PROVE  Meant(asks, i)
    BY <2>1, <2>2, <2>4, OneMeant
  <2>. QED  BY <2>3, <2>4
<1>3. asks = <<Asks(pair, one, 0, 249)>> =>
          /\ Bounded(Last(asks).memory)
          /\ (Wants(i, pair, oneBytes) => Meant(asks, i))
  BY <1>1, <1>2
<1>4. asks = <<Asks(pair, zero, 0, 249)>> =>
          /\ Bounded(Last(asks).memory)
          /\ (Wants(i, pair, zeroBytes) => Meant(asks, i))
  BY <1>1, <1>2
<1>5. asks = <<Asks(pair, unstored, 0, 249)>> =>
          /\ Bounded(Last(asks).memory)
          /\ (memory = Zero /\ Wants(i, pair, zeroBytes)
                => Meant(asks, i))
  BY <1>1, <1>2
<1>. QED  BY <1>3, <1>4, <1>5 DEF one, zero, unstored, oneBytes, zeroBytes

LEMMA V3InputSingleMeant ==
    ASSUME NEW i, NEW ing \in Ingredient, case.ingredients[i] = ing, ing.variant = "v3",
           case.direction = "input", Len(case.ingredients) = 1, case.encoder = "helper",
           ValueOf(case) = i, memory = Zero, Len(data) \in Nat,
           Shows(data, 0, V3InputSpots(ing), i)
    PROVE  /\ ing.weth0 => /\ Bounded(Last(V3Calls("v3_input0")).memory)
                           /\ ing.shift = 0 => Meant(V3Calls("v3_input0"), i)
           /\ ~ing.weth0 => Meant(V3Calls("v3_input1"), i)
<1>. DEFINE pair == Scaled(<<"pair", i>>, 20, 0)
            hash == AtLeft(<<"hash", i>>, 32)
            amount == Amount(22, 5)
            minus == Minus(amount)
            weth == Scaled(<<"in", i>>, 5, 4)
            width == 4
            out == Scaled(<<"out", i>>, width, ing.shift)
            asks0 == V3Calls("v3_input0")
            asks1 == V3Calls("v3_input1")
<1>1. ing.weth0 \in BOOLEAN /\ ing.shift \in Shifts /\ Bounded(memory)
  BY ShiftsOf DEF Bounded, Zero
<1>2. /\ Holds(data, 2, F("pair", 20), i) /\ Holds(data, 22, Shift(4, ing.shift), i)
      /\ Holds(data, 23, F("out", 4), i) /\ Holds(data, 27, F("hash", 32), i)
  BY DEF Shows, V3InputSpots, Spot
<1>3. Address(2) = pair
  BY <1>2, AddressShown
<1>4. Load(27, WordSize) = hash
  BY <1>2, WordShown DEF WordSize
<1>5. ing.shift = 0 => amount = out
  BY <1>2, AmountBefore
<1>6. Weth32(Callvalue) = weth
  <2>. DEFINE name == "in"
  <2>1. name = (IF case.direction = "input" THEN "in" ELSE "out")
    OBVIOUS
  <2>. HIDE DEF name
  <2>2. Callvalue = Number(<<name, i>>, 5)
    BY <2>1, ValueShown
  <2>. QED  BY <2>2, Weth32Shown DEF name
<1>7. IsWord(minus) /\ IsWord(weth) /\ IsWord(hash)
  BY WordOfMinus, WordOfScaled, WordOfAtLeft
<1>8. /\ ing.weth0 => Wants(i, pair, ForOneBytes(Minus(out), WETH, hash))
      /\ ~ing.weth0 => Wants(i, pair, ForZeroBytes(weth, WETH, hash))
  <2>1. width = (IF Len(case.ingredients) = 1 THEN V3OutWidth(case.encoder) ELSE 5)
    BY DEF V3OutWidth
  <2>2. weth = WethAmount("in", i, ing)
    BY DEF WethAmount
  <2>. HIDE DEF width, weth
  <2>. QED  BY <2>1, <2>2, WantedV3Input
<1>. HIDE DEF pair, hash, amount, weth, out
<1>9. asks0 = <<Asks(pair, ForOneMemory(memory, minus, WETH, hash), 0, 249)>>
  BY <1>3, <1>4, V3CallsAre DEF amount
<1>10. asks1 = <<Asks(pair, ForZeroUnstored(memory, weth, WETH, hash), 0, 249)>>
  BY <1>3, <1>4, <1>6, V3CallsAre
<1>. HIDE DEF asks0, asks1, minus
<1>11. Bounded(Last(asks0).memory)
  BY <1>1, <1>7, <1>9, V3Meant
<1>12. ing.weth0 /\ ing.shift = 0 => Meant(asks0, i)
  BY <1>1, <1>5, <1>7, <1>8, <1>9, V3Meant DEF minus
<1>13. ~ing.weth0 => Meant(asks1, i)
  BY <1>1, <1>7, <1>8, <1>10, V3Meant
<1>. QED  BY <1>11, <1>12, <1>13 DEF asks0, asks1

LEMMA V3OutputSingleMeant ==
    ASSUME NEW i, NEW ing \in Ingredient, case.ingredients[i] = ing, ing.variant = "v3",
           case.direction = "output", Len(case.ingredients) = 1,
           ValueOf(case) = i, memory = Zero, Len(data) \in Nat,
           Shows(data, 0, V3OutputSpots(ing), i)
    PROVE  /\ ing.weth0 => Meant(V3Calls("v3_output0"), i)
           /\ ~ing.weth0 => Meant(V3Calls("v3_output1"), i)
<1>. DEFINE pair == Scaled(<<"pair", i>>, 20, 0)
            hash == AtLeft(<<"hash", i>>, 32)
            token == AtLeft(<<"token", i>>, 20)
            amount == Amount(22, 5)
            in == Scaled(<<"in", i>>, 5, ing.shift)
            weth == Scaled(<<"out", i>>, 5, 4)
            minus == Minus(weth)
            asks0 == V3Calls("v3_output0")
            asks1 == V3Calls("v3_output1")
<1>1. ing.weth0 \in BOOLEAN /\ ing.shift \in Shifts /\ Bounded(memory)
  BY ShiftsOf DEF Bounded, Zero
<1>2. /\ Holds(data, 2, F("pair", 20), i) /\ Holds(data, 22, Shift(5, ing.shift), i)
      /\ Holds(data, 23, F("in", 5), i) /\ Holds(data, 28, F("token", 20), i)
      /\ Holds(data, 48, F("hash", 32), i)
  BY DEF Shows, V3OutputSpots, Spot
<1>3. Address(2) = pair
  BY <1>2, AddressShown
<1>4. Load(48, WordSize) = hash /\ Load(28, 20) = token
  BY <1>2, WordShown DEF WordSize
<1>5. amount = in
  <2>. DEFINE width == 5
              b == 22
              shift == ing.shift
  <2>1. width \in 4..5 /\ b \in Nat /\ b + 1 = 23 /\ shift \in Shifts
    BY <1>1
  <2>2. Holds(data, b, Shift(width, shift), i) /\ Holds(data, b + 1, F("in", width), i)
    BY <1>2
  <2>. HIDE DEF width, b, shift
  <2>3. Amount(b, width) = Scaled(<<"in", i>>, width, shift)
    BY <2>1, <2>2, AmountShown
  <2>. QED  BY <2>3 DEF width, b, shift
<1>6. Weth32(Callvalue) = weth
  <2>. DEFINE name == "out"
  <2>1. name = (IF case.direction = "input" THEN "in" ELSE "out")
    OBVIOUS
  <2>. HIDE DEF name
  <2>2. Callvalue = Number(<<name, i>>, 5)
    BY <2>1, ValueShown
  <2>. QED  BY <2>2, Weth32Shown DEF name
<1>7. IsWord(minus) /\ IsWord(in) /\ IsWord(hash)
  <2>1. ing.shift \in Nat /\ 5 + ing.shift <= 32
    BY <1>1 DEF Shifts
  <2>. QED  BY <2>1, WordOfMinus, WordOfScaled, WordOfAtLeft
<1>8. /\ ing.weth0 => Wants(i, pair, ForZeroBytes(in, token, hash))
      /\ ~ing.weth0 => Wants(i, pair, ForOneBytes(Minus(weth), token, hash))
  <2>1. weth = WethAmount("out", i, ing)
    BY DEF WethAmount
  <2>. HIDE DEF weth
  <2>. QED  BY <2>1, WantedV3Output
<1>. HIDE DEF pair, hash, token, amount, weth, in
<1>9. asks0 = <<Asks(pair, ForZeroUnstored(memory, in, token, hash), 0, 249)>>
  BY <1>3, <1>4, <1>5, V3CallsAre DEF amount
<1>10. asks1 = <<Asks(pair, ForOneMemory(memory, minus, token, hash), 0, 249)>>
  BY <1>3, <1>4, <1>6, V3CallsAre
<1>. HIDE DEF asks0, asks1, minus
<1>11. ing.weth0 => Meant(asks0, i)
  BY <1>1, <1>7, <1>8, <1>9, V3Meant
<1>12. ~ing.weth0 => Meant(asks1, i)
  BY <1>1, <1>7, <1>8, <1>10, V3Meant DEF minus
<1>. QED  BY <1>11, <1>12 DEF asks0, asks1

\* an amount that a payload of several shows behind its shift
LEMMA MultiAmount ==
    ASSUME NEW i, NEW name, NEW width \in 4..5, NEW shift \in Shifts, p \in Nat, Len(data) \in Nat,
           NEW k \in {21, 26}, Holds(data, p + k, Shift(width, shift), i),
           Holds(data, p + (k + 1), F(name, width), i)
    PROVE  Amount(p + k, width) = Scaled(<<name, i>>, width, shift)
<1>. DEFINE b == p + k
<1>1. b \in Nat /\ b + 1 = p + (k + 1)
  OBVIOUS
<1>2. Holds(data, b, Shift(width, shift), i) /\ Holds(data, b + 1, F(name, width), i)
  BY <1>1
<1>. HIDE DEF b
<1>3. Amount(b, width) = Scaled(<<name, i>>, width, shift)
  BY <1>1, <1>2, AmountShown
<1>. QED  BY <1>3 DEF b

LEMMA MultiWords ==
    ASSUME NEW i, NEW ing \in Ingredient, NEW name
    PROVE  /\ IsWord(Scaled(<<name, i>>, 4, ing.wethShift))
           /\ IsWord(Scaled(<<name, i>>, 5, ing.shift))
           /\ IsWord(AtLeft(<<"hash", i>>, 32))
<1>1. /\ ing.shift \in Nat /\ 5 + ing.shift <= 32
      /\ ing.wethShift \in Nat /\ 4 + ing.wethShift <= 32
  BY ShiftsOf DEF Shifts
<1>. QED  BY <1>1, WordOfScaled, WordOfAtLeft

LEMMA V3InputMultiMeant ==
    ASSUME NEW i, NEW ing \in Ingredient, case.ingredients[i] = ing, ing.variant = "v3",
           case.direction = "input", Len(case.ingredients) > 1, Len(case.ingredients) # 1,
           p \in Nat, Bounded(memory), Len(data) \in Nat,
           Shows(data, p, V3InputMultiSpots(ing), i)
    PROVE  /\ ing.weth0 => Meant(V3Calls("v3_input0_multi"), i)
           /\ ~ing.weth0 => Meant(V3Calls("v3_input1_multi"), i)
<1>. DEFINE pair == Scaled(<<"pair", i>>, 20, 0)
            hash == AtLeft(<<"hash", i>>, 32)
            width == 5
            out == Scaled(<<"out", i>>, width, ing.shift)
            weth == Scaled(<<"in", i>>, 4, ing.wethShift)
            minus == Minus(out)
            asks0 == V3Calls("v3_input0_multi")
            asks1 == V3Calls("v3_input1_multi")
<1>1. ing.weth0 \in BOOLEAN /\ ing.shift \in Shifts /\ ing.wethShift \in Shifts
  BY ShiftsOf
<1>2. /\ Holds(data, p + 1, F("pair", 20), i) /\ Holds(data, p + 21, Shift(4, ing.wethShift), i)
      /\ Holds(data, p + 22, F("in", 4), i) /\ Holds(data, p + 26, Shift(5, ing.shift), i)
      /\ Holds(data, p + 27, F("out", 5), i) /\ Holds(data, p + 32, F("hash", 32), i)
  BY DEF Shows, V3InputMultiSpots, Spot
<1>3. Address(p + 1) = pair
  BY <1>2, AddressShown
<1>4. Load(p + 32, WordSize) = hash
  BY <1>2, WordShown DEF WordSize
<1>5. Amount(p + 26, 5) = out /\ Amount(p + 21, 4) = weth
  BY <1>1, <1>2, MultiAmount
<1>7. IsWord(minus) /\ IsWord(weth) /\ IsWord(hash)
  BY WordOfMinus, MultiWords
<1>8. /\ ing.weth0 => Wants(i, pair, ForOneBytes(Minus(out), WETH, hash))
      /\ ~ing.weth0 => Wants(i, pair, ForZeroBytes(weth, WETH, hash))
  <2>1. width = (IF Len(case.ingredients) = 1 THEN V3OutWidth(case.encoder) ELSE 5)
    OBVIOUS
  <2>2. weth = WethAmount("in", i, ing)
    BY DEF WethAmount
  <2>. HIDE DEF width, weth
  <2>. QED  BY <2>1, <2>2, WantedV3Input
<1>. HIDE DEF pair, hash, weth, out
<1>9. asks0 = <<Asks(pair, ForOneMemory(memory, minus, WETH, hash), 0, 249)>>
  BY <1>3, <1>4, <1>5, V3CallsAre
<1>10. asks1 = <<Asks(pair, ForZeroMemory(memory, weth, WETH, hash), 0, 249)>>
  BY <1>3, <1>4, <1>5, V3CallsAre
<1>. HIDE DEF asks0, asks1, minus
<1>11. ing.weth0 => Meant(asks0, i)
  BY <1>7, <1>8, <1>9, V3Meant DEF minus
<1>12. ~ing.weth0 => Meant(asks1, i)
  BY <1>7, <1>8, <1>10, V3Meant
<1>. QED  BY <1>11, <1>12 DEF asks0, asks1

LEMMA V3OutputMultiMeant ==
    ASSUME NEW i, NEW ing \in Ingredient, case.ingredients[i] = ing, ing.variant = "v3",
           case.direction = "output", Len(case.ingredients) > 1,
           p \in Nat, Bounded(memory), Len(data) \in Nat,
           Shows(data, p, V3OutputMultiSpots(ing), i)
    PROVE  /\ ing.weth0 => Meant(V3Calls("v3_output0_multi"), i)
           /\ ~ing.weth0 => Meant(V3Calls("v3_output1_multi"), i)
<1>. DEFINE pair == Scaled(<<"pair", i>>, 20, 0)
            hash == AtLeft(<<"hash", i>>, 32)
            token == AtLeft(<<"token", i>>, 20)
            in == Scaled(<<"in", i>>, 5, ing.shift)
            weth == Scaled(<<"out", i>>, 4, ing.wethShift)
            minus == Minus(weth)
            asks0 == V3Calls("v3_output0_multi")
            asks1 == V3Calls("v3_output1_multi")
<1>1. ing.weth0 \in BOOLEAN /\ ing.shift \in Shifts /\ ing.wethShift \in Shifts
  BY ShiftsOf
<1>2. /\ Holds(data, p + 1, F("pair", 20), i) /\ Holds(data, p + 21, Shift(4, ing.wethShift), i)
      /\ Holds(data, p + 22, F("out", 4), i) /\ Holds(data, p + 26, Shift(5, ing.shift), i)
      /\ Holds(data, p + 27, F("in", 5), i) /\ Holds(data, p + 32, F("token", 20), i)
      /\ Holds(data, p + 52, F("hash", 32), i)
  BY DEF Shows, V3OutputMultiSpots, Spot
<1>3. Address(p + 1) = pair
  BY <1>2, AddressShown
<1>4. Load(p + 52, WordSize) = hash /\ Load(p + 32, 20) = token
  BY <1>2, WordShown DEF WordSize
<1>5. Amount(p + 26, 5) = in /\ Amount(p + 21, 4) = weth
  BY <1>1, <1>2, MultiAmount
<1>7. IsWord(minus) /\ IsWord(in) /\ IsWord(hash)
  BY WordOfMinus, MultiWords
<1>8. /\ ing.weth0 => Wants(i, pair, ForZeroBytes(in, token, hash))
      /\ ~ing.weth0 => Wants(i, pair, ForOneBytes(Minus(weth), token, hash))
  <2>1. weth = WethAmount("out", i, ing)
    BY DEF WethAmount
  <2>2. /\ pair = Scaled(<<"pair", i>>, 20, 0) /\ hash = AtLeft(<<"hash", i>>, 32)
        /\ token = AtLeft(<<"token", i>>, 20)
    OBVIOUS
  <2>. HIDE DEF weth, pair, hash, token
  <2>3. ing.weth0 => Wants(i, pair, ForZeroBytes(in, token, hash))
    BY <2>1, <2>2, WantedV3Output
  <2>4. ~ing.weth0 => Wants(i, pair, ForOneBytes(Minus(weth), token, hash))
    BY <2>1, <2>2, WantedV3Output
  <2>. QED  BY <2>3, <2>4
<1>. HIDE DEF pair, hash, token, weth, in
<1>9. asks0 = <<Asks(pair, ForZeroMemory(memory, in, token, hash), 0, 249)>>
  BY <1>3, <1>4, <1>5, V3CallsAre
<1>10. asks1 = <<Asks(pair, ForOneMemory(memory, minus, token, hash), 0, 249)>>
  BY <1>3, <1>4, <1>5, V3CallsAre
<1>. HIDE DEF asks0, asks1, minus
<1>11. ing.weth0 => Meant(asks0, i)
  BY <1>7, <1>8, <1>9, V3Meant
<1>12. ~ing.weth0 => Meant(asks1, i)
  BY <1>7, <1>8, <1>10, V3Meant DEF minus
<1>. QED  BY <1>11, <1>12 DEF asks0, asks1

-----------------------------------------------------------------------------
(* Gate by gate.                                                           *)

LEMMA AloneLength ==
    ASSUME case \in Cases, IsSandwich(case), Alone(case), NEW ing, ing = case.ingredients[1],
           ing.variant = "v2"
    PROVE  /\ case.direction = "input" => Len(data) = 27
           /\ case.direction = "output" => Len(data) = 47
<1>. DEFINE bytes == Calldata(case)
            s == StartOf(case)
            part == PartBytes(case, 1)
<1>1. Layout(case, bytes, s)
  <2>1. \E start : Layout(case, bytes, start)
    BY CalldataLaid
  <2>. HIDE DEF bytes
  <2>. QED  BY <2>1 DEF StartOf, bytes
<1>2. data = bytes
  BY DEF data, CalldataOf
<1>. HIDE DEF bytes, s
<1>3. Len(bytes) = s[1 + 1] /\ s[1] = 0 /\ s[1 + 1] = s[1] + Len(part)
  BY <1>1 DEF Layout, Alone
<1>4. case.encoder \in Encoders /\ ing \in Ingredient /\ 1 \in Nat
  BY SandwichFacts DEF Alone
<1>5. part = Bytes(V2Single(case.encoder, case.direction, ing), 1)
  BY DEF PartBytes, Fields, Alone
<1>6. /\ case.direction = "input" => Len(part) = 27
      /\ case.direction = "output" => Len(part) = 47
  <2>1. Len(Bytes(V2Single(case.encoder, "input", ing), 1)) = 27
    BY <1>4, V2InputSingleLaid
  <2>2. Len(Bytes(V2Single(case.encoder, "output", ing), 1)) = 47
    BY <1>4, V2OutputSingleLaid
  <2>. QED  BY <1>5, <2>1, <2>2
<1>. HIDE DEF part
<1>. QED  BY <1>2, <1>3, <1>6

\* the same fields, counted from the base and from the beginning
LEMMA SpotsMoved ==
    ASSUME NEW i, NEW ing, p \in Nat
    PROVE  /\ Shows(data, p, V2InputSpots(0, ing), i) => Shows(data, 0, V2InputSpots(p, ing), i)
           /\ Shows(data, p, V2OutputSpots(0, ing), i) => Shows(data, 0, V2OutputSpots(p, ing), i)
<1>1. \A k \in {1, 2, 22, 42} : 0 + (p + k) = p + k /\ p + (0 + k) = p + k
  OBVIOUS
<1>. QED  BY <1>1 DEF Shows, V2InputSpots, V2OutputSpots, Spot

LEMMA SpotsAmong ==
    ASSUME NEW o, NEW spots, NEW some, NEW i, Shows(data, o, spots, i), some \subseteq spots
    PROVE  Shows(data, o, some, i)
BY DEF Shows

LEMMA SpotAmong ==
    ASSUME NEW o, NEW spots, NEW offset, NEW field, NEW i, Shows(data, o, spots, i),
           Spot(offset, field) \in spots
    PROVE  Holds(data, o + offset, field, i)
BY DEF Shows, Spot

\* an amount of five bytes at the left end, moved to the right
LEMMA NumberShown ==
    ASSUME NEW b \in Nat, NEW name, NEW i, Holds(data, b, F(name, 5), i), Len(data) \in Nat
    PROVE  Shr(Load(b, 5), 27) = Number(<<name, i>>, 5)
<1>. DEFINE field == F(name, 5)
<1>1. field.width = 5 /\ field.name = name /\ Holds(data, b, field, i)
  BY DEF F
<1>. HIDE DEF field
<1>2. Load(b, 5) = AtLeft(<<name, i>>, 5)
  BY <1>1, LoadShown
<1>. QED  BY <1>2 DEF Number, Scaled, WordSize

LEMMA V2InputSingleGate ==
    ASSUME NEW i, NEW ing \in Ingredient, case.ingredients[i] = ing, ing.variant = "v2",
           case.direction = "input", ValueOf(case) = i, memory = Zero, Len(data) = 27,
           Shows(data, 0, V2InputSpots(1, ing), i)
    PROVE  Meant(V2Calls("v2_input_single"), i)
<1>. DEFINE o == 1
            taken == WordSize
            next == FALSE
            name == "in"
            in == Number(<<"in", i>>, 5)
<1>1. o \in Nat /\ taken = 32 /\ Len(data) = o + 26 /\ next \in BOOLEAN /\ Len(data) \in Nat
  BY DEF WordSize
<1>2. Bounded(memory)
  BY DEF Bounded, Zero
<1>3. Shows(data, 0, V2InputSpots(o, ing), i)
      /\ name = (IF case.direction = "input" THEN "in" ELSE "out")
  OBVIOUS
<1>4. V2Calls("v2_input_single") = V2Input(o, Callvalue, taken, next)
  BY DEF V2Calls
<1>5. Callvalue = in
  <2>1. name = "in"
    OBVIOUS
  <2>. HIDE DEF name
  <2>2. Callvalue = Number(<<name, i>>, 5)
    BY <1>3, ValueShown
  <2>. QED  BY <2>1, <2>2
<1>. HIDE DEF o, taken, next, name
<1>6. Meant(V2Input(o, in, taken, next), i)
  BY <1>1, <1>2, <1>3, V2InputMeant
<1>. QED  BY <1>4, <1>5, <1>6

LEMMA V2InputFirstGate ==
    ASSUME NEW i, NEW ing \in Ingredient, case.ingredients[i] = ing, ing.variant = "v2",
           case.direction = "input", ValueOf(case) = i, memory = Zero, Len(data) \in Nat,
           Shows(data, 0, V2InputSpots(1, ing), i)
    PROVE  Meant(V2Calls("v2_input_multi_first"), i)
<1>. DEFINE o == 1
            taken == 4
            next == FALSE
            name == "in"
            in == Number(<<"in", i>>, 5)
<1>1. o \in Nat /\ taken \in {4} /\ next \in BOOLEAN
  OBVIOUS
<1>2. Bounded(memory)
  BY DEF Bounded, Zero
<1>3. Shows(data, 0, V2InputSpots(o, ing), i)
      /\ name = (IF case.direction = "input" THEN "in" ELSE "out")
  OBVIOUS
<1>4. V2Calls("v2_input_multi_first") = V2Input(o, Callvalue, taken, next)
  BY DEF V2Calls
<1>5. Callvalue = in
  <2>1. name = "in"
    OBVIOUS
  <2>. HIDE DEF name
  <2>2. Callvalue = Number(<<name, i>>, 5)
    BY <1>3, ValueShown
  <2>. QED  BY <2>1, <2>2
<1>. HIDE DEF o, taken, next, name
<1>6. Meant(V2Input(o, in, taken, next), i)
  BY <1>1, <1>2, <1>3, V2InputMeant
<1>. QED  BY <1>4, <1>5, <1>6

LEMMA V2InputNextGate ==
    ASSUME NEW i, NEW ing \in Ingredient, case.ingredients[i] = ing, ing.variant = "v2",
           case.direction = "input", Bounded(memory), p \in Nat, Len(data) \in Nat,
           Shows(data, p, V2InputNextSpots(ing), i)
    PROVE  Meant(V2Calls("v2_input_multi_next"), i)
<1>. DEFINE o == p
            taken == 4
            next == TRUE
            in == Number(<<"in", i>>, 5)
<1>1. o \in Nat /\ taken \in {4} /\ next \in BOOLEAN /\ next
  OBVIOUS
<1>2. Holds(data, p + 26, F("in", 5), i) /\ Shows(data, p, V2InputSpots(0, ing), i)
  <2>1. V2InputSpots(0, ing) \subseteq V2InputNextSpots(ing)
        /\ Spot(26, F("in", 5)) \in V2InputNextSpots(ing)
    BY DEF V2InputNextSpots
  <2>. QED  BY <2>1, SpotsAmong, SpotAmong
<1>3. Shows(data, 0, V2InputSpots(o, ing), i)
  BY <1>2, SpotsMoved
<1>4. V2Calls("v2_input_multi_next") = V2Input(o, Shr(Load(p + 26, 5), 27), taken, next)
  BY DEF V2Calls
<1>5. Shr(Load(p + 26, 5), 27) = in
  BY <1>2, NumberShown
<1>. HIDE DEF o, taken, next
<1>6. Meant(V2Input(o, in, taken, next), i)
  BY <1>1, <1>3, V2InputMeant
<1>. QED  BY <1>4, <1>5, <1>6

\* The number behind offOut says where an amount of WETH goes.
LEMMA OffsetShown ==
    ASSUME NEW b \in Nat, NEW ing, NEW i, Holds(data, b, OffWethOut(ing), i)
    PROVE  ByteAt(b) = OutOffset(ing.weth0, ing.wethShift)
<1>. DEFINE field == OffWethOut(ing)
<1>1. field.width = 1 /\ field.val = OutOffset(ing.weth0, ing.wethShift)
  BY DEF OffWethOut, L, OutOffset
<1>. HIDE DEF field
<1>2. Holds(data, b, field, i)
  BY DEF field
<1>. QED  BY <1>1, <1>2, ByteShown

LEMMA V2OutputFirstGate ==
    ASSUME NEW i, NEW ing \in Ingredient, case.ingredients[i] = ing, ing.variant = "v2",
           case.direction = "output", Len(case.ingredients) > 1, ValueOf(case) = i,
           memory = Zero, Len(data) \in Nat,
           Shows(data, 0, V2OutputFirstSpots(ing), i)
    PROVE  Meant(V2Calls("v2_output_multi_first"), i)
<1>. DEFINE o == 1
            next == FALSE
            name == "out"
            out == Number(<<"out", i>>, 5)
            offOut == OutOffset(ing.weth0, ing.wethShift)
<1>1. o \in Nat /\ next \in BOOLEAN
  OBVIOUS
<1>2. Bounded(memory)
  BY DEF Bounded, Zero
<1>3. /\ Holds(data, 47, OffWethOut(ing), i) /\ Shows(data, 0, V2OutputSpots(o, ing), i)
      /\ name = (IF case.direction = "input" THEN "in" ELSE "out")
  <2>1. V2OutputSpots(1, ing) \subseteq V2OutputFirstSpots(ing)
        /\ Spot(47, OffWethOut(ing)) \in V2OutputFirstSpots(ing) /\ 0 + 47 = 47
    BY DEF V2OutputFirstSpots
  <2>2. Holds(data, 0 + 47, OffWethOut(ing), i)
    BY <2>1, SpotAmong
  <2>3. Shows(data, 0, V2OutputSpots(1, ing), i)
    BY <2>1, SpotsAmong
  <2>. QED  BY <2>1, <2>2, <2>3
<1>4. V2Calls("v2_output_multi_first") =
          V2OutputMulti(V2Transfer(o, 4, next), o, Callvalue, ByteAt(47), next)
  BY DEF V2Calls
<1>5. Callvalue = out
  <2>1. name = "out"
    OBVIOUS
  <2>. HIDE DEF name
  <2>2. Callvalue = Number(<<name, i>>, 5)
    BY <1>3, ValueShown
  <2>. QED  BY <2>1, <2>2
<1>6. ByteAt(47) = offOut
  BY <1>3, OffsetShown
<1>. HIDE DEF o, next, name
<1>7. Meant(V2OutputMulti(V2Transfer(o, 4, next), o, out, offOut, next), i)
  BY <1>1, <1>2, <1>3, V2OutputMeant
<1>. QED  BY <1>4, <1>5, <1>6, <1>7

LEMMA V2OutputNextGate ==
    ASSUME NEW i, NEW ing \in Ingredient, case.ingredients[i] = ing, ing.variant = "v2",
           case.direction = "output", Len(case.ingredients) > 1,
           Bounded(memory), p \in Nat, Len(data) \in Nat,
           Shows(data, p, V2OutputNextSpots(ing), i)
    PROVE  Meant(V2Calls("v2_output_multi_next"), i)
<1>. DEFINE o == p
            next == TRUE
            out == Number(<<"out", i>>, 5)
            offOut == OutOffset(ing.weth0, ing.wethShift)
<1>1. o \in Nat /\ next \in BOOLEAN /\ next
  OBVIOUS
<1>2. /\ Holds(data, p + 46, F("out", 5), i) /\ Holds(data, p + 51, OffWethOut(ing), i)
      /\ Shows(data, p, V2OutputSpots(0, ing), i)
  <2>1. /\ V2OutputSpots(0, ing) \subseteq V2OutputNextSpots(ing)
        /\ Spot(46, F("out", 5)) \in V2OutputNextSpots(ing)
        /\ Spot(51, OffWethOut(ing)) \in V2OutputNextSpots(ing)
    BY DEF V2OutputNextSpots
  <2>. QED  BY <2>1, SpotsAmong, SpotAmong
<1>3. Shows(data, 0, V2OutputSpots(o, ing), i)
  BY <1>2, SpotsMoved
<1>4. V2Calls("v2_output_multi_next") =
          V2OutputMulti(V2Transfer(o, 4, next), o, Shr(Load(p + 46, 5), 27), ByteAt(p + 51), next)
  BY DEF V2Calls
<1>5. Shr(Load(p + 46, 5), 27) = out
  BY <1>2, NumberShown
<1>6. ByteAt(p + 51) = offOut
  BY <1>2, OffsetShown
<1>. HIDE DEF o, next
<1>7. Meant(V2OutputMulti(V2Transfer(o, 4, next), o, out, offOut, next), i)
  BY <1>1, <1>3, V2OutputMeant
<1>. QED  BY <1>4, <1>5, <1>6, <1>7

LEMMA CallsOfGates ==
    /\ \A g \in V2SingleGates \union V2MultiGates : Calls(g) = V2Calls(g)
    /\ \A g \in V3SingleGates \union V3MultiGates : Calls(g) = V3Calls(g)
<1>1. \A g \in V3SingleGates \union V3MultiGates : g \notin V2SingleGates \union V2MultiGates
  BY DEF V2SingleGates, V2MultiGates, V3SingleGates, V3MultiGates
<1>. QED  BY <1>1 DEF Calls

LEMMA MeantIsBounded == \A asks, i : Meant(asks, i) => Bounded(Last(asks).memory)
BY DEF Meant

\* A swap asks for what its ingredient wants, but for the two single swaps that
\* leave bytes, and stays within its memory.
LEMMA CallsMeant ==
    ASSUME case \in Cases, IsSandwich(case), NEW i \in 1..Len(case.ingredients), AtGate(i),
           ~Wide(case), Bounded(memory), i = 1 => memory = Zero
    PROVE  /\ Bounded(Last(Calls(at)).memory)
           /\ ~LeavesBytes => Meant(Calls(at), i)
<1>. DEFINE ing == case.ingredients[i]
            n == Len(case.ingredients)
<1>1. /\ ing \in Ingredient /\ ing.variant \in {"v2", "v3"} /\ ing.weth0 \in BOOLEAN
      /\ n \in Nat \ {0} /\ case.direction \in {"input", "output"}
      /\ case.encoder \in Encoders /\ ing.shift \in Nat
  BY SandwichFacts DEF Ingredient
<1>2. Shows(data, p, Spots(case, i), i) /\ p \in Nat /\ Len(data) \in Nat
      /\ (i = 1 /\ ~Prepares(case) => p = 0)
  BY ShownToSwap
<1>3. /\ at = GateOf(case, i) /\ (Handler(at).value => ValueOf(case) = i)
      /\ (Alone(case) => n = 1 /\ i = 1 /\ ~Prepares(case) /\ p = 0 /\ memory = Zero
                         /\ ValueOf(case) = i)
      /\ (~Alone(case) => n > 1 /\ n # 1)
  <2>1. at = GateOf(case, i) /\ (Handler(at).value => ValueOf(case) = i)
    BY GateFacts DEF AtGate
  <2>2. Alone(case) => n = 1 /\ i = 1 /\ ~Prepares(case)
    BY <1>1 DEF Alone, Prepares
  <2>3. Alone(case) => ValueOf(case) = 1
    BY DEF Alone, ValueOf
  <2>4. ~Alone(case) => n > 1 /\ n # 1
    <3>1. ~Alone(case) => n # 1
      BY DEF Alone
    <3>2. n \in Nat \ {0}
      BY <1>1
    <3>. HIDE DEF n
    <3>. QED  BY <3>1, <3>2
  <2>. HIDE DEF n
  <2>. QED  BY <1>2, <2>1, <2>2, <2>3, <2>4
<1>4. i = 1 /\ ing.variant = "v2" => p = 0 /\ memory = Zero /\ ValueOf(case) = i
  <2>1. case.ingredients # <<>>
    BY <1>1
  <2>. QED  BY <1>2, <2>1 DEF Prepares, ValueOf
<1>5. CASE Alone(case) /\ ing.variant = "v2" /\ case.direction = "input"
  <2>1. at = "v2_input_single" /\ Spots(case, i) = V2InputSpots(1, ing)
    BY <1>3, <1>5 DEF GateOf, Spots
  <2>2. Len(data) = 27
    BY <1>3, <1>5, AloneLength
  <2>. HIDE DEF ing
  <2>3. Meant(V2Calls("v2_input_single"), i)
    BY <1>1, <1>2, <1>3, <1>5, <2>1, <2>2, V2InputSingleGate DEF ing
  <2>4. Calls(at) = V2Calls("v2_input_single")
    BY <2>1, CallsOfGates DEF V2SingleGates
  <2>. QED  BY <2>3, <2>4, MeantIsBounded
<1>6. CASE Alone(case) /\ ing.variant = "v2" /\ case.direction = "output"
  <2>1. at = Side(ing.weth0, "v2_output0_single", "v2_output1_single")
        /\ Spots(case, i) = V2OutputSpots(1, ing)
    BY <1>3, <1>6 DEF GateOf, Spots
  <2>2. Len(data) = 47
    BY <1>3, <1>6, AloneLength
  <2>3. ~LeavesBytes /\ ~ing.weth0 => ing.shift >= 4
    BY <1>1, <1>3, <1>6 DEF LeavesBytes
  <2>4. /\ ing.weth0 => Meant(V2Calls("v2_output0_single"), i)
        /\ ~ing.weth0 => /\ Bounded(Last(V2Calls("v2_output1_single")).memory)
                         /\ ing.shift >= 4 => Meant(V2Calls("v2_output1_single"), i)
    <3>. HIDE DEF ing
    <3>. QED  BY <1>1, <1>2, <1>3, <1>6, <2>1, <2>2, V2OutputSingleMeant DEF ing
  <2>5. Calls(at) = V2Calls(at)
    BY <1>1, <2>1, CallsOfGates DEF Side, V2SingleGates
  <2>. QED  BY <1>1, <2>1, <2>3, <2>4, <2>5, MeantIsBounded DEF Side
<1>7. CASE Alone(case) /\ ing.variant = "v3" /\ case.direction = "input"
  <2>0. case.encoder = "helper"
    BY <1>1, <1>3, <1>7 DEF Wide, Encoders
  <2>1. at = Side(ing.weth0, "v3_input0", "v3_input1") /\ Spots(case, i) = V3InputSpots(ing)
    BY <1>3, <1>7 DEF GateOf, Spots, V3Gate
  <2>3. ~LeavesBytes /\ ing.weth0 => ing.shift = 0
    BY <1>1, <1>3, <1>7 DEF LeavesBytes
  <2>4. /\ ing.weth0 => /\ Bounded(Last(V3Calls("v3_input0")).memory)
                        /\ ing.shift = 0 => Meant(V3Calls("v3_input0"), i)
        /\ ~ing.weth0 => Meant(V3Calls("v3_input1"), i)
    <3>. HIDE DEF ing
    <3>. QED  BY <1>1, <1>2, <1>3, <1>7, <2>0, <2>1, V3InputSingleMeant DEF ing
  <2>5. Calls(at) = V3Calls(at)
    BY <1>1, <2>1, CallsOfGates DEF Side, V3SingleGates
  <2>. QED  BY <1>1, <2>1, <2>3, <2>4, <2>5, MeantIsBounded DEF Side
<1>8. CASE Alone(case) /\ ing.variant = "v3" /\ case.direction = "output"
  <2>1. at = Side(ing.weth0, "v3_output0", "v3_output1") /\ Spots(case, i) = V3OutputSpots(ing)
    BY <1>3, <1>8 DEF GateOf, Spots, V3Gate
  <2>4. /\ ing.weth0 => Meant(V3Calls("v3_output0"), i)
        /\ ~ing.weth0 => Meant(V3Calls("v3_output1"), i)
    <3>. HIDE DEF ing
    <3>. QED  BY <1>1, <1>2, <1>3, <1>8, <2>1, V3OutputSingleMeant DEF ing
  <2>5. Calls(at) = V3Calls(at)
    BY <1>1, <2>1, CallsOfGates DEF Side, V3SingleGates
  <2>. QED  BY <1>1, <2>1, <2>4, <2>5, MeantIsBounded DEF Side
<1>9. CASE ~Alone(case) /\ ing.variant = "v2" /\ case.direction = "input" /\ i = 1
  <2>1. at = "v2_input_multi_first" /\ Spots(case, i) = V2InputSpots(1, ing)
    BY <1>3, <1>9 DEF GateOf, Spots, V2MultiGate
  <2>. HIDE DEF ing
  <2>3. Meant(V2Calls("v2_input_multi_first"), i)
    BY <1>1, <1>2, <1>4, <1>9, <2>1, V2InputFirstGate DEF ing
  <2>4. Calls(at) = V2Calls("v2_input_multi_first")
    BY <2>1, CallsOfGates DEF V2MultiGates
  <2>. QED  BY <2>3, <2>4, MeantIsBounded
<1>10. CASE ~Alone(case) /\ ing.variant = "v2" /\ case.direction = "input" /\ i # 1
  <2>1. at = "v2_input_multi_next" /\ Spots(case, i) = V2InputNextSpots(ing)
    BY <1>3, <1>10 DEF GateOf, Spots, V2MultiGate
  <2>. HIDE DEF ing
  <2>3. Meant(V2Calls("v2_input_multi_next"), i)
    BY <1>1, <1>2, <1>10, <2>1, V2InputNextGate DEF ing
  <2>4. Calls(at) = V2Calls("v2_input_multi_next")
    BY <2>1, CallsOfGates DEF V2MultiGates
  <2>. QED  BY <2>3, <2>4, MeantIsBounded
<1>11. CASE ~Alone(case) /\ ing.variant = "v2" /\ case.direction = "output" /\ i = 1
  <2>1. at = "v2_output_multi_first" /\ Spots(case, i) = V2OutputFirstSpots(ing)
    BY <1>3, <1>11 DEF GateOf, Spots, V2MultiGate
  <2>. HIDE DEF ing
  <2>3. Meant(V2Calls("v2_output_multi_first"), i)
    BY <1>1, <1>2, <1>3, <1>4, <1>11, <2>1, V2OutputFirstGate DEF ing
  <2>4. Calls(at) = V2Calls("v2_output_multi_first")
    BY <2>1, CallsOfGates DEF V2MultiGates
  <2>. QED  BY <2>3, <2>4, MeantIsBounded
<1>12. CASE ~Alone(case) /\ ing.variant = "v2" /\ case.direction = "output" /\ i # 1
  <2>1. at = "v2_output_multi_next" /\ Spots(case, i) = V2OutputNextSpots(ing)
    BY <1>3, <1>12 DEF GateOf, Spots, V2MultiGate
  <2>. HIDE DEF ing
  <2>3. Meant(V2Calls("v2_output_multi_next"), i)
    BY <1>1, <1>2, <1>3, <1>12, <2>1, V2OutputNextGate DEF ing
  <2>4. Calls(at) = V2Calls("v2_output_multi_next")
    BY <2>1, CallsOfGates DEF V2MultiGates
  <2>. QED  BY <2>3, <2>4, MeantIsBounded
<1>13. CASE ~Alone(case) /\ ing.variant = "v3" /\ case.direction = "input"
  <2>1. at = Side(ing.weth0, "v3_input0_multi", "v3_input1_multi")
        /\ Spots(case, i) = V3InputMultiSpots(ing)
    BY <1>3, <1>13 DEF GateOf, Spots, V3MultiGate
  <2>4. /\ ing.weth0 => Meant(V3Calls("v3_input0_multi"), i)
        /\ ~ing.weth0 => Meant(V3Calls("v3_input1_multi"), i)
    <3>. HIDE DEF ing
    <3>. QED  BY <1>1, <1>2, <1>3, <1>13, <2>1, V3InputMultiMeant DEF ing
  <2>5. Calls(at) = V3Calls(at)
    BY <1>1, <2>1, CallsOfGates DEF Side, V3MultiGates
  <2>. QED  BY <1>1, <2>1, <2>4, <2>5, MeantIsBounded DEF Side
<1>14. CASE ~Alone(case) /\ ing.variant = "v3" /\ case.direction = "output"
  <2>1. at = Side(ing.weth0, "v3_output0_multi", "v3_output1_multi")
        /\ Spots(case, i) = V3OutputMultiSpots(ing)
    BY <1>3, <1>14 DEF GateOf, Spots, V3MultiGate
  <2>4. /\ ing.weth0 => Meant(V3Calls("v3_output0_multi"), i)
        /\ ~ing.weth0 => Meant(V3Calls("v3_output1_multi"), i)
    <3>. HIDE DEF ing
    <3>. QED  BY <1>1, <1>2, <1>3, <1>14, <2>1, V3OutputMultiMeant DEF ing
  <2>5. Calls(at) = V3Calls(at)
    BY <1>1, <2>1, CallsOfGates DEF Side, V3MultiGates
  <2>. QED  BY <1>1, <2>1, <2>4, <2>5, MeantIsBounded DEF Side
<1>. QED  BY <1>1, <1>5, <1>6, <1>7, <1>8, <1>9, <1>10, <1>11, <1>12, <1>13, <1>14

-----------------------------------------------------------------------------
(* The invariant.                                                          *)

\* before the first swap of a call, and after it is undone, the memory is empty
Fresh == made = <<>> => memory = Zero /\ asked = <<>>

\* What is inductive: OthersAskWhatIsMeant needs the handler to be the one for
\* the next ingredient, with nothing in memory at the first.
Inv == Track /\ Fresh /\ TypeOK /\ OthersAskWhatIsMeant

\* No ingredient is read of the payload that the bot writes one byte longer.
LEMMA WideUnread ==
    ASSUME case \in Cases, IsSandwich(case), Wide(case), NEW i \in 1..Len(case.ingredients), AtGate(i)
    PROVE  ~Read(Handler(at), i)
<1>1. case.ingredients[i].variant = "v3" /\ Spots(case, i) = V3InputWideSpots
  BY SandwichFacts DEF Wide, Alone, Spots
<1>2. Shows(data, p, V3InputWideSpots, i) /\ p = 0 /\ p \in Nat
  BY <1>1, ShownToSwap, SandwichFacts DEF Wide, Alone, Prepares
<1>3. data[p + 27 + 1].name = "out"
  <2>1. Holds(data, p + 23, F("out", 5), i)
    BY <1>2 DEF Shows, V3InputWideSpots, Spot
  <2>. DEFINE field == F("out", 5)
  <2>2. 5 \in 1..field.width /\ field.name = "out" /\ (p + 23) + 5 = p + 27 + 1
    BY <1>2 DEF F
  <2>. HIDE DEF field
  <2>3. data[(p + 23) + 5] = [name |-> field.name, of |-> i, nth |-> 5, val |-> field.val]
    BY <2>1, <2>2 DEF Holds, field
  <2>. QED  BY <2>2, <2>3
<1>4. at = V3Gate("input", case.ingredients[i].weth0) /\ case.ingredients[i].weth0 \in BOOLEAN
  BY <1>1, SandwichFacts DEF AtGate, GateOf, Wide
<1>5. R("hash", 27) \in Handler(at).fields
  <2>1. Handler(at) = V3SingleHandler("v3_input0")
    BY <1>4, HandlersWritten
  <2>. QED  BY <2>1 DEF V3SingleHandler, Reads
<1>. QED  BY <1>3, <1>5 DEF Read, R

LEMMA LabelAmong == \A b : LabelAt(b) \in ToSet(Gates) \union {"exit", "invalid"}
<1>1. \A b : GateAt(b) \in ToSet(Gates) \union {"exit", "invalid"}
  BY DEF GateAt, ToSet
<1>. QED  BY <1>1 DEF LabelAt

\* A successful swap is that of the ingredient whose turn it is.
LEMMA SucceedSwaps ==
    ASSUME Track, Succeed
    PROVE  /\ case \in Cases /\ IsSandwich(case) /\ ~Wide(case)
           /\ case' = case /\ distance' = distance /\ searcher' = searcher /\ status' = "run"
           /\ \E i \in 1..Len(case.ingredients) :
                 /\ AtGate(i) /\ made' = SoFar(i) /\ Perform(at, Calls(at))
                 /\ \/ at' = "exit" /\ p' = p
                    \/ \E next \in Nat : at' = LabelAt(p + next) /\ p' = p + next
<1>1. /\ case \in Cases /\ OnTrack /\ at \in SwapGates /\ status = "run"
      /\ case' = case /\ distance' = distance /\ searcher' = searcher /\ status' = "run"
  BY DEF Track, Succeed, call
<1>2. IsSandwich(case) /\ \E i \in 1..Len(case.ingredients) : AtGate(i)
  BY <1>1, NoSwapGates DEF OnTrack
<1>3. PICK i \in 1..Len(case.ingredients) : AtGate(i)
  BY <1>2
<1>4. PICK j \in DOMAIN case.ingredients : Swap(j)
  BY DEF Succeed
<1>5. Read(Handler(at), j)
  BY <1>4 DEF Swap
<1>6. j = i
  BY <1>1, <1>2, <1>3, <1>5, OneSwap
<1>7. ~Wide(case)
  BY <1>1, <1>2, <1>3, <1>5, <1>6, WideUnread
<1>. DEFINE next == Handler(at).next
<1>8. next \in Nat \/ next = Stops
  BY <1>2, <1>3, GateFacts DEF AtGate
<1>9. /\ made' = Append(made, i) /\ Perform(at, Calls(at))
      /\ IF next = Stops THEN at' = "exit" /\ p' = p
         ELSE at' = LabelAt(p + next) /\ p' = p + next
  BY <1>4, <1>6 DEF Swap
<1>10. made' = SoFar(i)
  <2>1. i \in Nat \ {0}
    OBVIOUS
  <2>. QED  BY <1>3, <1>9, <2>1, Appended DEF AtGate
<1>. QED  BY <1>1, <1>2, <1>3, <1>7, <1>8, <1>9, <1>10

LEMMA SoFarFacts ==
    ASSUME NEW n \in Nat, NEW i \in 1..n
    PROVE  SoFar(i) \in Seq(1..n) /\ Len(SoFar(i)) = i /\ Last(SoFar(i)) = i /\ SoFar(i) # <<>>
<1>1. SoFar(i) \in Seq(1..n) /\ Len(SoFar(i)) = i
  BY DEF SoFar
<1>2. SoFar(i)[i] = i
  BY DEF SoFar
<1>. QED  BY <1>1, <1>2 DEF Last

\* What an ingredient wants is a matter of the payload.
LEMMA WantedStays ==
    ASSUME case' = case
    PROVE  /\ \A i : WantedCalls(i)' = WantedCalls(i)
           /\ LeavesBytes' <=> LeavesBytes
<1>1. \A i : WantedCalls(i)' = WantedCalls(i)
  BY DEF WantedCalls, Wanted2, Wanted3
<1>2. LeavesBytes' <=> LeavesBytes
  BY DEF LeavesBytes
<1>. QED  BY <1>1, <1>2

LEMMA PayloadFacts ==
    ASSUME Track
    PROVE  IsPayload(case) /\ Len(case.ingredients) \in Nat
           /\ DOMAIN case.ingredients = 1..Len(case.ingredients)
BY PayloadAssumption DEF Track, IsPayload

\* nothing is made: nothing is in memory, nothing asked
LEMMA NothingMade ==
    ASSUME Track, made = <<>>, memory = Zero, asked = <<>>
    PROVE  /\ Fresh /\ OthersAskWhatIsMeant
           /\ (made = <<0>> \/ (made \in Seq(DOMAIN case.ingredients)
                                /\ Len(made) <= Len(case.ingredients)))
           /\ Bounded(memory) /\ (\A k \in DOMAIN asked : DOMAIN asked[k] = {"to", "data"})
<1>1. DOMAIN memory = {} /\ DOMAIN asked = {}
  BY DEF Zero
<1>. QED  BY <1>1, PayloadFacts DEF Fresh, OthersAskWhatIsMeant, AsksWhatIsMeant, Bounded

\* Inv holds at first.
LEMMA InvInit == Init => Inv
<1>. SUFFICES ASSUME Init PROVE Inv
  OBVIOUS
<1>1. Track /\ made = <<>> /\ memory = Zero /\ asked = <<>>
  BY TrackInit DEF Init
<1>. QED  BY <1>1, NothingMade, PayloadFacts DEF Inv, TypeOK, Bounded, Init

\* a step that leaves the swaps and the calls as they are, but for recover_weth
CallStays ==
    /\ case' = case /\ memory' = memory /\ asked' = asked
    /\ made' = made \/ (made = <<>> /\ made' = <<0>>)
    /\ p' \in Nat /\ at' \in ToSet(Gates) \union {"MAIN", "exit", "invalid"}

LEMMA StillMeant ==
    ASSUME Inv, Track', CallStays
    PROVE  Inv'
<1>. USE DEF CallStays
<1>1. Fresh' /\ (made' = <<>> => made = <<>>)
  BY DEF Inv, Fresh
<1>2. OthersAskWhatIsMeant'
  <2>. SUFFICES ASSUME ~LeavesBytes', asked' # <<>> PROVE (asked = WantedCalls(Last(made)))'
    BY DEF OthersAskWhatIsMeant, AsksWhatIsMeant
  <2>1. ~LeavesBytes
    BY WantedStays
  <2>2. made' = made
    BY DEF Inv, Fresh
  <2>3. asked = WantedCalls(Last(made))
    BY <2>1 DEF Inv, OthersAskWhatIsMeant, AsksWhatIsMeant
  <2>. QED  BY <2>2, <2>3 DEF WantedCalls, Wanted2, Wanted3
<1>3. TypeOK'
  <2>1. TypeOK /\ IsPayload(case)
    BY PayloadFacts DEF Inv
  <2>2. case \in Cases /\ (distance \in Distances)' /\ (searcher \in BOOLEAN)'
        /\ (status \in {"start", "run", "stopped", "reverted", "lost"})'
    BY DEF Track, Inv
  <2>. QED  BY <2>1, <2>2 DEF TypeOK
<1>. QED  BY <1>1, <1>2, <1>3 DEF Inv

\* The answer of a pool stays in the memory, whatever it is.
LEMMA BoundedAnswer ==
    ASSUME NEW gate, NEW m, Bounded(m), NEW after \in Answered(gate, m)
    PROVE  Bounded(after)
<1>1. CASE after = m
  BY <1>1
<1>2. CASE \E amount0, amount1 \in Returned : after = m ++ <<0, amount0>> ++ <<32, amount1>>
  <2>1. PICK amount0 \in Returned, amount1 \in Returned :
            after = m ++ <<0, amount0>> ++ <<32, amount1>>
    BY <1>2
  <2>2. IsWord(amount0) /\ IsWord(amount1)
    BY PayloadAssumption DEF IsWord, WordSize
  <2>. DEFINE first == m ++ <<0, amount0>>
  <2>0. {0, 32} \subseteq 0..217
    OBVIOUS
  <2>3. Bounded(first)
    BY <2>0, <2>2, BoundedStore
  <2>4. after = first ++ <<32, amount1>> /\ Bounded(first)
    BY <2>1, <2>3
  <2>. HIDE DEF first
  <2>5. Bounded(first ++ <<32, amount1>>)
    BY <2>0, <2>2, <2>4, BoundedStore
  <2>. QED  BY <2>4, <2>5
<1>. QED  BY <1>1, <1>2 DEF Answered

\* A swap that succeeds asked what is meant, whatever the ones before it left.
LEMMA SucceedKeeps == Inv /\ Succeed => Inv'
<1>. SUFFICES ASSUME Inv, Succeed PROVE Inv'
  OBVIOUS
<1>1. Track /\ Track' /\ Bounded(memory) /\ p \in Nat /\ Fresh
  BY SucceedTracks DEF Inv, TypeOK, Bounded
<1>2. /\ case \in Cases /\ IsSandwich(case) /\ ~Wide(case)
      /\ case' = case /\ distance' = distance /\ searcher' = searcher /\ status' = "run"
  BY <1>1, SucceedSwaps
<1>3. PICK i \in 1..Len(case.ingredients) :
          /\ AtGate(i) /\ made' = SoFar(i) /\ Perform(at, Calls(at))
          /\ \/ at' = "exit" /\ p' = p
             \/ \E next \in Nat : at' = LabelAt(p + next) /\ p' = p + next
  BY <1>1, SucceedSwaps
<1>4. Len(case.ingredients) \in Nat /\ DOMAIN case.ingredients = 1..Len(case.ingredients)
      /\ IsPayload(case)
  BY <1>1, PayloadFacts
<1>5. /\ made' \in Seq(DOMAIN case.ingredients) /\ Len(made') <= Len(case.ingredients)
      /\ Last(made') = i /\ made' # <<>>
  BY <1>3, <1>4, SoFarFacts
<1>6. i = 1 => memory = Zero
  BY <1>1, <1>3, Appended DEF AtGate, Fresh
<1>. DEFINE asks == Calls(at)
<1>7. Bounded(Last(asks).memory) /\ (~LeavesBytes => Meant(asks, i))
  BY <1>1, <1>2, <1>3, <1>6, CallsMeant
<1>8. /\ memory' \in Answered(at, Last(asks).memory)
      /\ asked' = [k \in DOMAIN asks |-> [to |-> asks[k].to, data |-> asks[k].data]]
  BY <1>3 DEF Perform
<1>. HIDE DEF asks
<1>9. ~LeavesBytes => asked' = WantedCalls(i)
  BY <1>7, <1>8 DEF Meant
<1>10. OthersAskWhatIsMeant'
  <2>. SUFFICES ASSUME ~LeavesBytes', asked' # <<>> PROVE (asked = WantedCalls(Last(made)))'
    BY DEF OthersAskWhatIsMeant, AsksWhatIsMeant
  <2>1. ~LeavesBytes
    BY <1>2, WantedStays
  <2>. QED  BY <1>2, <1>5, <1>9, <2>1 DEF WantedCalls, Wanted2, Wanted3
<1>11. TypeOK'
  <2>1. p' \in Nat /\ at' \in ToSet(Gates) \union {"exit", "invalid"}
    BY <1>1, <1>3, LabelAmong
  <2>2. (\A k \in DOMAIN asked : DOMAIN asked[k] = {"to", "data"})'
    BY <1>8
  <2>3. Bounded(memory)' /\ (distance \in Distances)' /\ (searcher \in BOOLEAN)'
    <3>1. Bounded(memory')
      BY <1>7, <1>8, BoundedAnswer
    <3>. QED  BY <1>1, <3>1 DEF Track, Bounded
  <2>4. IsPayload(case)'
    BY <1>2, <1>4
  <2>. QED  BY <1>2, <1>5, <2>1, <2>2, <2>3, <2>4 DEF TypeOK, Bounded
<1>12. Fresh'
  BY <1>5 DEF Fresh
<1>. QED  BY <1>1, <1>10, <1>11, <1>12 DEF Inv

\* Inv is inductive.
LEMMA NextKeeps == Inv /\ [Next]_vars => Inv'
<1>. SUFFICES ASSUME Inv, [Next]_vars PROVE Inv'
  OBVIOUS
<1>1. Track /\ Track' /\ p \in Nat /\ at \in ToSet(Gates) \union {"MAIN", "exit", "invalid"}
  BY NextTracks DEF Inv, TypeOK
<1>2. CASE Enter
  BY <1>1, <1>2, StillMeant, LabelAmong DEF CallStays, Enter, call, calls
<1>3. CASE Callback
  BY <1>1, <1>3, StillMeant DEF CallStays, Callback, call, calls
<1>4. CASE Exit
  BY <1>1, <1>4, StillMeant DEF CallStays, Exit, call, calls
<1>5. CASE PrepareStack
  BY <1>1, <1>5, StillMeant, LabelAmong DEF CallStays, PrepareStack, call, calls
<1>6. CASE RecoverWeth
  <2>1. made = <<>>
    <3>1. OnTrack /\ case \in Cases
      BY <1>1, <1>6 DEF Track, RecoverWeth
    <3>2. \A i \in 1..Len(case.ingredients) : ~(IsSandwich(case) /\ AtGate(i))
      BY <1>6, <3>1, GateFacts, NoSwapGates DEF AtGate, RecoverWeth
    <3>. QED  BY <1>6, <3>1, <3>2 DEF OnTrack, RecoverWeth
  <2>. QED  BY <1>1, <1>6, <2>1, StillMeant DEF CallStays, RecoverWeth, call, calls
<1>7. CASE Succeed
  BY <1>7, SucceedKeeps
<1>8. CASE Fail \/ Stray
  <2>1. /\ made' = <<>> /\ memory' = Zero /\ asked' = <<>> /\ case' = case /\ at' = at /\ p' = p
        /\ distance' = distance /\ searcher' = searcher /\ status' \in {"reverted", "lost"}
    BY <1>8 DEF Fail, Stray, call
  <2>2. /\ Fresh' /\ OthersAskWhatIsMeant'
        /\ (made = <<0>> \/ (made \in Seq(DOMAIN case.ingredients)
                             /\ Len(made) <= Len(case.ingredients)))'
        /\ Bounded(memory)' /\ (\A k \in DOMAIN asked : DOMAIN asked[k] = {"to", "data"})'
    <3>1. DOMAIN memory' = {} /\ DOMAIN asked' = {}
      BY <2>1 DEF Zero
    <3>. QED  BY <1>1, <2>1, <3>1, PayloadFacts
              DEF Fresh, OthersAskWhatIsMeant, AsksWhatIsMeant, Bounded
  <2>3. IsPayload(case)' /\ (distance \in Distances)' /\ (searcher \in BOOLEAN)'
    BY <1>1, <2>1, PayloadFacts DEF Track
  <2>. QED  BY <1>1, <2>1, <2>2, <2>3 DEF Inv, TypeOK, Bounded
<1>9. CASE UNCHANGED vars
  BY <1>1, <1>9, StillMeant DEF CallStays, vars
<1>. QED  BY <1>2, <1>3, <1>4, <1>5, <1>6, <1>7, <1>8, <1>9 DEF Next, Ended

\* The inductive invariant: the handlers and their fields, the memory and the
\* calls are what they should be at every step, whatever the payload, the caller
\* and the block.
THEOREM InvHolds == Spec => []Inv
BY InvInit, NextKeeps, PTL DEF Spec

\* The types, and with them that no store of a swap reaches behind the memory
\* that its calls are given.
THEOREM TypeOKHolds == Spec => []TypeOK
<1>1. Inv => TypeOK
  BY DEF Inv
<1>. QED  BY <1>1, InvHolds, PTL

\* Whatever an earlier swap left in memory, every call of a token or a pool
\* carries the pool, the tokens and the amounts of its own ingredient and
\* nothing else; for every mixture of V2 and V3 swaps of any length, with every
\* shift of the amounts.
THEOREM OthersAskWhatIsMeantHolds == Spec => []OthersAskWhatIsMeant
<1>1. Inv => OthersAskWhatIsMeant
  BY DEF Inv
<1>. QED  BY <1>1, InvHolds, PTL
=============================================================================
