---------------------------- MODULE ContractMemory ----------------------------
(***************************************************************************)
(* The memory of a contract's call, as the handlers of                     *)
(* src/contract/src/sandwich.huff use it: every store writes 32 bytes at   *)
(* any offset, so stores overlap, and what an earlier one left is there    *)
(* for the next call of a pool or a token to read.                         *)
(*                                                                         *)
(* A byte is a tag that tells where it comes from.  Memory, words and the  *)
(* data of a call are functions from the offsets of their non-zero bytes.  *)
(***************************************************************************)
EXTENDS Integers, Sequences, SequencesExt, Functions

WordSize == 32

Zero == <<>>        \* the word, and the memory, without a non-zero byte

\* a field of so many bytes at the left end of a word
AtLeft(field, width) == [k \in 0..(width - 1) |-> <<field, k + 1>>]

\* shr by so many bytes: what passes the right end is gone
Shr(word, bytes) ==
    [k \in {l \in bytes..(WordSize - 1) : l - bytes \in DOMAIN word} |-> word[k - bytes]]

\* a number of so many bytes times 256^shift
Scaled(field, width, shift) == Shr(AtLeft(field, width), WordSize - width - shift)
Number(field, width) == Scaled(field, width, 0)

\* or, of words that share no byte
Or(word, other) ==
    [k \in DOMAIN word \union DOMAIN other |-> IF k \in DOMAIN word THEN word[k] ELSE other[k]]

\* 0 sub: every byte of the word may change
Minus(word) == [k \in 0..(WordSize - 1) |-> <<"minus", word, k>>]

Span(from, size) == from..(from + size - 1)

Mstore(memory, at, word) ==
    [a \in (DOMAIN memory \ Span(at, WordSize)) \union {at + k : k \in DOMAIN word} |->
        IF a \in Span(at, WordSize) THEN word[a - at] ELSE memory[a]]

\* a store is <<offset, word>>
memory ++ store == Mstore(memory, store[1], store[2])

\* a store of zeros that only some handlers make
Cleared(memory, at, clears) == IF clears THEN memory ++ <<at, Zero>> ELSE memory

\* the data of a call that is given so many bytes of memory
Slice(memory, from, size) ==
    [b \in {a - from : a \in DOMAIN memory \intersect Span(from, size)} |-> memory[b + from]]

\* the data of a call by the rules of Solidity: the signature, then words
Abi(signature, words) ==
    LET end == 4 + WordSize * Len(words)
        Word(b) == words[(b - 4) \div WordSize + 1]
        In(b) == (b - 4) % WordSize
    IN  [b \in {c \in 0..(end - 1) : c < 4 \/ In(c) \in DOMAIN Word(c)} |->
            IF b < 4 THEN <<signature, b + 1>> ELSE Word(b)[In(b)]]
=============================================================================
