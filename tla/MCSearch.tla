------------------------------ MODULE MCSearch ------------------------------
EXTENDS Search

CONSTANTS PeakStep      \* in pairs, peaks and cliffs are multiples of this

\* revenue of a swap: it rises to the peak, falls to the cliff, where the
\* victim's limit is reached, and is nothing beyond it
Tent(peak, cliff) ==
    [x \in 0..Balance |->
        IF x = 0 \/ x > cliff THEN 0
        ELSE IF x <= peak THEN Balance + x ELSE Balance + 2 * peak - x]

Tents == UNION {{Tent(peak, cliff) : cliff \in peak..Balance} : peak \in 1..Balance}
             \union {Tent(0, 0)}

Marks == {x \in 1..Balance : x % PeakStep = 0 \/ x = 1}
SparseTents == UNION {{Tent(mark, mark), Tent(mark, Balance)} : mark \in Marks}
                   \union {Tent(0, 0)}

\* one ingredient of every profile, or two of some
OneOrTwo == {<<p>> : p \in Tents} \union {<<p, q>> : p, q \in SparseTents}

\* none, all, the lower half or the inner cuts fail
Failures == {{}, Cuts, 0..7, 4..12}
=============================================================================
