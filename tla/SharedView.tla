----------------------------- MODULE SharedView -----------------------------
(***************************************************************************)
(* What the fork backend promises its clients, whatever its queues, caches *)
(* and futures: one view of the chain per factory that only ever grows.    *)
(* A key gets its value once, every client that asks for it is answered    *)
(* with that value, a known key never fails, and a question is answered    *)
(* once, after it was asked.                                               *)
(***************************************************************************)
CONSTANTS Clients, Keys, InitialKeys, NodeValue, None, Failed, NoKey

VARIABLES asked,   \* asked[c]: the key client c waits for, or NoKey
          answer,  \* answer[c]: its answer, or None
          view     \* view[k]: the value of k, or None while nobody knows it

vars == <<asked, answer, view>>

Init ==
    /\ asked = [c \in Clients |-> NoKey]
    /\ answer = [c \in Clients |-> None]
    /\ view = [k \in Keys |-> IF k \in InitialKeys THEN "initial" ELSE None]

Ask(c, k) ==
    /\ asked[c] = NoKey
    /\ asked' = [asked EXCEPT ![c] = k]
    /\ UNCHANGED <<answer, view>>

Unanswered(k) == {c \in Clients : asked[c] = k /\ answer[c] = None}

Tell(D, v) == answer' = [c \in Clients |-> IF c \in D THEN v ELSE answer[c]]

\* some clients learn the value of k, which is settled now if it was not
Serve(k, v, D) ==
    /\ D \subseteq Unanswered(k)
    /\ Tell(D, v)
    /\ view[k] = v \/ (view[k] = None /\ v \in NodeValue)
    /\ view' = [view EXCEPT ![k] = v]
    /\ UNCHANGED asked

\* the node could not be asked
Fail(k, D) ==
    /\ view[k] = None
    /\ D \subseteq Unanswered(k)
    /\ Tell(D, Failed)
    /\ UNCHANGED <<asked, view>>

Take(c) ==
    /\ answer[c] # None
    /\ asked' = [asked EXCEPT ![c] = NoKey]
    /\ answer' = [answer EXCEPT ![c] = None]
    /\ UNCHANGED view

Next ==
    \/ \E c \in Clients, k \in Keys : Ask(c, k)
    \/ \E c \in Clients : Take(c)
    \/ \E k \in Keys, D \in SUBSET Clients :
           Fail(k, D) \/ \E v \in NodeValue \cup {"initial"} : Serve(k, v, D)

Spec == Init /\ [][Next]_vars
=============================================================================
