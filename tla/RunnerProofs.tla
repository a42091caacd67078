---------------------------- MODULE RunnerProofs ----------------------------
(***************************************************************************)
(* Proofs about one running bot: for any number of simulation tasks, pools *)
(* and blocks.                                                             *)
(***************************************************************************)
EXTENDS Runner, TLAPS

LEMMA Numbers ==
    /\ MaxHead \in Nat /\ MaxHead >= 1
    /\ Start \in Nat /\ Start = 1
    /\ \A b \in Blocks : b \in Nat /\ b <= MaxHead
    /\ \A b \in NewBlocks : b \in Blocks /\ b > Start
    /\ \A b \in Blocks : b > Start => b \in NewBlocks
    /\ \A b \in Blocks : b + 1 \in Targets
    /\ \A t \in Targets : t \in Nat
BY RunnerAssumption DEF Start, Blocks, NewBlocks, Targets

\* The lock has one owner.
LEMMA Owners ==
    /\ \A b : Mega(b) # Free
    /\ \A b, c \in NewBlocks : Mega(b) = Mega(c) => b = c
BY DEF Mega, Free

LEMMA InitInv ==
    ASSUME Init
    PROVE  IInv
<1>1. TypeOK
  <2>1. 0 \in Blocks /\ Start \in Blocks /\ Start - 1 \in Blocks
    BY Numbers DEF Blocks
  <2>2. NoSim \in SimState
    BY DEF SimState
  <2>. QED  BY <2>1, <2>2 DEF Init, TypeOK, NoSnap, OraclePC, MegaPC
<1>2. LockHeldByRunningMega /\ MegaAfterPublish
  BY Owners DEF Init, LockHeldByRunningMega, MegaAfterPublish
<1>3. OracleOrder /\ SnapOld
  BY Numbers DEF Init, OracleOrder, SnapOld, NoSnap
<1>. QED  BY <1>1, <1>2, <1>3 DEF IInv

\* The chain grows.
LEMMA NewBlockInv ==
    ASSUME IInv, NewBlock
    PROVE  IInv'
<1>. USE DEF IInv
<1>1. TypeOK'
  BY Numbers DEF TypeOK, NewBlock, Blocks
<1>2. LockHeldByRunningMega' /\ MegaAfterPublish' /\ SnapOld'
  BY DEF LockHeldByRunningMega, MegaAfterPublish, SnapOld, NewBlock
<1>3. OracleOrder'
  BY Numbers DEF OracleOrder, NewBlock, TypeOK
<1>. QED  BY <1>1, <1>2, <1>3

----------------------------------------------------------------------------
(* The block oracle                                                        *)

\* Steps that change only where the oracle task is and what its stream
\* delivered.
LEMMA OracleMovesInv ==
    ASSUME IInv, OracleConnect \/ OracleDisconnect \/ OracleReceive \/ OracleRecover
    PROVE  IInv'
<1>. USE DEF IInv
<1>1. UNCHANGED <<head, latest, nonceAt, nonceHeld, rich, lock, pending, mega, mempool, snap, sim>>
  BY DEF OracleConnect, OracleDisconnect, OracleReceive, OracleRecover
<1>2. TypeOK'
  BY <1>1, Numbers DEF TypeOK, OraclePC, Blocks,
                       OracleConnect, OracleDisconnect, OracleReceive, OracleRecover
<1>3. LockHeldByRunningMega' /\ MegaAfterPublish' /\ SnapOld'
  BY <1>1 DEF LockHeldByRunningMega, MegaAfterPublish, SnapOld
<1>4. OracleOrder'
  BY <1>1, Numbers DEF OracleOrder, TypeOK,
                       OracleConnect, OracleDisconnect, OracleReceive, OracleRecover
<1>. QED  BY <1>2, <1>3, <1>4

\* The nonce is read again: it can only become newer.
LEMMA OracleNonceInv ==
    ASSUME IInv, OracleLockNonce \/ OracleUpdateNonce
    PROVE  IInv'
<1>. USE DEF IInv
<1>1. UNCHANGED <<head, seen, latest, rich, lock, pending, mega, mempool, snap, sim>>
  BY DEF OracleLockNonce, OracleUpdateNonce
<1>2. TypeOK'
  BY <1>1 DEF TypeOK, OraclePC, OracleLockNonce, OracleUpdateNonce
<1>3. LockHeldByRunningMega' /\ MegaAfterPublish' /\ SnapOld'
  BY <1>1 DEF LockHeldByRunningMega, MegaAfterPublish, SnapOld
<1>4. OracleOrder'
  BY <1>1, Numbers DEF OracleOrder, TypeOK, OracleLockNonce, OracleUpdateNonce
<1>. QED  BY <1>2, <1>3, <1>4

\* The recipes go, and then the block is published.
LEMMA OracleClearInv ==
    ASSUME IInv, OracleClear
    PROVE  IInv'
<1>. USE DEF IInv, OracleClear
<1>1. TypeOK'
  BY DEF TypeOK, OraclePC
<1>2. LockHeldByRunningMega' /\ MegaAfterPublish' /\ SnapOld'
  BY DEF LockHeldByRunningMega, MegaAfterPublish, SnapOld
<1>3. OracleOrder'
  BY DEF OracleOrder
<1>. QED  BY <1>1, <1>2, <1>3

LEMMA OraclePublishInv ==
    ASSUME IInv, OraclePublish
    PROVE  IInv'
<1>. USE DEF IInv, OraclePublish
<1>1. TypeOK'
  BY DEF TypeOK, OraclePC
<1>2. latest \in Nat /\ seen \in Nat /\ latest < seen /\ latest' = seen
  BY Numbers DEF OracleOrder, TypeOK
<1>3. LockHeldByRunningMega'
  BY DEF LockHeldByRunningMega
<1>4. MegaAfterPublish'
  <2>1. \A b \in NewBlocks : mega'[b] # "none" => b <= latest'
    BY <1>2, Numbers DEF MegaAfterPublish
  <2>2. \A r \in pending' : r.target <= latest' + 1
    BY <1>2, Numbers DEF MegaAfterPublish, TypeOK, Recipes
  <2>3. \A s \in Sims : sim'[s] # NoSim => sim'[s].target <= latest' + 1
    BY <1>2, Numbers DEF MegaAfterPublish, TypeOK, SimState
  <2>. QED  BY <2>1, <2>2, <2>3 DEF MegaAfterPublish
<1>5. SnapOld'
  BY <1>2, Numbers DEF SnapOld, TypeOK
<1>6. OracleOrder'
  <2>1. seen \in NewBlocks /\ Start <= seen /\ nonceAt >= seen
    BY <1>2, Numbers DEF OracleOrder, TypeOK, Start
  <2>2. mega[seen] = "none"
    BY <1>2, <2>1 DEF MegaAfterPublish
  <2>. QED  BY <1>2, <2>1, <2>2 DEF OracleOrder
<1>. QED  BY <1>1, <1>3, <1>4, <1>5, <1>6

LEMMA OracleSpawnMegaInv ==
    ASSUME IInv, OracleSpawnMega
    PROVE  IInv'
<1>. USE DEF IInv, OracleSpawnMega
<1>1. seen \in NewBlocks /\ latest = seen /\ seen \in Nat
  BY Numbers DEF OracleOrder, TypeOK
<1>2. TypeOK'
  BY <1>1 DEF TypeOK, OraclePC, MegaPC
<1>3. MegaAfterPublish' /\ SnapOld'
  BY <1>1 DEF MegaAfterPublish, SnapOld, TypeOK
<1>4. OracleOrder'
  BY DEF OracleOrder
<1>5. LockHeldByRunningMega'
  BY <1>1 DEF LockHeldByRunningMega, OracleOrder, TypeOK
<1>. QED  BY <1>2, <1>3, <1>4, <1>5

----------------------------------------------------------------------------
(* Mega sandwiches                                                         *)

\* A mega sandwich moves on under the rule that it holds the lock exactly while
\* it is made.
LEMMA MegaStepInv ==
    ASSUME IInv, NEW b \in NewBlocks, MegaStep(b)
    PROVE  IInv'
<1>. USE DEF IInv
<1>1. PICK pc \in MegaPC \ {"none"} : mega' = [mega EXCEPT ![b] = pc]
  BY DEF MegaStep, MegaWake, MegaLock, MegaBuild, MegaSearch, MegaSend, MegaEnd, MegaPC
<1>2. UNCHANGED <<head, oracle, seen, latest, nonceAt, nonceHeld, rich, pending, mempool, snap, sim>>
  BY DEF MegaStep, MegaWake, MegaLock, MegaBuild, MegaSearch, MegaSend
<1>3. mega[b] # "none"
  BY DEF MegaStep, MegaWake, MegaLock, MegaBuild, MegaSearch, MegaSend
<1>4. lock' \in {lock, Free, Mega(b)}
  BY DEF MegaStep, MegaWake, MegaLock, MegaBuild, MegaSearch, MegaSend, MegaEnd
<1>5. TypeOK'
  BY <1>1, <1>2, <1>4 DEF TypeOK
<1>6. MegaAfterPublish' /\ SnapOld'
  BY <1>1, <1>2, <1>3 DEF MegaAfterPublish, SnapOld, TypeOK
<1>7. OracleOrder'
  BY <1>1, <1>2, <1>3 DEF OracleOrder, TypeOK
<1>8. LockHeldByRunningMega'
  <2>1. CASE MegaWake(b)
    BY <2>1 DEF LockHeldByRunningMega, TypeOK, MegaWake
  <2>2. CASE MegaLock(b)
    BY <2>2, Owners DEF LockHeldByRunningMega, TypeOK, MegaLock
  <2>3. CASE MegaBuild(b)
    BY <2>3, Owners DEF LockHeldByRunningMega, TypeOK, MegaBuild, MegaEnd
  <2>4. CASE MegaSearch(b)
    BY <2>4, Owners DEF LockHeldByRunningMega, TypeOK, MegaSearch, MegaEnd
  <2>5. CASE MegaSend(b)
    BY <2>5, Owners DEF LockHeldByRunningMega, TypeOK, MegaSend, MegaEnd
  <2>. QED  BY <2>1, <2>2, <2>3, <2>4, <2>5 DEF MegaStep
<1>. QED  BY <1>5, <1>6, <1>7, <1>8

----------------------------------------------------------------------------
(* The mempool loop and the simulation tasks                               *)

LEMMA MempoolStepInv ==
    ASSUME IInv, MempoolStep
    PROVE  IInv'
<1>. USE DEF IInv
<1>1. UNCHANGED <<head, oracle, seen, latest, nonceAt, nonceHeld, lock, pending, mega, sim>>
  BY DEF MempoolStep, MempoolReceive, MempoolSkip, MempoolReady, MempoolNext
<1>2. TypeOK' /\ SnapOld'
  BY <1>1, Numbers DEF TypeOK, SnapOld, NoSnap, Blocks,
                       MempoolStep, MempoolReceive, MempoolSkip, MempoolReady, MempoolNext
<1>3. LockHeldByRunningMega' /\ MegaAfterPublish' /\ OracleOrder'
  BY <1>1 DEF LockHeldByRunningMega, MegaAfterPublish, OracleOrder
<1>. QED  BY <1>2, <1>3

\* The target of a simulation is the block after the snapshot's.
LEMMA MempoolSpawnInv ==
    ASSUME IInv, NEW s \in Sims, NEW p \in Pools, MempoolSpawn(s, p)
    PROVE  IInv'
<1>. DEFINE r == [st |-> "search", pool |-> p, target |-> snap + 1]
<1>. USE DEF IInv
<1>1. UNCHANGED <<head, oracle, seen, latest, nonceAt, nonceHeld, rich, lock, pending, mega, mempool, snap>>
      /\ sim' = [sim EXCEPT ![s] = r]
  BY DEF MempoolSpawn
<1>2. r \in SimState /\ r.target <= latest + 1
  BY Numbers DEF SimState, SnapOld, TypeOK
<1>3. TypeOK'
  BY <1>1, <1>2 DEF TypeOK
<1>4. LockHeldByRunningMega' /\ OracleOrder' /\ SnapOld'
  BY <1>1 DEF LockHeldByRunningMega, OracleOrder, SnapOld
<1>5. MegaAfterPublish'
  BY <1>1, <1>2 DEF MegaAfterPublish, TypeOK
<1>. QED  BY <1>3, <1>4, <1>5

\* A simulation keeps its target until it ends, and hands it to its recipe.
LEMMA SimStepInv ==
    ASSUME IInv, NEW s \in Sims, SimStep(s)
    PROVE  IInv'
<1>. USE DEF IInv
<1>1. UNCHANGED <<head, oracle, seen, latest, nonceAt, nonceHeld, rich, lock, mega, mempool, snap>>
  BY DEF SimStep, SimSearch, SimAddRecipe, SimSend
<1>2. /\ sim[s] # NoSim /\ sim[s].target <= latest + 1
      /\ sim[s].pool \in Pools /\ sim[s].target \in Targets
  <2>1. sim[s] \in SimState /\ sim[s].st \in {"search", "want", "send"}
    BY DEF SimStep, SimSearch, SimAddRecipe, SimSend, TypeOK
  <2>. QED  BY <2>1 DEF SimState, NoSim, MegaAfterPublish
<1>3. \/ sim' = [sim EXCEPT ![s] = NoSim]
      \/ \E st \in {"want", "send"} :
             sim' = [sim EXCEPT ![s] = [st |-> st, pool |-> sim[s].pool, target |-> sim[s].target]]
  <2>1. sim[s] = [st |-> sim[s].st, pool |-> sim[s].pool, target |-> sim[s].target]
    BY <1>2 DEF SimState, NoSim, TypeOK
  <2>2. \A st : [sim[s] EXCEPT !.st = st]
                  = [st |-> st, pool |-> sim[s].pool, target |-> sim[s].target]
    BY <2>1
  <2>. QED  BY <2>2 DEF SimStep, SimSearch, SimAddRecipe, SimSend
<1>4. pending' \in {pending, pending \cup {[pool |-> sim[s].pool, target |-> sim[s].target]}}
  BY DEF SimStep, SimSearch, SimAddRecipe, SimSend
<1>5. TypeOK'
  BY <1>1, <1>2, <1>3, <1>4 DEF TypeOK, SimState, Recipes
<1>6. LockHeldByRunningMega' /\ OracleOrder' /\ SnapOld'
  BY <1>1 DEF LockHeldByRunningMega, OracleOrder, SnapOld
<1>7. MegaAfterPublish'
  <2>1. \A t \in Sims : sim'[t] # NoSim => sim'[t].target <= latest + 1
    BY <1>2, <1>3 DEF MegaAfterPublish, TypeOK
  <2>2. \A r \in pending' : r.target <= latest + 1
    BY <1>2, <1>4 DEF MegaAfterPublish
  <2>. QED  BY <1>1, <2>1, <2>2 DEF MegaAfterPublish
<1>. QED  BY <1>5, <1>6, <1>7

----------------------------------------------------------------------------
(* The theorems                                                            *)

LEMMA NextInv ==
    ASSUME IInv, [Next]_vars
    PROVE  IInv'
<1>1. CASE UNCHANGED vars
  BY <1>1 DEF vars, IInv, TypeOK, LockHeldByRunningMega, MegaAfterPublish, OracleOrder, SnapOld
<1>2. CASE OracleConnect \/ OracleDisconnect \/ OracleStep
  BY <1>2, OracleMovesInv, OracleNonceInv, OracleClearInv, OraclePublishInv, OracleSpawnMegaInv
     DEF OracleStep
<1>. QED  BY <1>1, <1>2, NewBlockInv, MegaStepInv, MempoolStepInv, MempoolSpawnInv, SimStepInv
          DEF Next

\* The inductive invariant holds in every reachable state.
THEOREM Invariance == Spec => []IInv
<1>1. Init => IInv
  BY InitInv
<1>2. IInv /\ [Next]_vars => IInv'
  BY NextInv
<1>. QED  BY <1>1, <1>2, PTL DEF Spec

\* Every variable of the bot keeps its type.
THEOREM TypesHold == Spec => []TypeOK
<1>1. IInv => TypeOK
  BY DEF IInv
<1>. QED  BY <1>1, Invariance, PTL

\* The BundleSender's lock is held exactly by the mega sandwich that is being
\* made: it is released on every way out, panics included.
THEOREM LockReleased == Spec => []LockHeldByRunningMega
<1>1. IInv => LockHeldByRunningMega
  BY DEF IInv
<1>. QED  BY <1>1, Invariance, PTL

\* A mega sandwich is made after its block was published, and no recipe is
\* ahead of the published block.
THEOREM MegaInOrder == Spec => []MegaAfterPublish
<1>1. IInv => MegaAfterPublish
  BY DEF IInv
<1>. QED  BY <1>1, Invariance, PTL

\* No bundle is signed with a nonce older than the block before its target.
THEOREM NonceFresh == Spec => []NonceNotOlderThanTarget
<1>1. ASSUME IInv
      PROVE  NonceNotOlderThanTarget
  <2>1. /\ latest \in Nat /\ nonceAt \in Nat /\ Start = 1
        /\ \A b \in NewBlocks : b \in Nat /\ b > Start
    BY <1>1, Numbers DEF IInv, TypeOK
  <2>2. ASSUME NEW b \in NewBlocks, mega[b] = "send"
        PROVE  nonceAt >= b
    BY <1>1, <2>1, <2>2 DEF IInv, MegaAfterPublish, OracleOrder
  <2>3. ASSUME NEW s \in Sims, sim[s].st = "send", sim[s].target > Start + 1
        PROVE  nonceAt + 1 >= sim[s].target
    <3>1. sim[s] # NoSim /\ sim[s].target \in Nat
      BY <1>1, <2>3, Numbers DEF IInv, TypeOK, SimState, NoSim
    <3>2. sim[s].target <= latest + 1
      BY <1>1, <3>1 DEF IInv, MegaAfterPublish
    <3>. QED  BY <1>1, <2>1, <2>3, <3>1, <3>2 DEF IInv, OracleOrder
  <2>. QED  BY <2>2, <2>3 DEF NonceNotOlderThanTarget
<1>. QED  BY <1>1, Invariance, PTL

\* Nobody adds or clears recipes while a mega sandwich is made from them.
THEOREM StableRecipes == Spec => MegaReadsStableRecipes
<1>1. [Next]_vars => [lock # Free => pending' = pending]_vars
  BY DEF Next, NewBlock, OracleConnect, OracleDisconnect, OracleStep, OracleReceive,
         OracleLockNonce, OracleUpdateNonce, OracleClear, OraclePublish, OracleRecover,
         OracleSpawnMega, MegaStep, MegaWake, MegaLock, MegaBuild, MegaSearch, MegaSend,
         MempoolStep, MempoolReceive, MempoolSkip, MempoolReady, MempoolNext, MempoolSpawn,
         SimStep, SimSearch, SimAddRecipe, SimSend, vars
<1>. QED  BY <1>1, PTL DEF Spec, MegaReadsStableRecipes

\* Clearing the recipes never throws away one for a block still to come.
THEOREM ClearSpares == Spec => ClearSparesNextBlock
<1>1. IInv /\ [Next]_vars
          => [\A r \in pending : r \notin pending' => r.target <= seen]_vars
  <2>. SUFFICES ASSUME IInv, Next
                PROVE  \A r \in pending : r \notin pending' => r.target <= seen
    OBVIOUS
  <2>1. CASE OracleClear
    <3>1. latest \in Nat /\ seen \in Nat /\ latest < seen
      BY <2>1, Numbers DEF IInv, TypeOK, OracleOrder, OracleClear
    <3>2. \A r \in pending : r.target \in Nat /\ r.target <= latest + 1
      BY Numbers DEF IInv, TypeOK, Recipes, MegaAfterPublish
    <3>. QED  BY <3>1, <3>2
  <2>2. CASE ~OracleClear
    <3>1. pending \subseteq pending'
      BY <2>2 DEF Next, NewBlock, OracleConnect, OracleDisconnect, OracleStep, OracleReceive,
         OracleLockNonce, OracleUpdateNonce, OraclePublish, OracleRecover,
         OracleSpawnMega, MegaStep, MegaWake, MegaLock, MegaBuild, MegaSearch, MegaSend,
         MempoolStep, MempoolReceive, MempoolSkip, MempoolReady, MempoolNext, MempoolSpawn,
         SimStep, SimSearch, SimAddRecipe, SimSend
    <3>. QED  BY <3>1
  <2>. QED  BY <2>1, <2>2
<1>. QED  BY <1>1, Invariance, PTL DEF Spec, ClearSparesNextBlock
=============================================================================
