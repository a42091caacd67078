--------------------------- MODULE PoolIndexProofs ---------------------------
(***************************************************************************)
(* Proofs about the pool index: for any first block, length of the chain,  *)
(* span of a log query and interval of the oracle.                         *)
(***************************************************************************)
EXTENDS PoolIndex, TLAPS

\* The queries of a range of blocks, one every Step blocks, leave none out.
LEMMA SyncedCovers ==
    ASSUME NEW first \in Nat, NEW last \in Nat,
           NEW p \in Pools, first <= p, p <= last, p <= head
    PROVE  p \in Synced(first, last)
<1>. DEFINE a == p - first
            k == a \div Step
            q == k * Step
<1>1. p \in Nat /\ Step \in Nat \ {0} /\ a \in Nat /\ p = first + a
  BY PoolIndexAssumption DEF Pools
<1>. HIDE DEF a
<1>2. k \in Nat /\ q <= a /\ a < q + Step
  <2>1. \A m \in Nat, s \in Nat \ {0} :
            m \div s \in Nat /\ (m \div s) * s <= m /\ m < (m \div s) * s + s
    OBVIOUS
  <2>. QED  BY <1>1, <2>1
<1>. HIDE DEF k
<1>3. q \in Nat /\ k <= q
  <2>1. \A m \in Nat, s \in Nat \ {0} : m * s \in Nat /\ m <= m * s
    OBVIOUS
  <2>. QED  BY <1>1, <1>2, <2>1
<1>4. k \in 0..(last - first)
  <2>. HIDE DEF q
  <2>. QED  BY <1>1, <1>2, <1>3
<1>5. first + q <= last /\ p \in (first + q)..(first + q + Step)
  <2>. HIDE DEF q
  <2>. QED  BY <1>1, <1>2, <1>3
<1>. QED  BY <1>4, <1>5 DEF Synced

LEMMA SyncedPools ==
    ASSUME NEW first, NEW last
    PROVE  Synced(first, last) \subseteq Pools
BY DEF Synced

\* What a file can be.
LEMMA Kinds ==
    /\ None \in Files /\ Partial \in Files
    /\ None.kind = "none" /\ Partial.kind = "partial"
    /\ \A b \in Blocks, ps \in SUBSET Pools :
           /\ Full(b, ps) \in Files /\ Full(b, ps).kind = "full"
           /\ Full(b, ps).last = b /\ Full(b, ps).pools = ps
    /\ \A f \in Files : f.kind = "full" => f.last \in Blocks /\ f.pools \subseteq Pools
BY DEF Files, None, Partial, Full

LEMMA Numbers ==
    /\ CreationBlock \in Nat \ {0} /\ MaxHead \in Nat /\ CreationBlock <= MaxHead
    /\ Interval \in Nat \ {0}
    /\ \A b \in Blocks : b \in Nat /\ b <= MaxHead
    /\ \A b \in Nat : b <= MaxHead => b \in Blocks
    /\ Pools \subseteq Blocks
BY PoolIndexAssumption DEF Blocks, Pools

LEMMA InitInv ==
    ASSUME Init
    PROVE  IInv
BY Numbers, Kinds DEF Init, IInv, TypeOK, FileComplete, IndexCovers, Pools
-----------------------------------------------------------------------------
(* The chain and main()                                                    *)

LEMMA NewBlockInv ==
    ASSUME IInv, NewBlock
    PROVE  IInv'
<1>1. head \in Nat /\ head' = head + 1 /\ head' \in Blocks
  BY Numbers DEF IInv, TypeOK, NewBlock
<1>2. TypeOK'
  BY <1>1 DEF IInv, TypeOK, NewBlock, mainVars, oracleVars
<1>3. FileComplete' /\ IndexCovers'
  BY DEF IInv, FileComplete, IndexCovers, NewBlock, mainVars, oracleVars
<1>4. /\ CreationBlock <= head' /\ currentBlock' <= head'
      /\ file'.kind = "full" => file'.last <= head'
      /\ oracle' = "live" => stream' <= head'
  <2>1. \A b \in Int : b <= head => b <= head'
    BY <1>1
  <2>2. currentBlock \in Nat /\ stream \in Nat /\ CreationBlock \in Nat
    BY Numbers DEF IInv, TypeOK
  <2>3. file.kind = "full" => file.last \in Nat
    BY Numbers, Kinds DEF IInv, TypeOK
  <2>. QED  BY <2>1, <2>2, <2>3 DEF IInv, NewBlock, mainVars, oracleVars
<1>. QED  BY <1>2, <1>3, <1>4 DEF IInv, NewBlock, mainVars

LEMMA StartWithFileInv ==
    ASSUME IInv, StartWithFile
    PROVE  IInv'
<1>. USE DEF StartWithFile, oracleVars
<1>1. CASE file.kind = "full"
  <2>1. TypeOK'
    BY <1>1, Kinds DEF IInv, TypeOK
  <2>2. startBlock' <= currentBlock'
    BY <1>1 DEF IInv
  <2>3. CreationBlock..startBlock' \subseteq allPools'
    BY <1>1 DEF IInv, FileComplete
  <2>. QED  BY <2>1, <2>2, <2>3, Numbers DEF IInv, TypeOK, FileComplete, IndexCovers
<1>2. CASE file.kind # "full"
  <2>1. TypeOK'
    BY <1>2, Numbers DEF IInv, TypeOK
  <2>2. startBlock' <= currentBlock' /\ CreationBlock..startBlock' = {startBlock'}
    BY <1>2, Numbers DEF IInv, TypeOK
  <2>. QED  BY <2>1, <2>2, Numbers DEF IInv, TypeOK, FileComplete, IndexCovers
<1>. QED  BY <1>1, <1>2

LEMMA SyncDexInv ==
    ASSUME IInv, SyncDex
    PROVE  IInv'
<1>. USE DEF SyncDex, oracleVars
<1>1. TypeOK'
  BY SyncedPools DEF IInv, TypeOK
<1>2. CreationBlock..currentBlock \subseteq allPools'
  <2>1. ASSUME NEW p \in CreationBlock..currentBlock
        PROVE  p \in allPools'
    <3>1. p \in Pools /\ p <= head /\ startBlock \in Nat /\ currentBlock \in Nat
      BY Numbers DEF IInv, TypeOK, Pools
    <3>2. CASE p < startBlock
      BY <3>1, <3>2 DEF IInv
    <3>3. CASE startBlock <= p
      BY <3>1, <3>3, SyncedCovers
    <3>. QED  BY <3>1, <3>2, <3>3 DEF Pools
  <2>. QED  BY <2>1
<1>. QED  BY <1>1, <1>2 DEF IInv, FileComplete, IndexCovers

LEMMA EncodeFileInv ==
    ASSUME IInv, EncodeFile
    PROVE  IInv'
BY Kinds DEF IInv, TypeOK, EncodeFile, FileComplete, IndexCovers, mainVars, oracleVars

\* The other steps of the process leave the pools that it has synced, or the
\* file, or lose both.
LEMMA ProcessInv ==
    ASSUME IInv,
           \/ StartOnPartialFile \/ TruncateFile \/ SkipFile \/ EncodeNothing
           \/ Crash \/ NewBot \/ BotEnds
    PROVE  IInv'
<1>1. CASE StartOnPartialFile
  BY <1>1, Kinds DEF IInv, TypeOK, StartOnPartialFile, FileComplete, IndexCovers,
                     mainVars, oracleVars
<1>2. CASE TruncateFile
  BY <1>2, Kinds DEF IInv, TypeOK, TruncateFile, FileComplete, IndexCovers,
                     mainVars, oracleVars
<1>3. CASE SkipFile
  BY <1>3 DEF IInv, TypeOK, SkipFile, FileComplete, IndexCovers, mainVars, oracleVars
<1>4. CASE Crash
  BY <1>4 DEF IInv, TypeOK, Crash, FileComplete, IndexCovers, mainVars
<1>5. CASE NewBot
  BY <1>5 DEF IInv, TypeOK, NewBot, FileComplete, IndexCovers, mainVars
<1>6. CASE BotEnds
  BY <1>6 DEF IInv, TypeOK, BotEnds, FileComplete, IndexCovers, mainVars, oracleVars
<1>7. CASE EncodeNothing
  BY <1>7 DEF IInv, TypeOK, EncodeNothing, FileComplete, IndexCovers, mainVars, oracleVars
<1>. QED  BY <1>1, <1>2, <1>3, <1>4, <1>5, <1>6, <1>7
-----------------------------------------------------------------------------
(* The oracle                                                              *)

LEMMA OracleConnectInv ==
    ASSUME IInv, OracleConnect
    PROVE  IInv'
<1>1. TypeOK'
  BY Numbers DEF IInv, TypeOK, OracleConnect, mainVars
<1>2. IndexCovers'
  BY Numbers DEF IInv, TypeOK, OracleConnect, IndexCovers, mainVars
<1>. QED  BY <1>1, <1>2, Numbers DEF IInv, TypeOK, OracleConnect, FileComplete, mainVars

LEMMA OracleStopsInv ==
    ASSUME IInv, OracleDisconnect \/ OracleDies
    PROVE  IInv'
BY DEF IInv, TypeOK, OracleDisconnect, OracleDies, FileComplete, IndexCovers, mainVars

LEMMA OracleCountInv ==
    ASSUME IInv, OracleCount
    PROVE  IInv'
<1>1. TypeOK'
  BY Numbers DEF IInv, TypeOK, OracleCount, mainVars
<1>. QED  BY <1>1, Numbers DEF IInv, TypeOK, OracleCount, FileComplete, IndexCovers, mainVars

LEMMA OracleSyncInv ==
    ASSUME IInv, OracleSync
    PROVE  IInv'
<1>1. TypeOK'
  BY Numbers, SyncedPools DEF IInv, TypeOK, OracleSync, mainVars
<1>2. ASSUME NEW p \in (since..from') \cap Pools
      PROVE  p \in index' \union {since}
  <2>1. p \in Nat /\ from \in Nat /\ stream' \in Nat /\ head \in Nat
         /\ p <= stream' /\ stream' <= head
    BY Numbers DEF IInv, TypeOK, OracleSync, Pools
  <2>2. CASE p <= from
    <3>1. since \in Nat /\ since <= p /\ p \in Pools
      BY Numbers DEF IInv, TypeOK, OracleSync
    <3>2. p \in (since..from) \cap Pools
      BY <2>1, <2>2, <3>1
    <3>. QED  BY <3>2 DEF IInv, IndexCovers, OracleSync
  <2>3. CASE from < p
    <3>1. p \in Synced(from, stream')
      BY <2>1, <2>3, SyncedCovers
    <3>. QED  BY <3>1 DEF OracleSync
  <2>. QED  BY <2>1, <2>2, <2>3
<1>3. IndexCovers'
  BY <1>2 DEF IInv, IndexCovers, OracleSync, mainVars
<1>. QED  BY <1>1, <1>3, Numbers DEF IInv, TypeOK, OracleSync, FileComplete, mainVars
-----------------------------------------------------------------------------
\* Every step of the process, the chain and the oracle keeps the invariant.
THEOREM Invariance == Spec => []IInv
<1>1. Init => IInv
  BY InitInv
<1>2. IInv /\ [Next]_vars => IInv'
  <2>1. ASSUME IInv, Next
        PROVE  IInv'
    BY <2>1, NewBlockInv, StartWithFileInv, SyncDexInv, EncodeFileInv, ProcessInv,
       OracleConnectInv, OracleStopsInv, OracleCountInv, OracleSyncInv
       DEF Next, Main, Oracle
  <2>2. ASSUME IInv, UNCHANGED vars
        PROVE  IInv'
    BY <2>2 DEF IInv, TypeOK, FileComplete, IndexCovers, vars
  <2>. QED  BY <2>1, <2>2
<1>. QED  BY <1>1, <1>2, PTL DEF Spec

\* A file that can be read holds every pool up to the block it names, so that
\* a later start, which syncs from there, misses none.
THEOREM FileCompleteHolds == Spec => []FileComplete
<1>1. IInv => FileComplete
  BY DEF IInv
<1>. QED  BY <1>1, Invariance, PTL

\* A running bot has the pools of the start, and those of every block that its
\* oracle has synced since it connected.
THEOREM IndexCoversHolds == Spec => []IndexCovers
<1>1. IInv => IndexCovers
  BY DEF IInv
<1>. QED  BY <1>1, Invariance, PTL
=============================================================================
