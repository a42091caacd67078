------------------------------ MODULE PoolIndex ------------------------------
(***************************************************************************)
(* Which pools the bot knows: the start-up sync with its file              *)
(* (src/bot/src/main.rs), the log ranges of sync_dex                       *)
(* (src/bot/src/cfmm/dex.rs), the execution loop that makes a new bot when *)
(* one ends, and the oracle that adds new pools                            *)
(* (src/bot/src/runner/oracles.rs, start_add_new_pools).                   *)
(*                                                                         *)
(* Every block creates one pool, which is named by its block.  The oracle  *)
(* of an earlier bot lives on, but writes into that bot's own map, which   *)
(* nobody reads: it is left out.                                           *)
(***************************************************************************)
EXTENDS Integers

CONSTANTS CreationBlock,    \* first block with a pool
          Step,             \* blocks a log query spans
          Interval,         \* INTERVAL_BLOCK_NEW_POOL
          MaxHead           \* bound: last block of the chain

ASSUME PoolIndexAssumption ==
    /\ CreationBlock \in Nat \ {0} /\ MaxHead \in Nat /\ CreationBlock <= MaxHead
    /\ Step \in Nat \ {0} /\ Interval \in Nat \ {0}

Blocks == 0..MaxHead
Pools == CreationBlock..MaxHead

None == [kind |-> "none"]
Partial == [kind |-> "partial"]   \* truncated, not or half written
Full(block, pools) == [kind |-> "full", last |-> block, pools |-> pools]

VARIABLES
    head,           \* last block of the chain
    file,           \* pools.json.zstd
    proc,           \* where main() is
    startBlock,     \* start_block: first block to sync
    currentBlock,   \* current_block: last block to sync
    allPools,       \* all_pools of main()
    index,          \* all_pools of the running bot
    oracle,         \* start_add_new_pools: "connecting", "live" or "dead"
    counter, from,  \* its counter and current_block_num
    stream,         \* the last block it has received
    since           \* the block its connection began at

vars == <<head, file, proc, startBlock, currentBlock, allPools, index,
          oracle, counter, from, stream, since>>
mainVars == <<startBlock, currentBlock, allPools>>
oracleVars == <<oracle, counter, from, stream, since>>

Files ==
    {None, Partial} \union [kind : {"full"}, last : Blocks, pools : SUBSET Pools]

TypeOK ==
    /\ head \in Blocks
    /\ file \in Files
    /\ proc \in {"down", "sync", "truncate", "encode", "loop", "run"}
    /\ startBlock \in Blocks /\ currentBlock \in Blocks
    /\ allPools \subseteq Pools
    /\ index \subseteq Pools
    /\ oracle \in {"connecting", "live", "dead"}
    /\ counter \in 0..(Interval - 1)
    /\ from \in Blocks /\ stream \in Blocks /\ since \in Blocks

Init ==
    /\ head = CreationBlock
    /\ file = None
    /\ proc = "down"
    /\ startBlock = 0 /\ currentBlock = 0
    /\ allPools = {}
    /\ index = {}
    /\ oracle = "dead"
    /\ counter = 0 /\ from = 0 /\ stream = 0 /\ since = 0

NewBlock ==
    /\ head < MaxHead
    /\ head' = head + 1
    /\ UNCHANGED <<file, proc, mainVars, index, oracleVars>>

\* sync_dex: one log query per Step blocks, each with both ends; the node
\* answers with what its chain has
Synced(first, last) ==
    {p \in Pools : /\ p <= head
                   /\ \E k \in 0..(last - first) :
                        /\ first + k * Step <= last
                        /\ p \in (first + k * Step)..(first + k * Step + Step)}

\* main() starts with what the file holds, then asks for the block number;
\* a file that cannot be opened is passed over
StartWithFile ==
    /\ proc = "down"
    /\ file.kind # "partial"
    /\ IF file.kind = "full"
       THEN startBlock' = file.last /\ allPools' = file.pools
       ELSE startBlock' = CreationBlock /\ allPools' = {}
    /\ currentBlock' = head
    /\ proc' = "sync"
    /\ UNCHANGED <<head, file, index, oracleVars>>

\* ... and ends with the decoder's error when it is not complete; it starts
\* again once the operator has removed the file
StartOnPartialFile ==
    /\ proc = "down"
    /\ file.kind = "partial"
    /\ file' = None
    /\ UNCHANGED <<head, proc, mainVars, index, oracleVars>>

\* faulty variant: the number written is the head after the sync
SyncThenAsk ==
    /\ proc = "sync"
    /\ allPools' = allPools \union Synced(startBlock, currentBlock)
    /\ currentBlock' = head
    /\ proc' = "truncate"
    /\ UNCHANGED <<head, file, startBlock, index, oracleVars>>

SyncDex ==
    /\ proc = "sync"
    /\ allPools' = allPools \union Synced(startBlock, currentBlock)
    /\ proc' = "truncate"
    /\ UNCHANGED <<head, file, startBlock, currentBlock, index, oracleVars>>

\* opening the file for writing truncates it
TruncateFile ==
    /\ proc = "truncate"
    /\ file' = Partial
    /\ proc' = "encode"
    /\ UNCHANGED <<head, mainVars, index, oracleVars>>

\* it cannot be opened: the bot goes on without
SkipFile ==
    /\ proc = "truncate"
    /\ proc' = "loop"
    /\ UNCHANGED <<head, file, mainVars, index, oracleVars>>

EncodeFile ==
    /\ proc = "encode"
    /\ file' = Full(currentBlock, allPools)
    /\ proc' = "loop"
    /\ UNCHANGED <<head, mainVars, index, oracleVars>>

\* the encoder cannot be made, or its end is not written, which nobody is told:
\* the bot goes on beside a file that is not complete
EncodeNothing ==
    /\ proc = "encode"
    /\ proc' = "loop"
    /\ UNCHANGED <<head, file, mainVars, index, oracleVars>>

\* a panic or an error of main(), or the machine stops
Crash ==
    /\ proc # "down"
    /\ proc' = "down"
    /\ index' = {}
    /\ oracle' = "dead"
    /\ UNCHANGED <<head, file, mainVars, counter, from, stream, since>>

\* the execution loop makes a bot from the pools of the start
NewBot ==
    /\ proc = "loop"
    /\ proc' = "run"
    /\ index' = allPools
    /\ oracle' = "connecting"
    /\ UNCHANGED <<head, file, mainVars, counter, from, stream, since>>

\* the mempool stream ends
BotEnds ==
    /\ proc = "run"
    /\ proc' = "loop"
    /\ UNCHANGED <<head, file, mainVars, index, oracleVars>>

\* subscription first, then the block number, with perhaps a block in between
OracleConnect ==
    /\ proc = "run" /\ oracle = "connecting"
    /\ oracle' = "live"
    /\ counter' = 0
    /\ from' = head /\ since' = head
    /\ stream' \in {head - 1, head}
    /\ UNCHANGED <<head, file, proc, mainVars, index>>

OracleDisconnect ==
    /\ proc = "run" /\ oracle = "live"
    /\ oracle' = "connecting"
    /\ UNCHANGED <<head, file, proc, mainVars, index, counter, from, stream, since>>

\* a connection attempt or a log query fails and is unwrapped
OracleDies ==
    /\ proc = "run" /\ oracle # "dead"
    /\ oracle' = "dead"
    /\ UNCHANGED <<head, file, proc, mainVars, index, counter, from, stream, since>>

\* faulty variant: the number is kept for every block
OracleCountKeepsNumber ==
    /\ proc = "run" /\ oracle = "live"
    /\ stream < head
    /\ counter + 1 # Interval
    /\ stream' = stream + 1
    /\ counter' = counter + 1
    /\ from' = stream'
    /\ UNCHANGED <<head, file, proc, mainVars, index, oracle, since>>

\* a block between two syncs
OracleCount ==
    /\ proc = "run" /\ oracle = "live"
    /\ stream < head
    /\ counter + 1 # Interval
    /\ stream' = stream + 1
    /\ counter' = counter + 1
    /\ UNCHANGED <<head, file, proc, mainVars, index, oracle, from, since>>

\* faulty variant: the counter goes on
OracleSyncKeepsCount ==
    /\ proc = "run" /\ oracle = "live"
    /\ stream < head
    /\ counter + 1 = Interval
    /\ stream' = stream + 1
    /\ index' = index \union Synced(from, stream')
    /\ from' = stream'
    /\ counter' = counter + 1
    /\ UNCHANGED <<head, file, proc, mainVars, oracle, since>>

\* every Interval-th block: pools created since the last number are added
OracleSync ==
    /\ proc = "run" /\ oracle = "live"
    /\ stream < head
    /\ counter + 1 = Interval
    /\ stream' = stream + 1
    /\ index' = index \union Synced(from, stream')
    /\ from' = stream'
    /\ counter' = 0
    /\ UNCHANGED <<head, file, proc, mainVars, oracle, since>>

Main == StartWithFile \/ SyncDex \/ TruncateFile \/ EncodeFile \/ NewBot
Oracle == OracleConnect \/ OracleCount \/ OracleSync

Next ==
    \/ NewBlock
    \/ Main \/ StartOnPartialFile \/ SkipFile \/ EncodeNothing
    \/ Crash \/ BotEnds
    \/ Oracle \/ OracleDisconnect \/ OracleDies

Spec == Init /\ [][Next]_vars
\* the chain grows and the tasks run; nothing obliges connections to hold
FairSpec == Spec /\ WF_vars(NewBlock) /\ WF_vars(Main) /\ WF_vars(Oracle)

-----------------------------------------------------------------------------
\* A file that can be read holds every pool up to the block it names, through
\* crashes, failed writes and blocks mined during the sync: the next start
\* syncs from that block only.
FileComplete ==
    file.kind = "full" => CreationBlock..file.last \subseteq file.pools

\* The running bot knows every pool of the start, and every pool created
\* between the oracle's connection and its last sync.
IndexCovers ==
    proc = "run" =>
        /\ CreationBlock..currentBlock \subseteq index
        /\ oracle = "live" => (since..from) \cap Pools \subseteq index \union {since}

\* The inductive invariant of the proofs: what main() has synced, step by step,
\* is what the file and the index are made of.
IInv ==
    /\ TypeOK
    /\ CreationBlock <= head /\ currentBlock <= head
    /\ file.kind = "full" => file.last <= head
    /\ oracle = "live" => stream <= head
    /\ proc = "sync" =>
           startBlock <= currentBlock
           /\ CreationBlock..startBlock \subseteq allPools \union {startBlock}
    /\ proc \in {"truncate", "encode", "loop", "run"} =>
           CreationBlock..currentBlock \subseteq allPools
    /\ FileComplete
    /\ IndexCovers

\* "Every 50 blocks, add any new pools created": after a sync of the oracle
\* the bot knows every pool created up to the block of the sync.
IndexComplete ==
    [][OracleSync => CreationBlock..from' \subseteq index']_vars

\* While the oracle's connection holds, a pool created behind its first block
\* is added, if there are blocks enough for the next sync.
PoolAdded ==
    \A p \in CreationBlock..(MaxHead - Interval) :
        (proc = "run" /\ oracle = "live" /\ p > since /\ p <= head)
            ~> (p \in index \/ oracle # "live" \/ proc # "run" \/ since >= p)
=============================================================================
