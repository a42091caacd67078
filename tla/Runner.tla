------------------------------- MODULE Runner -------------------------------
(***************************************************************************)
(* One running Bot (src/bot/src/runner): the mempool loop of Bot::run, the *)
(* simulation tasks it spawns, the block oracle task, and the mega         *)
(* sandwich task that the oracle spawns for every block.  They share       *)
(*   - the BundleSender behind one RwLock that is only taken for writing,  *)
(*     and that a mega sandwich holds across its whole search,             *)
(*   - the searcher's nonce behind an RwLock that the oracle holds for     *)
(*     writing across an RPC,                                              *)
(*   - the BlockOracle and the cached WETH balance, locked for one read or *)
(*     one write at a time.                                                *)
(* A step is what a task does between two points where another task can    *)
(* run and matter.  A panic kills its task only and releases its locks     *)
(* (tokio's locks are not poisoned); a panic of the mempool loop ends the  *)
(* process and is left to the module of the execution loop.                *)
(***************************************************************************)
EXTENDS Naturals, FiniteSets

CONSTANTS Sims,     \* simulation tasks that can be alive at once
          Pools,    \* pools with a WETH side
          MaxHead   \* bound: the last block the chain produces

ASSUME RunnerAssumption == MaxHead \in Nat \ {0}

Start == 1          \* the head when the bot is created
Blocks == 0..MaxHead
NewBlocks == Start + 1..MaxHead      \* blocks the oracle can be given
Targets == 0..MaxHead + 1
Free == <<"free">>
Oracle == <<"oracle">>
Mega(b) == <<"mega", b>>

Recipes == [pool : Pools, target : Targets]
NoSnap == 0         \* no transaction at hand

VARIABLES
    head,       \* the chain's head
    oracle,     \* pc of the block oracle task
    seen,       \* last block its stream delivered
    latest,     \* BlockOracle: latest_block.number; next_block is latest + 1
    nonceAt,    \* SandwichMaker.nonce, as the block it was read at
    nonceHeld,  \* the oracle holds the nonce lock for writing
    rich,       \* BotState.weth_balance > 4.5 ETH
    lock,       \* who holds the BundleSender
    pending,    \* BundleSender.pending_sandwiches
    mega,       \* mega[b]: the task spawned for block b
    mempool,    \* pc of the mempool loop
    snap,       \* its clone of latest for the transaction at hand
    sim         \* sim[s]: a spawned simulation task

vars == <<head, oracle, seen, latest, nonceAt, nonceHeld, rich, lock, pending,
          mega, mempool, snap, sim>>

OraclePC == {"connect", "stream", "nonce", "rpc", "clear", "publish",
             "recover", "spawn", "dead"}
MegaPC == {"none", "sleep", "want", "build", "search", "send", "done"}
NoSim == [st |-> "free"]
SimState == {NoSim}
            \cup [st : {"search", "want", "send"}, pool : Pools, target : Targets]

TypeOK ==
    /\ head \in Blocks
    /\ oracle \in OraclePC
    /\ seen \in Blocks
    /\ latest \in Blocks
    /\ nonceAt \in Blocks
    /\ nonceHeld \in BOOLEAN
    /\ rich \in BOOLEAN
    /\ lock \in {Free} \cup {Mega(b) : b \in NewBlocks}
    /\ pending \subseteq Recipes
    /\ mega \in [NewBlocks -> MegaPC]
    /\ mempool \in {"idle", "prepare", "spawn"}
    /\ snap \in Blocks
    /\ sim \in [Sims -> SimState]

(***************************************************************************)
(* Bot::new: the nonce is read before the block oracle, so a block may     *)
(* come between the two; then run() spawns the oracle task.                *)
(***************************************************************************)
Init ==
    /\ head = Start
    /\ oracle = "connect"
    /\ seen = Start
    /\ latest = Start
    /\ nonceAt \in {Start - 1, Start}
    /\ nonceHeld = FALSE
    /\ rich \in BOOLEAN
    /\ lock = Free
    /\ pending = {}
    /\ mega = [b \in NewBlocks |-> "none"]
    /\ mempool = "idle"
    /\ snap = NoSnap
    /\ sim = [s \in Sims |-> NoSim]

\* the chain (external)
NewBlock ==
    /\ head < MaxHead
    /\ head' = head + 1
    /\ UNCHANGED <<oracle, seen, latest, nonceAt, nonceHeld, rich, lock,
                   pending, mega, mempool, snap, sim>>

----------------------------------------------------------------------------
(* The block oracle task                                                   *)

\* create_websocket_client + subscribe_blocks: both unwrap, so a failure
\* ends the task; blocks mined before the subscription are not delivered
OracleConnect ==
    /\ oracle = "connect"
    /\ \/ oracle' = "stream" /\ seen' = head
       \/ oracle' = "dead" /\ UNCHANGED seen
    /\ UNCHANGED <<head, latest, nonceAt, nonceHeld, rich, lock, pending, mega,
                   mempool, snap, sim>>

\* the websocket connection is lost: next() returns None
OracleDisconnect ==
    /\ oracle = "stream"
    /\ oracle' = "connect"
    /\ UNCHANGED <<head, seen, latest, nonceAt, nonceHeld, rich, lock, pending,
                   mega, mempool, snap, sim>>

\* faulty variants: the nonce is not updated for the block; the block is
\* published as soon as it arrives
OracleReceiveAs(pc, published) ==
    /\ oracle = "stream"
    /\ seen < head
    /\ seen' = seen + 1
    /\ latest' = published
    /\ oracle' = pc
    /\ UNCHANGED <<head, nonceAt, nonceHeld, rich, lock, pending, mega,
                   mempool, snap, sim>>
OracleReceiveSkipsNonce == OracleReceiveAs("clear", latest)
OracleReceivePublishes == OracleReceiveAs("nonce", seen + 1)

\* the stream delivers the next block
OracleReceive ==
    /\ oracle = "stream"
    /\ seen < head
    /\ seen' = seen + 1
    /\ oracle' = "nonce"
    /\ UNCHANGED <<head, latest, nonceAt, nonceHeld, rich, lock, pending, mega,
                   mempool, snap, sim>>

\* update_searcher_nonce: the lock is taken before the connection is made
OracleLockNonce ==
    /\ oracle = "nonce"
    /\ nonceHeld' = TRUE
    /\ oracle' = "rpc"
    /\ UNCHANGED <<head, seen, latest, nonceAt, rich, lock, pending, mega,
                   mempool, snap, sim>>

\* faulty variant: a failed update leaves the nonce locked
OracleUpdateNonceLeaks ==
    /\ oracle = "rpc"
    /\ \/ nonceHeld' = FALSE /\ nonceAt' = head /\ oracle' = "clear"
       \/ oracle' = "dead" /\ UNCHANGED <<nonceHeld, nonceAt>>
    /\ UNCHANGED <<head, seen, latest, rich, lock, pending, mega, mempool,
                   snap, sim>>

\* ... and held until the node has answered, or the task has panicked
OracleUpdateNonce ==
    /\ oracle = "rpc"
    /\ nonceHeld' = FALSE
    /\ \/ nonceAt' = head /\ oracle' = "clear"
       \/ oracle' = "dead" /\ UNCHANGED nonceAt
    /\ UNCHANGED <<head, seen, latest, rich, lock, pending, mega, mempool,
                   snap, sim>>

\* faulty variant: the block is not published after the recipes are cleared
OracleClearOnly ==
    /\ oracle = "clear"
    /\ lock = Free
    /\ pending' = {}
    /\ oracle' = "recover"
    /\ UNCHANGED <<head, seen, latest, nonceAt, nonceHeld, rich, lock, mega,
                   mempool, snap, sim>>

\* clear all recipes, under the BundleSender's lock
OracleClear ==
    /\ oracle = "clear"
    /\ lock = Free
    /\ pending' = {}
    /\ oracle' = "publish"
    /\ UNCHANGED <<head, seen, latest, nonceAt, nonceHeld, rich, lock, mega,
                   mempool, snap, sim>>

\* update_block_number, update_block_timestamp, update_base_fee
OraclePublish ==
    /\ oracle = "publish"
    /\ latest' = seen
    /\ oracle' = "recover"
    /\ UNCHANGED <<head, seen, nonceAt, nonceHeld, rich, lock, pending, mega,
                   mempool, snap, sim>>

\* above the threshold, a transaction unwraps WETH; send_transaction(..)
\* .unwrap() ends the task if the node refuses it
OracleRecover ==
    /\ oracle = "recover"
    /\ oracle' \in IF rich THEN {"spawn", "dead"} ELSE {"spawn"}
    /\ UNCHANGED <<head, seen, latest, nonceAt, nonceHeld, rich, lock, pending,
                   mega, mempool, snap, sim>>

\* spawn the task that will make the mega sandwich for the next block
OracleSpawnMega ==
    /\ oracle = "spawn"
    /\ mega' = [mega EXCEPT ![seen] = "sleep"]
    /\ oracle' = "stream"
    /\ UNCHANGED <<head, seen, latest, nonceAt, nonceHeld, rich, lock, pending,
                   mempool, snap, sim>>

----------------------------------------------------------------------------
(* The mega sandwich task of block b; its target is b + 1                  *)

\* the 10.5 seconds are over
MegaWake(b) ==
    /\ mega[b] = "sleep"
    /\ mega' = [mega EXCEPT ![b] = "want"]
    /\ UNCHANGED <<head, oracle, seen, latest, nonceAt, nonceHeld, rich, lock,
                   pending, mempool, snap, sim>>

\* bundle_sender.write(): held until make_mega_sandwich returns
MegaLock(b) ==
    /\ mega[b] = "want"
    /\ lock = Free
    /\ lock' = Mega(b)
    /\ mega' = [mega EXCEPT ![b] = "build"]
    /\ UNCHANGED <<head, oracle, seen, latest, nonceAt, nonceHeld, rich,
                   pending, mempool, snap, sim>>

\* faulty variant: a mega sandwich ends without giving the lock back
MegaEndLocked(b) ==
    /\ lock' = lock
    /\ mega' = [mega EXCEPT ![b] = "done"]

MegaEnd(b) ==
    /\ lock' = Free
    /\ mega' = [mega EXCEPT ![b] = "done"]

\* the ingredients are made from all recipes and a fork is set up on them:
\* the client and to_cache_db unwrap
MegaBuild(b) ==
    /\ mega[b] = "build"
    /\ \/ /\ mega' = [mega EXCEPT ![b] = "search"]
          /\ UNCHANGED lock
       \/ MegaEnd(b)
    /\ UNCHANGED <<head, oracle, seen, latest, nonceAt, nonceHeld, rich,
                   pending, mempool, snap, sim>>

\* create_optimal_sandwich: an error or no revenue ends the task; without a
\* recipe there is no ingredient and the search ends in ZeroOptimal
MegaSearch(b) ==
    /\ mega[b] = "search"
    /\ \/ /\ pending # {}
          /\ mega' = [mega EXCEPT ![b] = "send"]
          /\ UNCHANGED lock
       \/ MegaEnd(b)
    /\ UNCHANGED <<head, oracle, seen, latest, nonceAt, nonceHeld, rich,
                   pending, mempool, snap, sim>>

\* send_bundle reads the nonce when it signs the two slices for its target;
\* from then on only relays and the log see what becomes of the bundle
SignBundle == ~nonceHeld

MegaSend(b) ==
    /\ mega[b] = "send"
    /\ SignBundle
    /\ MegaEnd(b)
    /\ UNCHANGED <<head, oracle, seen, latest, nonceAt, nonceHeld, rich,
                   pending, mempool, snap, sim>>

----------------------------------------------------------------------------
(* The mempool loop                                                        *)

\* a transaction arrives; the block oracle is cloned once for it
MempoolReceive ==
    /\ mempool = "idle"
    /\ snap' = latest
    /\ mempool' = "prepare"
    /\ UNCHANGED <<head, oracle, seen, latest, nonceAt, nonceHeld, rich, lock,
                   pending, mega, sim>>

\* one of the `continue`s: fee too low, no sender, no diff, no pool
MempoolSkip ==
    /\ mempool = "prepare"
    /\ mempool' = "idle"
    /\ snap' = NoSnap
    /\ UNCHANGED <<head, oracle, seen, latest, nonceAt, nonceHeld, rich, lock,
                   pending, mega, sim>>

\* state diffs, touched pools and a fork are ready: update_weth_balance
MempoolReady ==
    /\ mempool = "prepare"
    /\ rich' \in BOOLEAN
    /\ mempool' = "spawn"
    /\ UNCHANGED <<head, oracle, seen, latest, nonceAt, nonceHeld, lock,
                   pending, mega, snap, sim>>

\* a task for one of the pools it buys from with WETH
MempoolSpawn(s, p) ==
    /\ mempool = "spawn"
    /\ sim[s] = NoSim
    /\ sim' = [sim EXCEPT ![s] = [st |-> "search", pool |-> p, target |-> snap + 1]]
    /\ UNCHANGED <<head, oracle, seen, latest, nonceAt, nonceHeld, rich, lock,
                   pending, mega, mempool, snap>>

MempoolNext ==
    /\ mempool = "spawn"
    /\ mempool' = "idle"
    /\ snap' = NoSnap
    /\ UNCHANGED <<head, oracle, seen, latest, nonceAt, nonceHeld, rich, lock,
                   pending, mega, sim>>

----------------------------------------------------------------------------
(* A simulation task                                                       *)

\* the search ends: with a profitable recipe, or with nothing (or a panic)
SimSearch(s) ==
    /\ sim[s].st = "search"
    /\ \/ sim' = [sim EXCEPT ![s].st = "want"]
       \/ sim' = [sim EXCEPT ![s] = NoSim]
    /\ UNCHANGED <<head, oracle, seen, latest, nonceAt, nonceHeld, rich, lock,
                   pending, mega, mempool, snap>>

\* faulty variant: recipes are added without the BundleSender's lock
SimAddRecipeUnlocked(s) ==
    /\ sim[s].st = "want"
    /\ pending' = pending \cup {[pool |-> sim[s].pool, target |-> sim[s].target]}
    /\ sim' = [sim EXCEPT ![s].st = "send"]
    /\ UNCHANGED <<head, oracle, seen, latest, nonceAt, nonceHeld, rich, lock,
                   mega, mempool, snap>>

\* add_recipe under the BundleSender's lock
SimAddRecipe(s) ==
    /\ sim[s].st = "want"
    /\ lock = Free
    /\ pending' = pending \cup {[pool |-> sim[s].pool, target |-> sim[s].target]}
    /\ sim' = [sim EXCEPT ![s].st = "send"]
    /\ UNCHANGED <<head, oracle, seen, latest, nonceAt, nonceHeld, rich, lock,
                   mega, mempool, snap>>

\* the spawned send_bundle, for the next block of the snapshot
SimSend(s) ==
    /\ sim[s].st = "send"
    /\ SignBundle
    /\ sim' = [sim EXCEPT ![s] = NoSim]
    /\ UNCHANGED <<head, oracle, seen, latest, nonceAt, nonceHeld, rich, lock,
                   pending, mega, mempool, snap>>

----------------------------------------------------------------------------
OracleStep ==
    \/ OracleReceive \/ OracleLockNonce \/ OracleUpdateNonce \/ OracleClear
    \/ OraclePublish \/ OracleRecover \/ OracleSpawnMega
MegaStep(b) == MegaWake(b) \/ MegaLock(b) \/ MegaBuild(b) \/ MegaSearch(b) \/ MegaSend(b)
MempoolStep == MempoolReceive \/ MempoolSkip \/ MempoolReady \/ MempoolNext
SimStep(s) == SimSearch(s) \/ SimAddRecipe(s) \/ SimSend(s)

Next ==
    \/ NewBlock
    \/ OracleConnect \/ OracleDisconnect \/ OracleStep
    \/ \E b \in NewBlocks : MegaStep(b)
    \/ MempoolStep
    \/ \E s \in Sims, p \in Pools : MempoolSpawn(s, p)
    \/ \E s \in Sims : SimStep(s)

Spec == Init /\ [][Next]_vars

(***************************************************************************)
(* Fairness: every task that can run does.  The tokio RwLock queues its    *)
(* waiters first come first served, so a task that waits for the           *)
(* BundleSender or for the nonce while others take and release them in     *)
(* turn gets its turn: hence strong fairness.  Nothing is assumed of the   *)
(* chain, of the mempool or of when a connection is lost.                  *)
(***************************************************************************)
Fairness ==
    /\ WF_vars(OracleConnect)
    /\ SF_vars(OracleStep)
    /\ \A b \in NewBlocks : SF_vars(MegaStep(b))
    /\ \A s \in Sims : SF_vars(SimStep(s))

FairSpec == Spec /\ Fairness

----------------------------------------------------------------------------
(* Properties                                                              *)

\* The BundleSender's lock is held exactly by the mega sandwich that is being
\* made: it is released on every way out, and two are never made at once.
LockHeldByRunningMega ==
    \A b \in NewBlocks : mega[b] \in {"build", "search", "send"} <=> lock = Mega(b)

\* Nobody adds or clears recipes while a mega sandwich is made from them.
MegaReadsStableRecipes ==
    [][lock # Free => pending' = pending]_vars

\* A bundle for the block after b is signed with a nonce read at b or later:
\* the oracle updates the nonce before it publishes b, and a mega sandwich is
\* spawned after both.  The block the bot started at is excepted, as its nonce
\* was read before the block oracle was.
NonceNotOlderThanTarget ==
    /\ \A b \in NewBlocks : mega[b] = "send" => nonceAt >= b
    /\ \A s \in Sims : sim[s].st = "send" /\ sim[s].target > Start + 1
                         => nonceAt + 1 >= sim[s].target

\* Clearing the recipes for a new block never throws away one that was made
\* for the block after it: recipes go before the block is published.
ClearSparesNextBlock ==
    [][\A r \in pending : r \notin pending' => r.target <= seen]_vars

\* A mega sandwich is made only after the recipes of its block were cleared
\* and the block published, and no recipe is ahead of the published block.
MegaAfterPublish ==
    /\ \A b \in NewBlocks : mega[b] # "none" => b <= latest
    /\ \A r \in pending : r.target <= latest + 1
    /\ \A s \in Sims : sim[s] # NoSim => sim[s].target <= latest + 1

\* A block that the oracle took from its stream is published, or the oracle
\* has died on the way; a mega sandwich cannot hold it up for ever.
BlockPublished ==
    (oracle \in {"nonce", "rpc", "clear", "publish"})
        ~> (oracle \in {"recover", "dead"})

\* Every mega sandwich that was spawned and every simulation task comes to an
\* end, whatever locks it has to wait for.
TasksEnd ==
    /\ \A b \in NewBlocks : (mega[b] = "sleep") ~> (mega[b] = "done")
    /\ \A s \in Sims : (sim[s] # NoSim) ~> (sim[s] = NoSim)

----------------------------------------------------------------------------
(* The inductive invariant behind the safety properties: the order in      *)
(* which the oracle updates the nonce and publishes a block.               *)

\* between OracleReceive and OraclePublish the block at hand is ahead of the
\* published one, after it they are the same and have no mega sandwich yet;
\* the nonce is read in between
OracleOrder ==
    /\ Start <= latest /\ latest <= seen /\ seen <= head /\ nonceAt <= head
    /\ oracle \in {"nonce", "rpc", "clear", "publish"} => latest < seen
    /\ oracle \in {"recover", "spawn"} =>
           latest = seen /\ seen \in NewBlocks /\ mega[seen] = "none"
    /\ oracle \in {"clear", "publish"} => nonceAt >= seen
    /\ latest > Start => nonceAt >= latest

\* a snapshot of the block oracle is never newer than the block oracle
SnapOld == snap <= latest

IInv ==
    /\ TypeOK
    /\ LockHeldByRunningMega
    /\ MegaAfterPublish
    /\ OracleOrder
    /\ SnapOld

----------------------------------------------------------------------------
(* What the comments and the README say, and the code does not do          *)

\* "clear all recipes" for a new block: a mega sandwich is then made of
\* recipes for its own target.
MegaUsesItsOwnRecipes ==
    \A b \in NewBlocks : mega[b] = "build" => \A r \in pending : r.target = b + 1
=============================================================================
