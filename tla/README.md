# sando-rs in TLA+

sando-rs is a bot (`src/bot`, Rust) and a contract (`src/contract`, Huff). The
bot watches the mempool through a node, simulates every transaction that
touches a known pool on a fork of the chain held in memory, searches the
amounts that earn most around it, and sends the result to a relay as a bundle
of a frontrun, the transaction and a backrun. Frontrun and backrun call the
contract with a packed payload. This directory holds TLA+ modules of the parts
whose behaviour is hard to test, TLC runs for small instances of them, and
TLAPS proofs, for every instance, of each safety property that holds.

    tlc -workers 2 -config MCRunner.cfg MCRunner     a run
    tlapm RunnerProofs.tla                           a proof

`PROJECT.json` maps every definition to the lines it stands for, and lists the
runs, a plausible bug (mutant) for each property, the findings, the hazards
and the theorems.

## Inventory

| Component | Source (under `src/bot/src` unless named) | State | Operations | Module |
|---|---|---|---|---|
| Fork backend | `forked_db/global_backend.rs` | request maps, listeners, RPC futures, cache | poll: drain, receive, answer, park | `GlobalBackend` |
| Fork clients | `forked_db/fork_db.rs`, `fork_factory.rs` | a local `CacheDB` each | basic, storage, block_hash, commit, insert, new_sandbox_fork, drop | `ForkDB` |
| Mempool loop, simulation tasks | `runner/mod.rs`, `runner/state.rs` | snapshot of the block, a recipe | receive, prepare, spawn; search, add recipe, send | `Runner` |
| Block oracle, mega sandwiches | `runner/oracles.rs`, `types/block.rs` | latest and next block, nonce | connect, receive, update nonce, clear, publish, recover, spawn | `Runner` |
| Bundle sender | `runner/bundle_sender.rs` | pending recipes behind a lock | add_recipe, make_mega_sandwich, send_bundle | `Runner` |
| Amount search | `simulate/make_sandwich.rs` 38-228 | interval, tolerance, count | iterate, narrow, give up, return | `Search` |
| Sandwich check | `simulate/make_sandwich.rs` 243-800, `simulate/helpers.rs` | an EVM and its transaction environment | admit, frontrun, meats, backrun, report | `Sandwich` |
| Pool index | `main.rs`, `cfmm/dex.rs`, `runner/oracles.rs` 147-194 | pool map, `pools.json.zstd` | start, sync, write, loop, add pools | `PoolIndex` |
| Payloads | `utils/tx_builder/sandwich/*.rs`, `utils/constants.rs` | none | encode | `TxBuilder` |
| Contract | `src/contract/src/sandwich.huff` | its memory during a call | dispatch, swaps, recover, callback | `Payload`, `ContractMemory` |
| Amount encoding | `utils/tx_builder/sandwich/*.rs` | none | encode, decode | `Encoding` |
| Fees | `utils/mod.rs`, `runner/bundle_sender.rs` 198-420 | none | base fee, bribe | `Bundle` |
| State diffs | `utils/state_diff.rs` | none | extract pools; fill a database | `Bundle`, `ForkDB` |
| Inspectors | `simulate/inspectors/*.rs` | counters, lists | step, verdict | not modelled |
| Relay, abi, dotenv, constants | `relay.rs`, ... | none | wrappers | not modelled |

How they interact. The mempool loop asks the node for the state diff of a
transaction, finds its pools in the index, and spawns a simulation task with a
copy of the block oracle. The task makes a fork backend (a thread) and clones
of its factory; each clone sends requests over a channel and blocks on a
oneshot channel for the answer. Search spawns sixteen simulations at once, each
on a fork. The recipe goes to the bundle sender, behind a lock, and as a
payload to the relay. The block oracle shares that lock, the nonce and the
block with everybody.

What is hard in them, and what makes each correct:

- *Fork backend.* A hand-written `Future::poll` with its own queue, in its own
  thread, with blocking clients. It must not return `Pending` with work in its
  queue (lost wake-up), must answer every listener once, also with errors, must
  end with its last client, and must show all forks of one simulation one
  chain although the fork block is mined while they run.
- *Runner.* Locks held across awaits and RPCs by one task while three others
  want them; snapshots used after awaits; panics that kill a task silently. The
  order nonce, clear, publish decides whether a bundle reuses a nonce and
  whether a recipe outlives its block.
- *Search.* Unsigned arithmetic at both ends of the interval; failures of some
  of the simulations; one balance for several ingredients; termination.
- *Sandwich check.* One environment for all transactions, of which each sets
  some fields only; two passes over the ingredients that must agree although
  one of them passes over some; errors that are unwrapped.
- *From victim to bundle.* Amounts that are cut to a few bytes three times by
  two parties, with truncating arithmetic at each; fees that two places compute
  for a block which only the protocol decides; filters that must agree with
  what the simulation later accepts.
- *Pool index.* Ranges of blocks joined over crashes, reconnections and new
  bots; the file is truncated before it is written.
- *Payload and contract.* Two programs with a table of labels and offsets each,
  where one byte of difference sends every later jump astray; overlapping
  stores into a memory that earlier swaps have used.

## Modules

- `GlobalBackend` is the backend thread: `Receive`, `OnRequest` (inside
  `Receive` and the drain), `PollFuture`, `ParkOrLoop` follow `poll()` loop by
  loop; `NodeAnswers` and `BlockMined` are the node. State: `request` queue,
  listeners by key, futures, `cache`. `ForkDB` EXTENDS it with the clients: one
  action per database call up to `recv()` and one from it on, the transaction
  overlay of revm's journal, commits, `insert_*` of the factory, clones and
  drops. `SharedView` is the abstract specification: callers ask for keys and
  get the value of one growing view. `ForkDB!ImplementsSharedView` is the
  refinement.
- `Runner` is a bot: program counters of the oracle, the mempool loop, the
  simulation tasks and one mega sandwich task per block, with the locks.
- `Search` is the search; the revenue function is a constant set of profiles. What
  the search finds is stated for profiles with one peak (`Peaked`), in terms of
  the bounds that a search without revenue goes through (`Shrunk`).
- `Encoding` is the arithmetic of amounts: how far an amount is cut until it
  fits in four bytes (V2) or five (V3), what is left of it, and what is sold of
  what is left. A byte has `Pow[1]` values, 256 in the code.
- `Sandwich` EXTENDS it, and makes a recipe of raw ingredients: the admission by
  `create_optimal_sandwich` (an ingredient is kept, or not, under what
  `evaluate_sandwich_revenue` needs of its meats' tips) and `sanity_check`,
  with one action per loop body. State: the transaction environment `env`, the
  amounts `backrun_ins`, and the data of both transactions as a sequence of
  parts that know their ingredient, what a pool is asked for and what is sold.
  The fields of a transaction that no later one inherits, state diffs and
  revenue are left out; what the pools quote and the contracts answer is a
  choice.
- `Bundle` EXTENDS `Sandwich` with what is before and behind it: a task is a
  victim from the mempool, which `Try` or `Ignore` pass on or drop by its fees
  and the pools that its state diff touches, or the recipes of a block. `Make`
  is a step of the sandwich; what it earns and uses is one of `Reports`.
  `SendBundle` computes the bribe, with the next block's base fee as
  `NextBaseFee` estimates it, and `ProtocolBaseFee` is what EIP-1559 makes of
  it.
- `PoolIndex` is start-up, execution loop and oracle of the pools. Every block
  creates one pool.
- `TxBuilder` has the encoders of the bot and of the contract's tests. Calldata
  is a sequence of bytes that know which field they belong to; labels, memory
  offsets and shifts have their values.
- `ContractMemory` is the memory of a call: stores of 32 bytes at any offset,
  which overlap, and the data of a call that is cut out of it. Bytes are tags of
  where they come from.
- `Payload` is the contract as a machine that reads calldata at the offsets of
  its handlers, stores what they store, and calls tokens and pools with what its
  memory holds then. A V3 pool answers with two words, each one of `Returned`,
  which the call has written over the first 64 bytes (`Answered`). The contract
  compares one of them with the amount it asked for: that check is the choice
  between `Succeed` and `Fail`. What a call should ask is put together by the
  rules of Solidity's ABI; `WrittenAlike` are the payloads that both encoders write with
  the same bytes.

An operator named after another one and commented "faulty variant" is a
plausible bug of it: it is used by no specification, only to see that a
property would find it.

## Runs

| Run | Config | Bounds | Shows |
|---|---|---|---|
| fork_backend | MCForkDB | two factories and a fork, two accounts (one injected), one slot | requests held once, one fetch per key, no lost wake-up, nobody abandoned, no made-up account, one chain for all copies; the inductive invariant |
| fork_live | MCForkDBLive | a factory and a fork, one account, a slot, a block hash | calls return, the thread ends; implements `SharedView` |
| runner | MCRunner | one simulation task, two new blocks | locks, nonces, clear and publish in order; blocks published, tasks end |
| runner_stale | MCRunnerStale | the same | finding: recipes of a mined block in a mega sandwich |
| search | MCSearch | 33 amounts, one ingredient with every peak and cliff or two with some of them, four sets of failures | no underflow, stakes within the balance, the peak is found, the search ends; the inductive invariant |
| pools | MCPoolIndex | five blocks, log ranges of two, interval of two | the file is complete up to its block, the index covers what was asked for, new pools are added while the connection holds; the inductive invariant |
| pools_gap | MCPoolIndexGap | the same | finding: pools between connections are lost |
| payload | MCPayload | all mixes of up to three ingredients of both encoders, both directions, both callers, amounts cut by nothing or by most, V3 pools that answer with words of no byte or of all, block distances 0, 1, 255, 256 | all swaps or none for what both write alike, never half a sandwich, nothing in other blocks, every call of the handlers but two asks what is meant |
| payload_multi, payload_v3_input | MCPayloadMulti, MCPayloadV3Input | the same, of one kind of payload | findings: payloads the contract cannot read |
| payload_memory | MCPayloadMemory | the same, backruns of V2 pools | finding: a swap is asked for more than the payload says |
| bundle | MCBundle | one or two ingredients of up to two meats each, shared or not, of three kinds of fees; one meat from the mempool, with a price below the base fee or a tight gas limit too, one or two pools touched; bytes of four values, one shift, three quotes, two stakes; blocks of up to seven gas and fees up to 21 | no panic over a leftover tip, the backrun sells what was bought but for some dust, the bundle has each good meat once, costs less than it earns, and offers the next base fee, or one less where a step rounds to nothing; a victim let through is not refused; the inductive invariant of the sandwich |

Why the bounds are enough. Two factories and a fork are the least with a
request in flight that another one joins, a clone dropped meanwhile, and two
set-ups of one account that race; more of them join the same listeners, and
the proofs hold for any number. One simulation task is in any phase while the
oracle and the mega sandwiches of two blocks run: a recipe that outlives its
block and a mega sandwich that overruns the next block need no more, and the
proofs hold for any number of tasks and blocks. The
search has fifteen cuts: with thirty-two amounts its intervals shrink below
the number of cuts, where the rounding happens; the balance of a bot only adds
iterations before. `GiveUp` is 10 in the code and 3 here, since the small
interval is used up before ten iterations without revenue; `GiveUpAssumption`
relates it to the tolerance in both. Five blocks with an
interval of two give two syncs and a gap. Two ingredients of two meats have a
meat that both share with another one between its runs, a legacy meat behind
one with a tip, and a stake passed over before one that is not; the quotes and
stakes are nothing, something that is cut, something that is not and something
that does not fit; the blocks are below, at and above their target, one
with a step that rounds to nothing; and the proofs hold for any of them. A payload's third ingredient is the
first that follows a "next" handler from a "next" handler.

Bounds by name: `MaxHead` (Runner, PoolIndex), `MaxParts`, `Shifts` and
`Returned` (MCPayload), `MaxIngredients`, `MaxMeats`, `MaxFeeOfParent`, `MaxLimit`, `Quotes`,
`Stakes`, `Shares` and `Unit` (MCBundle), `GiveUp`, `Balance` and `PeakStep`
(Search), the sets of clients, keys, tasks and pools. `MaxShift` is 15 in the
code, where the next power of 256 no longer fits in 128 bits, 1 in MCBundle and 11 in
`TxBuilder`, which is enough for the reserves of a V2 pool.
Symmetry is used over factories, in a run without liveness.

## Fairness

- `ForkDB!FairSpec`: the backend thread is scheduled (weak fairness of its
  step), the node answers or fails every request (an RPC over a websocket ends
  in one of both), and clients whose answer is there go on. Nothing obliges a
  client to start a call. That a thread is parked until woken is part of the
  step, not of fairness.
- `Runner!FairSpec`: the tasks are polled. Steps that wait for a tokio RwLock
  have strong fairness: the lock queues its waiters first come first served,
  so a waiter gets it if it comes free again and again. Connections may be
  lost at any time; nothing obliges a mempool transaction to come.
- `Search!FairSpec`: one task that waits only for its simulations.
- `PoolIndex!FairSpec`: the chain grows, main and oracle are polled; nothing
  obliges a connection to hold.

## Theorems

Proved by TLAPS for every value of the constants that satisfies the module's
assumptions (`ForkDB`: sets of clients, keys and initial keys; `Runner`: any
sets of tasks and pools, any last block; `Search`: any balance, any number of
ingredients, any revenues where a swap of nothing earns nothing, any failures, a tolerance
below the last interval before the search is given up;
`PoolIndex`: any chain, span of a query and interval; `Encoding`: any powers,
of which a larger one is a multiple of a smaller one, and any widths;
`Sandwich`: any ingredients, meats, quotes, stakes and base fee, where a hash
stands for one transaction; `Bundle`: any tasks, blocks, reports and shares;
`Payload`: any payloads of either encoder, of any number of ingredients, any
distances of blocks, and any words that pools answer with).

- `SequenceFacts` has what more than one of them needs: a set of numbers has a
  least one, a set with its first number and the successors of its numbers has
  them all, a function defined by recursion exists (`RecursionExists`), and where
  in a `FlattenSeq` each of the sequences starts (`FlattenAt`).
- `ForkDBProofs`: `Invariance` is `Spec => []IInv`. `BackendInv` adds to the
  checked invariants that a key is in the futures exactly when it has
  listeners, that every listener is a client which waits for that key, that a
  client waits in at most one place (queue, listeners, or answer), that cached
  keys have no future, and that the backend is parked only with an empty queue;
  `ClientInv` relates a client's program counter to its request and its local
  tables to the cache. None of the safety properties is inductive without
  them: that a request is held once needs to know where its client is. From it
  follow `TypesHold`, `RequestsHeldOnce`, `OneFetch`, `WakeupsKept`,
  `NoneAbandoned`, `NoAccountMadeUp`, `Agreement`, and `Stability`
  (an action property: a cached value never changes).
  `Refinement` is `Spec => ImplementsSharedView`, with one lemma per action that
  serves, asks or takes, and stuttering elsewhere.
- `RunnerProofs`: `Invariance` is `Spec => []IInv`, where `OracleOrder` ties
  the oracle's program counter to what it has received, published and spawned
  and `SnapOld` bounds the snapshots. From it follow `TypesHold`,
  `LockReleased`, `MegaInOrder`, `NonceFresh`, and the action properties
  `StableRecipes` and `ClearSpares`.
- `SearchProofs`: `AccountsInvariance` says that the search for an ingredient
  stays within what is left of the balance, and that what is left and what the
  ingredients before use are the balance. `CutsInOrder` bounds the cuts of
  an interval and orders them, through the truncating division, so that the
  right neighbour of a best cut with revenue is not zero (`NoPanicHolds`).
  `StakesWithinBalanceHolds` needs the total of the amounts, a recursive
  function, and what one more amount adds to it.
  `Invariance` is `Spec => []IInv`, which adds `Bracketed`: an undisturbed search
  has had no revenue so far, with nothing above its interval (`Shrinking`), or
  has the peak in its interval (`Narrowing`). An interval of fewer amounts than
  cuts has every amount as a cut (`SmallCut`), so that the best one is the peak
  itself; in a larger one the cuts differ by one at least, and the neighbours of
  the best one enclose the peak (`NarrowKeeps`). Neighbours may coincide, and then
  the next interval is empty: the invariant says that the peak has been found.
  A cut without revenue leaves nothing beyond it, which is what a third of
  the interval keeps (`ShrinkKeeps`). `FindsPeakHolds` follows. `CodeGivesUp` shows
  that the million and the ten of the code satisfy `GiveUpAssumption`.
- `PoolIndexProofs`: `Invariance` is `Spec => []IInv`. `SyncedCovers` says that
  the log queries of a range leave no block out, whatever the span. The rest of
  `IInv` says where the pools of which range are, from the file through the
  sync to the bot. `FileCompleteHolds` and `IndexCoversHolds` follow.
- `SandwichProofs`: `Invariance` is `Spec => []IInv`. `Steps` says what the
  ingredients so far have added to the data: each its own part, with the
  amounts that its quote encodes to, or, when one was passed over, fewer
  amounts than ingredients (`Bought`); and that the backrun has added a part for
  each (`Sold`). A backrun that comes to its end has had an amount for every
  ingredient, so that none was passed over: this is `MatchedHolds`, and with the
  facts about amounts, `KeepsDustHolds`. These are `AsksAtMostTheQuote` and
  `SellsLess`, for every amount: a number that is cut and put back, however often,
  never grows, and one less of the last byte that is kept is less than all that
  the contract asks for. `Tips` says that a tip above
  the base fee is always followed by another tip of the same ingredient, since
  the search ran into the same error otherwise; `TipNeverPanicsHolds` follows.
  `Hashes` says of which meats the good ones so far come and in which order, run
  by run, so that after sort and dedup each is in the bundle once
  (`BundleMeatsHolds`): sorted is stated as what `sort` returns, dedup as the
  removal of neighbours that are equal.
  About the bundle, `BundleIsSandwich` is `BundleSpec => Spec`, so that all of
  this holds of a bundle. `BundleInv` relates the sandwich to its
  task. `BidWithinMeansHolds`, `FrontFeeExactHolds` and
  `VictimNotRefusedHolds` follow: that a share divided by the gas and multiplied
  again is less than the means, that the estimate of the base fee is the
  protocol's but for its smallest step (`EstimateIsProtocols`), and that a legacy
  victim, which inherits a tip, was dropped before.
- `PayloadProofs`: where each field of a payload begins in the calldata that an
  encoder writes (`PartsLaid`, `CalldataLaid`, from the widths of the fields), and
  that the offsets of each handler are those places, from the base that the
  handler before it leaves on the stack (`ReadsWell`, `GoesOn`). The invariant
  `Track` says that the contract is at the gate of an ingredient, with the
  position that its handler counts from, when exactly the ingredients before it
  are swapped, and at the end when all are; that a call which ended has made all
  of them or none; and that only a payload of the bot's own goes astray (`Own`: of
  several ingredients, or with the amount of five bytes). `AlikeAllOrNothingHolds`,
  `NeverHalfHolds` and `OnlyInItsBlockHolds` follow, the first because the bot's own
  payloads differ from the tests' in their last byte or their length
  (`BotDiffers`).
- `CallProofs`: `InvHolds` is `Spec => []Inv`, where `Inv` is `Track`, the types, the
  property itself, and `Fresh`: memory is empty until the first swap. From it
  follow `OthersAskWhatIsMeantHolds` and `TypeOKHolds`. The property alone is not
  inductive: what a handler stores depends on which ingredient's fields it reads
  (`Track`), and a handler for the first swap clears nothing (`Fresh`). Memories,
  words and the data of calls are functions, so that the argument goes byte by byte
  (`Cell`). A store decides 32 bytes and leaves the others (`CellOfStore`), and
  `SliceIsAbi` says when a part of memory is what Solidity encodes. For each kind
  of call there is then what memory holds at each offset, in terms of an
  arbitrary memory before it: `TransferFromData`, `SwapInData`, `TransferData`,
  `SwapOutData`, `SwapOut0Data`, `SwapOut1Data` and `V3Data`, for every shift of an
  amount. Their hypothesis is the part of memory that has to be blank when the
  handler does not clear it: `SwapOut1Data` needs bytes 64 to 67, which is where
  finding 4 is, and has them for a shift of four at least. `LoadShown` says that
  what a handler loads is the value of the field it means, from the offsets of
  `PayloadProofs`; `Meant` that the calls are those the ingredient wants.
  `CallsMeant` has the fifteen handlers together. Nothing is assumed about what an
  earlier swap left, its stores and the answer of its pool: the handlers that
  come second clear or write every byte that their calls are given. An answer of
  any two words stays within the memory (`BoundedAnswer`).

`FrontFeeExact` holds of every block, and names those where the estimate falls
short (`RoundsAway`): behind a fuller block the protocol raises the base fee by one
at least, and the code by nothing if the fee times the gas above the target is
less than eight targets. With a target of 15 million gas that takes a base fee
below 0.12 gwei. The frontrun offers exactly the estimate, and could not be
included then.

Only model-checked: all liveness properties, since fairness and ENABLED are
beyond the prover.

## Findings

1. Recipes enter the store after it was cleared for their block (runner_stale).
2. Pools created before a connection of the oracle, after the last sync, are
   never added (pools_gap).
3. Payloads of several ingredients, and the frontrun of a V3 pool, are not what
   the contract reads (payload_multi, payload_v3_input). The bot's labels for
   the end, for `prepare_stack` and for recover are those of the older contract
   code in `utils/constants.rs`, which takes no block number either.
4. The backrun of a V2 pool whose second token is WETH leaves bytes of the
   amount in in memory, where the amount out ends, when the amount in was cut by
   less than four bytes (payload_memory).

Visible in the models without a run of their own: `Database::storage` fetches
the account again and overwrites what the fork holds, a committed balance and
nonce included (`ForkDB!StorageInfoReturn`); the recover transaction of
the bot is one byte, which ends as a callback and recovers nothing
(`Payload!RecoverFields`, `Callback`); the block oracle's connection attempt is
unwrapped inside the loop that is to reconnect, so that its first failure ends
the task (`Runner!OracleConnect`); a failed simulation counts as no revenue, so
that the search may answer `Ok` with less than it has seen (`Search!Revenue`);
an ingredient whose stake encodes to zero ends the task, by an index past the
end of `backrun_ins` (`Sandwich!BackrunPartPanics`); a database error, or too
little for the gas, is unwrapped where the access lists are made, although the
comment above `sanity_check` promises an error (`FrontrunPanics`,
`BackrunPanics`); a victim whose tip exceeds the base fee is never sandwiched,
since the backrun of the search inherits its tip (`Evaluates`); a legacy victim
from the mempool never either, since the filter takes its missing fee for zero
(`Bundle!Includable`); a transaction that touches a known pool without a change
of its WETH is dropped with all its other pools, where the comment above
`extract_pools` has None for empty diffs only (`Bundle!Sandwichable`); `v3_input0`
of the contract takes five bytes of amount where its tests write four
(`Payload!LeavesBytes`); the WETH of a V3 swap in a payload of several has four
bytes, fewer than `encode_weth` keeps of an amount above 2^64 wei
(`TxBuilder!V3Multi`); the frontrun's fee is one wei short of the protocol's where a
step of the base fee rounds to nothing (`Bundle!RoundsAway`); the bot goes on beside
a file of pools that is not complete when the encoder fails, and its next start
ends with an error (`PoolIndex!EncodeNothing`, `StartOnPartialFile`).

Not in a model: the verdict of the Salmonella inspector never depends on its
counters of GAS and CALL opcodes, which only lengthen the list that goes with a
verdict that other opcodes have brought about, and it compares them the other
way round than the comment above it says.

## How it grows

What would come next, in order of weight: `Sandwich` composed with `Search`, so
that the stakes of a sandwich are those which the search returned, where they
are now any; the token transfer in the callback of a V3 pool, and arbitrage, in
`Payload`; the amounts behind the calls of `Payload`, from `Encoding`.

## Not modelled

The EVM itself and the pools' arithmetic (revm and deployed contracts): a
simulation is a choice or a profile. With it the inspectors, which watch its
opcodes: their verdict is one of the ways a simulated transaction fails, and the
access list a field of the environment. What the amounts are worth that a V3 pool
returns. The narrowing of a V3 pool's amounts to 128 bits, which panics for a larger
one: the model panics where no shift is small enough (`FrontrunPartPanics`), which
is the same end at a larger amount, and goes on in between. The token transfer inside a V3 pool's
callback, arbitrage, seppuku and deposit of the contract. The two traces of the
node behind a state diff, which are choices, and the merging of several diffs,
which its only caller never asks for. The decoding of the events that create
pools. The relay's protocol and signatures. The dust search at start-up, whose
result nothing reads. Configuration, bindings, logging, deployment scripts and
vendored libraries. The oracles and tasks of an earlier bot, which run on after
its mempool stream ended, write to state nobody reads.
