--------------------------- MODULE GlobalBackend ---------------------------
(***************************************************************************)
(* The fork backend of src/bot/src/forked_db/global_backend.rs: one future *)
(* on its own thread that answers state requests of many EVM instances,    *)
(* from its CacheDB when it can and otherwise from the node, fetching a    *)
(* missing key once however many clients ask for it.  The future is        *)
(* modelled at the grain of its hand written poll(): which requests have   *)
(* been received, handled, started and answered when it goes to sleep, and *)
(* what wakes it.                                                          *)
(*                                                                         *)
(* A client blocks in recv() until it is answered, so it has at most one   *)
(* request outstanding (asking[c]) and the channel, the queue and the      *)
(* listener lists are sets of clients; any order a VecDeque or a Vec could *)
(* hold them in is allowed.                                                *)
(***************************************************************************)
EXTENDS Naturals, FiniteSets

CONSTANTS Clients,     \* holders of a Sender: the factory and its forks
          Addrs,       \* accounts
          Slots,       \* storage slots of an account
          Numbers,     \* block numbers whose hash is asked for
          InitialKeys  \* keys present in initial_db (from the state diffs)

(***************************************************************************)
(* BackendFetchRequest: what can be asked for.                             *)
(***************************************************************************)
Basic(a) == <<"basic", a>>
Storage(a, i) == <<"storage", a, i>>
BlockHash(n) == <<"hash", n>>

BasicKeys == {Basic(a) : a \in Addrs}
StorageKeys == UNION {{Storage(a, i) : i \in Slots} : a \in Addrs}
HashKeys == {BlockHash(n) : n \in Numbers}
Keys == BasicKeys \cup StorageKeys \cup HashKeys

ASSUME InitialKeysAssumption ==
    /\ InitialKeys \subseteq BasicKeys \cup StorageKeys
    \* to_cache_db inserts the account before any of its slots
    /\ \A a \in Addrs, i \in Slots :
           Storage(a, i) \in InitialKeys => Basic(a) \in InitialKeys

(***************************************************************************)
(* A value is the tag of where it came from: the state diffs, the node     *)
(* before or after the fork block (next_block.number) was mined, or the    *)
(* empty account CacheDB makes up for an address it has never seen.        *)
(***************************************************************************)
NodeValue == {"pre", "post"}
Value == {"initial", "default"} \cup NodeValue
None == "none"
Failed == "err"
NoKey == <<"nokey">>

VARIABLES
    asking,      \* asking[c]: the key client c waits for in recv(), or NoKey
    reply,       \* reply[c]: what c's oneshot channel holds
    senders,     \* clients that own a live Sender
    incoming,    \* clients whose request is in the mpsc channel
    queued,      \* clients whose request is in queued_requests
    listeners,   \* listeners[k]: the *_requests entry of k (empty = no entry)
    fetch,       \* fetch[k]: the state of k's future in pending_requests
    cache,       \* cache[k]: the backend's own CacheDB
    phase,       \* where poll() is
    topoll,      \* futures the current pass over pending_requests has left
    notified,    \* the task's waker has fired since the last poll() began
    mined        \* the node has the fork block

clientVars == <<asking, senders>>
vars == <<asking, reply, senders, incoming, queued, listeners, fetch, cache,
          phase, topoll, notified, mined>>

Idle == "idle"          \* no such future
Created == "created"    \* in pending_requests, never polled: no RPC is sent
InFlight == "inflight"  \* polled: the RPC is out and the waker registered
Pending == {k \in Keys : fetch[k] # Idle}
Running == {"drain", "recv", "poll"}

BackendTypeOK ==
    /\ asking \in [Clients -> Keys \cup {NoKey}]
    /\ reply \in [Clients -> Value \cup {None, Failed}]
    /\ senders \subseteq Clients
    /\ incoming \subseteq Clients
    /\ queued \subseteq Clients
    /\ listeners \in [Keys -> SUBSET Clients]
    /\ fetch \in [Keys -> {Idle, Created, InFlight, Failed} \cup NodeValue]
    /\ cache \in [Keys -> Value \cup {None}]
    /\ phase \in Running \cup {"parked", "ended"}
    /\ topoll \subseteq Keys
    /\ notified \in BOOLEAN
    /\ mined \in BOOLEAN

BackendInit ==
    /\ asking = [c \in Clients |-> NoKey]
    /\ reply = [c \in Clients |-> None]
    /\ incoming = {}
    /\ queued = {}
    /\ listeners = [k \in Keys |-> {}]
    /\ fetch = [k \in Keys |-> Idle]
    /\ cache = [k \in Keys |-> IF k \in InitialKeys THEN "initial" ELSE None]
    /\ phase = "drain"
    /\ topoll = {}
    /\ notified = FALSE
    /\ mined \in BOOLEAN

----------------------------------------------------------------------------
(* The client's half of the channel.                                       *)

(***************************************************************************)
(* do_get_*: try_send on a fresh clone of the Sender, which always has a   *)
(* slot of its own in the channel, so it fails only once the receiver is   *)
(* gone.  The channel's waker fires if poll() has left the channel empty.  *)
(***************************************************************************)
Send(c, k) ==
    /\ asking[c] = NoKey
    /\ asking' = [asking EXCEPT ![c] = k]
    /\ IF phase = "ended"
       THEN /\ reply' = [reply EXCEPT ![c] = Failed]
            /\ UNCHANGED <<incoming, notified>>
       ELSE /\ incoming' = incoming \cup {c}
            /\ notified' = (notified \/ phase \in {"poll", "parked"})
            /\ UNCHANGED reply
    /\ UNCHANGED <<senders, queued, listeners, fetch, cache, phase, topoll, mined>>

(***************************************************************************)
(* rx.recv() returns: the answer is taken and its channel dropped.         *)
(***************************************************************************)
Recv(c) ==
    /\ asking[c] # NoKey
    /\ reply[c] # None
    /\ asking' = [asking EXCEPT ![c] = NoKey]
    /\ reply' = [reply EXCEPT ![c] = None]
    /\ UNCHANGED <<senders, incoming, queued, listeners, fetch, cache, phase,
                   topoll, notified, mined>>

(***************************************************************************)
(* A ForkDB or the ForkFactory goes out of scope, with its Sender; the     *)
(* last one closes the channel, which wakes the receiver.                  *)
(***************************************************************************)
DropSender(c) ==
    /\ c \in senders
    /\ asking[c] = NoKey
    /\ senders' = senders \ {c}
    /\ notified' = (notified \/ (senders' = {} /\ phase \in {"poll", "parked"}))
    /\ UNCHANGED <<asking, reply, incoming, queued, listeners, fetch, cache,
                   phase, topoll, mined>>

(***************************************************************************)
(* Sender::clone, for new_sandbox_fork.                                    *)
(***************************************************************************)
CloneSender(c) ==
    /\ c \notin senders
    /\ senders' = senders \cup {c}
    /\ UNCHANGED <<asking, reply, incoming, queued, listeners, fetch, cache,
                   phase, topoll, notified, mined>>

----------------------------------------------------------------------------
(* poll()                                                                  *)

(***************************************************************************)
(* CacheDB::insert_account_info / insert_account_storage / block_hashes    *)
(* .insert: writing a slot of an unknown address first asks EmptyDB for    *)
(* the account and stores the empty account it gets.                       *)
(***************************************************************************)
CacheInsert(db, k, v) ==
    [x \in DOMAIN db |->
        IF x = k THEN v
        ELSE IF /\ k[1] = "storage"
                /\ x = Basic(k[2])
                /\ db[x] = None
             THEN "default"
             ELSE db[x]]

\* faulty variant: a request in progress is noticed, a cached value is not
OnRequestUncached(c) ==
    LET k == asking[c] IN
    /\ phase = "drain"
    /\ c \in queued
    /\ queued' = queued \ {c}
    /\ listeners' = [listeners EXCEPT ![k] = @ \cup {c}]
    /\ fetch' = IF listeners[k] = {} THEN [fetch EXCEPT ![k] = Created] ELSE fetch
    /\ UNCHANGED <<asking, reply, senders, incoming, cache, phase, topoll,
                   notified, mined>>

(***************************************************************************)
(* on_request for the request at the head of queued_requests: answered     *)
(* from the cache, or added to the listeners of its key, with a new future *)
(* only when the key had no entry yet (request_account,                    *)
(* request_account_storage, request_hash).                                 *)
(***************************************************************************)
OnRequest(c) ==
    LET k == asking[c] IN
    /\ phase = "drain"
    /\ c \in queued
    /\ queued' = queued \ {c}
    /\ \/ /\ cache[k] # None
          /\ reply' = [reply EXCEPT ![c] = cache[k]]
          /\ UNCHANGED <<listeners, fetch>>
       \/ /\ cache[k] = None
          /\ listeners' = [listeners EXCEPT ![k] = @ \cup {c}]
          /\ fetch' = IF listeners[k] = {}
                      THEN [fetch EXCEPT ![k] = Created]
                      ELSE fetch
          /\ UNCHANGED reply
    /\ UNCHANGED <<asking, senders, incoming, cache, phase, topoll, notified, mined>>

\* the queue is drained: go on to the channel
StopDraining ==
    /\ phase = "drain"
    /\ queued = {}
    /\ phase' = "recv"
    /\ UNCHANGED <<asking, reply, senders, incoming, queued, listeners, fetch,
                   cache, topoll, notified, mined>>

\* poll_next = Ready(Some(req))
Receive(c) ==
    /\ phase = "recv"
    /\ c \in incoming
    /\ incoming' = incoming \ {c}
    /\ queued' = queued \cup {c}
    /\ UNCHANGED <<asking, reply, senders, listeners, fetch, cache, phase,
                   topoll, notified, mined>>

\* faulty variant: the backend returns when it has nothing left to do
ReceiveIdle ==
    /\ phase = "recv"
    /\ incoming = {}
    /\ Pending = {}
    /\ phase' = "ended"
    /\ UNCHANGED <<asking, reply, senders, incoming, queued, listeners, fetch,
                   cache, topoll, notified, mined>>

\* faulty variant: the end of the channel is skipped over
ReceiveClosedGoesOn ==
    /\ phase = "recv"
    /\ incoming = {}
    /\ senders = {}
    /\ phase' = "drain"
    /\ UNCHANGED <<asking, reply, senders, incoming, queued, listeners, fetch,
                   cache, topoll, notified, mined>>

(***************************************************************************)
(* poll_next = Ready(None): every Sender is gone and poll() returns        *)
(* Ready(()).  The backend is dropped with everything it holds; a listener *)
(* still waiting would see its oneshot channel closed (a RecvError).       *)
(***************************************************************************)
ReceiveClosed ==
    /\ phase = "recv"
    /\ incoming = {}
    /\ senders = {}
    /\ phase' = "ended"
    /\ reply' = [c \in Clients |-> IF asking[c] # NoKey /\ reply[c] = None
                                   THEN Failed ELSE reply[c]]
    /\ queued' = {}
    /\ listeners' = [k \in Keys |-> {}]
    /\ fetch' = [k \in Keys |-> Idle]
    /\ UNCHANGED <<asking, senders, incoming, cache, topoll, notified, mined>>

\* poll_next = Pending: the channel's waker is registered
ReceivePending ==
    /\ phase = "recv"
    /\ incoming = {}
    /\ senders # {}
    /\ phase' = "poll"
    /\ topoll' = Pending
    /\ UNCHANGED <<asking, reply, senders, incoming, queued, listeners, fetch,
                   cache, notified, mined>>

\* faulty variants of the poll of a future: what a listener is sent, whether
\* the entry goes, and what is cached, when it is done
PollFutureWith(k, done, kept, db) ==
    /\ phase = "poll"
    /\ k \in topoll
    /\ topoll' = topoll \ {k}
    /\ \/ /\ fetch[k] \notin done
          /\ fetch' = [fetch EXCEPT ![k] = InFlight]
          /\ UNCHANGED <<reply, listeners, cache>>
       \/ /\ fetch[k] \in done
          /\ fetch' = [fetch EXCEPT ![k] = Idle]
          /\ reply' = [c \in Clients |-> IF c \in listeners[k]
                                         THEN fetch[k] ELSE reply[c]]
          /\ listeners' = [listeners EXCEPT ![k] = kept]
          /\ cache' = IF fetch[k] = Failed THEN cache ELSE db
    /\ UNCHANGED <<asking, senders, incoming, queued, phase, notified, mined>>

\* ... the entry stays
PollFutureKeepsEntry(k) ==
    PollFutureWith(k, NodeValue \cup {Failed}, listeners[k],
                   CacheInsert(cache, k, fetch[k]))
\* ... a failed RPC is sent again
PollFutureRetries(k) ==
    PollFutureWith(k, NodeValue, {}, CacheInsert(cache, k, fetch[k]))
\* ... the cache is updated for slots only
PollFutureCachesSlots(k) ==
    PollFutureWith(k, NodeValue \cup {Failed}, {},
                   IF k \in StorageKeys THEN CacheInsert(cache, k, fetch[k]) ELSE cache)

(***************************************************************************)
(* One future of pending_requests is polled: the first poll sends the RPC, *)
(* a later one finds it still running, failed (every listener is sent the  *)
(* error and the entry removed; nothing is cached) or done (the cache is   *)
(* updated and every listener sent the value).                             *)
(***************************************************************************)
PollFuture(k) ==
    /\ phase = "poll"
    /\ k \in topoll
    /\ topoll' = topoll \ {k}
    /\ \/ /\ fetch[k] \in {Created, InFlight}
          /\ fetch' = [fetch EXCEPT ![k] = InFlight]
          /\ UNCHANGED <<reply, listeners, cache>>
       \/ /\ fetch[k] \in NodeValue \cup {Failed}
          /\ fetch' = [fetch EXCEPT ![k] = Idle]
          /\ reply' = [c \in Clients |-> IF c \in listeners[k]
                                         THEN fetch[k] ELSE reply[c]]
          /\ listeners' = [listeners EXCEPT ![k] = {}]
          /\ cache' = IF fetch[k] = Failed THEN cache
                      ELSE CacheInsert(cache, k, fetch[k])
    /\ UNCHANGED <<asking, senders, incoming, queued, phase, notified, mined>>

\* faulty variant: Pending is returned whatever the channel delivered
ParkAlways ==
    /\ phase = "poll"
    /\ topoll = {}
    /\ phase' = "parked"
    /\ UNCHANGED <<asking, reply, senders, incoming, queued, listeners, fetch,
                   cache, topoll, notified, mined>>

\* the pass is over: sleep, unless the channel delivered something
ParkOrLoop ==
    /\ phase = "poll"
    /\ topoll = {}
    /\ phase' = IF queued = {} THEN "parked" ELSE "drain"
    /\ UNCHANGED <<asking, reply, senders, incoming, queued, listeners, fetch,
                   cache, topoll, notified, mined>>

\* the runtime polls the task again only after its waker has fired
Wake ==
    /\ phase = "parked"
    /\ notified
    /\ phase' = "drain"
    /\ notified' = FALSE
    /\ UNCHANGED <<asking, reply, senders, incoming, queued, listeners, fetch,
                   cache, topoll, mined>>

BackendStep ==
    \/ \E c \in Clients : OnRequest(c) \/ Receive(c)
    \/ \E k \in Keys : PollFuture(k)
    \/ StopDraining \/ ReceiveClosed \/ ReceivePending \/ ParkOrLoop \/ Wake

----------------------------------------------------------------------------
(* The node (external).                                                    *)

\* An RPC in flight is answered, or fails with a ProviderError.  The fork
\* block is the block being built: a node that does not have it yet answers
\* with the state of its head.
NodeAnswers(k) ==
    /\ fetch[k] = InFlight
    /\ \E r \in {Failed, IF mined THEN "post" ELSE "pre"} :
           fetch' = [fetch EXCEPT ![k] = r]
    /\ notified' = TRUE
    /\ UNCHANGED <<asking, reply, senders, incoming, queued, listeners, cache,
                   phase, topoll, mined>>

\* the fork block is mined while simulations on top of it still run
BlockMined ==
    /\ ~mined
    /\ mined' = TRUE
    /\ UNCHANGED <<asking, reply, senders, incoming, queued, listeners, fetch,
                   cache, phase, topoll, notified>>

NodeStep == BlockMined \/ \E k \in Keys : NodeAnswers(k)
=============================================================================
