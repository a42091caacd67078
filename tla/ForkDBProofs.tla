---------------------------- MODULE ForkDBProofs ----------------------------
(***************************************************************************)
(* Proofs about the fork backend and its clients: the inductive invariant  *)
(* IInv of ForkDB, for any clients, accounts, slots and blocks.            *)
(***************************************************************************)
EXTENDS ForkDB, TLAPS

----------------------------------------------------------------------------
(* Keys and CacheDB                                                        *)

\* The three kinds of request never collide, and each determines what it is
\* for (BackendFetchRequest).
LEMMA KeysDistinct ==
    /\ \A a \in Addrs : Basic(a) \in Keys /\ Basic(a) # NoKey
    /\ \A a \in Addrs, i \in Slots : Storage(a, i) \in Keys /\ Storage(a, i) # NoKey
    /\ \A n \in Numbers : BlockHash(n) \in Keys /\ BlockHash(n) # NoKey
    /\ NoKey \notin Keys
    /\ \A a, b \in Addrs : Basic(a) = Basic(b) => a = b
    /\ \A a, b, i : Basic(a) # Storage(b, i)
    /\ \A a, n : Basic(a) # BlockHash(n)
    /\ \A a, i, n : Storage(a, i) # BlockHash(n)
    /\ \A a, b \in Addrs, i, j \in Slots :
           Storage(a, i) = Storage(b, j) => a = b /\ i = j
<1>1. \A a \in Addrs : Basic(a) \in Keys /\ Basic(a) # NoKey
  BY DEF Keys, BasicKeys, Basic, NoKey
<1>2. \A a \in Addrs, i \in Slots : Storage(a, i) \in Keys /\ Storage(a, i) # NoKey
  BY DEF Keys, StorageKeys, Storage, NoKey
<1>3. \A n \in Numbers : BlockHash(n) \in Keys /\ BlockHash(n) # NoKey
  BY DEF Keys, HashKeys, BlockHash, NoKey
<1>4. NoKey \notin Keys
  BY DEF Keys, BasicKeys, StorageKeys, HashKeys, Basic, Storage, BlockHash, NoKey
<1>5. \A a, b \in Addrs : Basic(a) = Basic(b) => a = b
  BY DEF Basic
<1>6. \A a, b, i : Basic(a) # Storage(b, i)
  BY DEF Basic, Storage
<1>7. \A a, n : Basic(a) # BlockHash(n)
  BY DEF Basic, BlockHash
<1>8. \A a, i, n : Storage(a, i) # BlockHash(n)
  BY DEF Storage, BlockHash
<1>9. \A a, b \in Addrs, i, j \in Slots :
           Storage(a, i) = Storage(b, j) => a = b /\ i = j
  BY DEF Storage
<1>. QED  BY <1>1, <1>2, <1>3, <1>4, <1>5, <1>6, <1>7, <1>8, <1>9

\* Every key is one of the three kinds.
LEMMA KeyCases ==
    ASSUME NEW k \in Keys
    PROVE  \/ \E a \in Addrs : k = Basic(a)
           \/ \E a \in Addrs, i \in Slots : k = Storage(a, i)
           \/ \E n \in Numbers : k = BlockHash(n)
<1>1. CASE k \in BasicKeys
  BY <1>1 DEF BasicKeys
<1>2. CASE k \in StorageKeys
  BY <1>2 DEF StorageKeys
<1>3. CASE k \in HashKeys
  BY <1>3 DEF HashKeys
<1>. QED  BY <1>1, <1>2, <1>3 DEF Keys

\* An insertion into a CacheDB that already has the account of the slot (or
\* is not about a slot) changes that key only: no account is made up.
LEMMA InsertKnown ==
    ASSUME NEW S, NEW db \in [Keys -> S], NEW k \in Keys, NEW v,
           \A a \in Addrs, i \in Slots : k = Storage(a, i) => db[Basic(a)] # None
    PROVE  CacheInsert(db, k, v) = [db EXCEPT ![k] = v]
<1>1. ASSUME NEW a \in Addrs, k = Basic(a)
      PROVE  CacheInsert(db, k, v) = [db EXCEPT ![k] = v]
  BY <1>1 DEF CacheInsert, Basic
<1>2. ASSUME NEW a \in Addrs, NEW i \in Slots, k = Storage(a, i)
      PROVE  CacheInsert(db, k, v) = [db EXCEPT ![k] = v]
  <2>1. k[2] = a
    BY <1>2 DEF Storage
  <2>. QED  BY <1>2, <2>1 DEF CacheInsert
<1>3. ASSUME NEW n \in Numbers, k = BlockHash(n)
      PROVE  CacheInsert(db, k, v) = [db EXCEPT ![k] = v]
  BY <1>3 DEF CacheInsert, BlockHash
<1>. QED  BY <1>1, <1>2, <1>3, KeyCases

----------------------------------------------------------------------------
(* The client's half of the channel keeps the backend's half of IInv       *)

\* do_get_*: a live client that is not waiting asks for a key, a slot only of
\* an account that the backend knows.
LEMMA SendInv ==
    ASSUME BackendInv, NEW c \in senders, NEW k \in Keys, Send(c, k),
           \A a \in Addrs, i \in Slots : k = Storage(a, i) => cache[Basic(a)] # None
    PROVE  BackendInv'
<1>. USE DEF BackendInv
<1>0. c \in Clients /\ NoKey \notin Keys
  BY KeysDistinct DEF BackendTypeOK
<1>1. BackendTypeOK'
  BY <1>0 DEF BackendTypeOK, Send
<1>2. RequestHeldOnce'
  BY <1>0 DEF RequestHeldOnce, Waiting, BackendTypeOK, Send, None, Failed, AnswersFromCache, EndsLast
<1>3. OneFetchPerKey'
  BY DEF OneFetchPerKey, Send
<1>4. AnswersFromCache'
  BY <1>0 DEF AnswersFromCache, BackendTypeOK, Send
<1>5. AccountBeforeSlot'
  BY <1>0 DEF AccountBeforeSlot, BackendTypeOK, Send
<1>6. (\A x \in Keys : cache[x] # "default")' /\ NoMadeUpAccount'
  BY DEF NoMadeUpAccount, Send
<1>7. NothingMissed'
  BY DEF NothingMissed, NoLostWakeup, BackendTypeOK, Send
<1>8. EndsLast'
  BY <1>0 DEF EndsLast, BackendTypeOK, Send
<1>. QED  BY <1>1, <1>2, <1>3, <1>4, <1>5, <1>6, <1>7, <1>8

\* The answer is taken.
LEMMA RecvInv ==
    ASSUME BackendInv, NEW c \in Clients, Recv(c)
    PROVE  BackendInv'
<1>. USE DEF BackendInv
<1>0. NoKey \notin Keys /\ \A a \in Addrs, i \in Slots : Storage(a, i) # NoKey
  BY KeysDistinct
<1>1. BackendTypeOK'
  BY DEF BackendTypeOK, Recv
<1>2. RequestHeldOnce'
  BY <1>0 DEF RequestHeldOnce, Waiting, BackendTypeOK, Recv
<1>3. OneFetchPerKey'
  BY DEF OneFetchPerKey, Recv
<1>4. AnswersFromCache'
  BY DEF AnswersFromCache, BackendTypeOK, Recv
<1>5. AccountBeforeSlot'
  BY <1>0 DEF AccountBeforeSlot, BackendTypeOK, Recv
<1>6. (\A x \in Keys : cache[x] # "default")' /\ NoMadeUpAccount'
  BY DEF NoMadeUpAccount, Recv
<1>7. NothingMissed'
  BY DEF NothingMissed, NoLostWakeup, BackendTypeOK, Recv
<1>8. EndsLast'
  BY DEF EndsLast, BackendTypeOK, Recv
<1>. QED  BY <1>1, <1>2, <1>3, <1>4, <1>5, <1>6, <1>7, <1>8

\* A client that is not in a call drops its Sender; the last one wakes the
\* backend, so NothingMissed survives.
LEMMA DropSenderInv ==
    ASSUME BackendInv, NEW c \in Clients, DropSender(c)
    PROVE  BackendInv'
<1>. USE DEF BackendInv
<1>1. BackendTypeOK'
  BY DEF BackendTypeOK, DropSender
<1>2. RequestHeldOnce'
  BY DEF RequestHeldOnce, Waiting, BackendTypeOK, DropSender
<1>3. OneFetchPerKey'
  BY DEF OneFetchPerKey, BackendTypeOK, DropSender
<1>4. AnswersFromCache'
  BY DEF AnswersFromCache, BackendTypeOK, DropSender
<1>5. AccountBeforeSlot'
  BY DEF AccountBeforeSlot, BackendTypeOK, DropSender
<1>6. (\A x \in Keys : cache[x] # "default")' /\ NoMadeUpAccount'
  BY DEF NoMadeUpAccount, BackendTypeOK, DropSender
<1>7. NothingMissed'
  BY DEF NothingMissed, NoLostWakeup, BackendTypeOK, DropSender
<1>8. EndsLast'
  BY DEF EndsLast, BackendTypeOK, DropSender
<1>. QED  BY <1>1, <1>2, <1>3, <1>4, <1>5, <1>6, <1>7, <1>8

\* A Sender is cloned from a live one: the backend cannot have ended.
LEMMA CloneSenderInv ==
    ASSUME BackendInv, NEW c \in Clients, senders # {}, CloneSender(c)
    PROVE  BackendInv'
<1>. USE DEF BackendInv
<1>1. BackendTypeOK'
  BY DEF BackendTypeOK, CloneSender
<1>2. RequestHeldOnce'
  BY DEF RequestHeldOnce, Waiting, BackendTypeOK, CloneSender
<1>3. OneFetchPerKey'
  BY DEF OneFetchPerKey, BackendTypeOK, CloneSender
<1>4. AnswersFromCache'
  BY DEF AnswersFromCache, BackendTypeOK, CloneSender
<1>5. AccountBeforeSlot'
  BY DEF AccountBeforeSlot, BackendTypeOK, CloneSender
<1>6. (\A x \in Keys : cache[x] # "default")' /\ NoMadeUpAccount'
  BY DEF NoMadeUpAccount, BackendTypeOK, CloneSender
<1>7. NothingMissed'
  BY DEF NothingMissed, NoLostWakeup, BackendTypeOK, CloneSender
<1>8. EndsLast'
  BY DEF EndsLast, BackendTypeOK, CloneSender
<1>. QED  BY <1>1, <1>2, <1>3, <1>4, <1>5, <1>6, <1>7, <1>8

----------------------------------------------------------------------------
(* Every step of poll() and of the node keeps it                           *)

\* on_request answers from the cache or registers a listener.
LEMMA OnRequestInv ==
    ASSUME BackendInv, NEW c \in Clients, OnRequest(c)
    PROVE  BackendInv'
<1>. USE DEF BackendInv
<1>0. asking[c] \in Keys /\ asking[c] # NoKey /\ reply[c] = None
  BY KeysDistinct DEF RequestHeldOnce, Waiting, BackendTypeOK, OnRequest
<1>1. BackendTypeOK'
  BY <1>0 DEF BackendTypeOK, OnRequest, Idle, Created
<1>2. RequestHeldOnce'
  BY <1>0 DEF RequestHeldOnce, Waiting, BackendTypeOK, OnRequest
<1>3. OneFetchPerKey'
  BY <1>0 DEF OneFetchPerKey, BackendTypeOK, OnRequest, Idle, Created
<1>4. AnswersFromCache'
  BY <1>0 DEF AnswersFromCache, BackendTypeOK, OnRequest
<1>5. AccountBeforeSlot'
  BY <1>0 DEF AccountBeforeSlot, BackendTypeOK, OnRequest
<1>6. (\A x \in Keys : cache[x] # "default")' /\ NoMadeUpAccount'
  BY <1>0 DEF NoMadeUpAccount, BackendTypeOK, OnRequest
<1>7. NothingMissed'
  BY <1>0 DEF NothingMissed, NoLostWakeup, BackendTypeOK, OnRequest
<1>8. EndsLast'
  BY <1>0 DEF EndsLast, BackendTypeOK, OnRequest
<1>. QED  BY <1>1, <1>2, <1>3, <1>4, <1>5, <1>6, <1>7, <1>8

\* The queue is empty.
LEMMA StopDrainingInv ==
    ASSUME BackendInv, StopDraining
    PROVE  BackendInv'
<1>. USE DEF BackendInv
<1>1. BackendTypeOK'
  BY DEF BackendTypeOK, StopDraining, Running
<1>2. RequestHeldOnce'
  BY DEF RequestHeldOnce, Waiting, BackendTypeOK, StopDraining
<1>3. OneFetchPerKey'
  BY DEF OneFetchPerKey, BackendTypeOK, StopDraining
<1>4. AnswersFromCache'
  BY DEF AnswersFromCache, BackendTypeOK, StopDraining
<1>5. AccountBeforeSlot'
  BY DEF AccountBeforeSlot, BackendTypeOK, StopDraining
<1>6. (\A x \in Keys : cache[x] # "default")' /\ NoMadeUpAccount'
  BY DEF NoMadeUpAccount, BackendTypeOK, StopDraining
<1>7. NothingMissed'
  BY DEF NothingMissed, NoLostWakeup, BackendTypeOK, StopDraining
<1>8. EndsLast'
  BY DEF EndsLast, BackendTypeOK, StopDraining
<1>. QED  BY <1>1, <1>2, <1>3, <1>4, <1>5, <1>6, <1>7, <1>8

\* The channel is empty: go on to the futures.
LEMMA ReceivePendingInv ==
    ASSUME BackendInv, ReceivePending
    PROVE  BackendInv'
<1>. USE DEF BackendInv
<1>1. BackendTypeOK'
  BY DEF BackendTypeOK, ReceivePending, Running, Pending
<1>2. RequestHeldOnce'
  BY DEF RequestHeldOnce, Waiting, BackendTypeOK, ReceivePending
<1>3. OneFetchPerKey'
  BY DEF OneFetchPerKey, BackendTypeOK, ReceivePending
<1>4. AnswersFromCache'
  BY DEF AnswersFromCache, BackendTypeOK, ReceivePending
<1>5. AccountBeforeSlot'
  BY DEF AccountBeforeSlot, BackendTypeOK, ReceivePending
<1>6. (\A x \in Keys : cache[x] # "default")' /\ NoMadeUpAccount'
  BY DEF NoMadeUpAccount, BackendTypeOK, ReceivePending
<1>7. NothingMissed'
  BY DEF NothingMissed, NoLostWakeup, BackendTypeOK, ReceivePending, Pending
<1>8. EndsLast'
  BY DEF EndsLast, BackendTypeOK, ReceivePending
<1>. QED  BY <1>1, <1>2, <1>3, <1>4, <1>5, <1>6, <1>7, <1>8

\* The futures are polled: park, or drain what was received meanwhile.
LEMMA ParkOrLoopInv ==
    ASSUME BackendInv, ParkOrLoop
    PROVE  BackendInv'
<1>. USE DEF BackendInv
<1>1. BackendTypeOK'
  BY DEF BackendTypeOK, ParkOrLoop, Running
<1>2. RequestHeldOnce'
  BY DEF RequestHeldOnce, Waiting, BackendTypeOK, ParkOrLoop
<1>3. OneFetchPerKey'
  BY DEF OneFetchPerKey, BackendTypeOK, ParkOrLoop
<1>4. AnswersFromCache'
  BY DEF AnswersFromCache, BackendTypeOK, ParkOrLoop
<1>5. AccountBeforeSlot'
  BY DEF AccountBeforeSlot, BackendTypeOK, ParkOrLoop
<1>6. (\A x \in Keys : cache[x] # "default")' /\ NoMadeUpAccount'
  BY DEF NoMadeUpAccount, BackendTypeOK, ParkOrLoop
<1>7. NothingMissed'
  BY DEF NothingMissed, NoLostWakeup, BackendTypeOK, ParkOrLoop
<1>8. EndsLast'
  BY DEF EndsLast, BackendTypeOK, ParkOrLoop
<1>. QED  BY <1>1, <1>2, <1>3, <1>4, <1>5, <1>6, <1>7, <1>8

\* The waker fires.
LEMMA WakeInv ==
    ASSUME BackendInv, Wake
    PROVE  BackendInv'
<1>. USE DEF BackendInv
<1>1. BackendTypeOK'
  BY DEF BackendTypeOK, Wake, Running
<1>2. RequestHeldOnce'
  BY DEF RequestHeldOnce, Waiting, BackendTypeOK, Wake
<1>3. OneFetchPerKey'
  BY DEF OneFetchPerKey, BackendTypeOK, Wake
<1>4. AnswersFromCache'
  BY DEF AnswersFromCache, BackendTypeOK, Wake
<1>5. AccountBeforeSlot'
  BY DEF AccountBeforeSlot, BackendTypeOK, Wake
<1>6. (\A x \in Keys : cache[x] # "default")' /\ NoMadeUpAccount'
  BY DEF NoMadeUpAccount, BackendTypeOK, Wake
<1>7. NothingMissed'
  BY DEF NothingMissed, NoLostWakeup, BackendTypeOK, Wake
<1>8. EndsLast'
  BY DEF EndsLast, BackendTypeOK, Wake
<1>. QED  BY <1>1, <1>2, <1>3, <1>4, <1>5, <1>6, <1>7, <1>8

\* A request moves from the channel to the queue.
LEMMA ReceiveInv ==
    ASSUME BackendInv, NEW c \in Clients, Receive(c)
    PROVE  BackendInv'
<1>. USE DEF BackendInv
<1>1. BackendTypeOK'
  BY DEF BackendTypeOK, Receive
<1>2. RequestHeldOnce'
  BY DEF RequestHeldOnce, Waiting, BackendTypeOK, Receive
<1>3. OneFetchPerKey'
  BY DEF OneFetchPerKey, BackendTypeOK, Receive
<1>4. AnswersFromCache'
  BY DEF AnswersFromCache, BackendTypeOK, Receive
<1>5. AccountBeforeSlot'
  BY DEF AccountBeforeSlot, BackendTypeOK, Receive
<1>6. (\A x \in Keys : cache[x] # "default")' /\ NoMadeUpAccount'
  BY DEF NoMadeUpAccount, BackendTypeOK, Receive
<1>7. NothingMissed'
  BY DEF NothingMissed, NoLostWakeup, BackendTypeOK, Receive
<1>8. EndsLast'
  BY DEF EndsLast, BackendTypeOK, Receive
<1>. QED  BY <1>1, <1>2, <1>3, <1>4, <1>5, <1>6, <1>7, <1>8

\* Every Sender is gone, so nobody asks and nothing is pending.
LEMMA ReceiveClosedInv ==
    ASSUME BackendInv, ReceiveClosed
    PROVE  BackendInv'
<1>. USE DEF BackendInv
<1>0. \A c \in Clients : asking[c] = NoKey /\ reply[c] = None
  BY DEF EndsLast, AnswersFromCache, ReceiveClosed
<1>1. BackendTypeOK'
  BY <1>0 DEF BackendTypeOK, ReceiveClosed
<1>2. RequestHeldOnce'
  BY <1>0 DEF RequestHeldOnce, Waiting, BackendTypeOK, ReceiveClosed
<1>3. OneFetchPerKey'
  BY <1>0 DEF OneFetchPerKey, BackendTypeOK, ReceiveClosed
<1>4. AnswersFromCache'
  BY <1>0 DEF AnswersFromCache, BackendTypeOK, ReceiveClosed
<1>5. AccountBeforeSlot'
  BY <1>0 DEF AccountBeforeSlot, BackendTypeOK, ReceiveClosed
<1>6. (\A x \in Keys : cache[x] # "default")' /\ NoMadeUpAccount'
  BY <1>0 DEF NoMadeUpAccount, BackendTypeOK, ReceiveClosed
<1>7. NothingMissed'
  BY <1>0 DEF NothingMissed, NoLostWakeup, BackendTypeOK, ReceiveClosed
<1>8. EndsLast'
  BY <1>0 DEF EndsLast, BackendTypeOK, ReceiveClosed
<1>. QED  BY <1>1, <1>2, <1>3, <1>4, <1>5, <1>6, <1>7, <1>8

\* The answer to a request for a slot finds the account in the cache, so the
\* insertion makes nothing up.
LEMMA PollFutureInserts ==
    ASSUME BackendInv, NEW k \in Keys, fetch[k] # Idle, NEW v
    PROVE  /\ CacheInsert(cache, k, v) = [cache EXCEPT ![k] = v]
           /\ cache[k] = None
           /\ \A a \in Addrs, i \in Slots : k = Storage(a, i) => cache[Basic(a)] # None
<1>1. PICK c \in Clients : asking[c] = k
  BY DEF BackendInv, OneFetchPerKey, RequestHeldOnce, BackendTypeOK
<1>2. \A a \in Addrs, i \in Slots : k = Storage(a, i) => cache[Basic(a)] # None
  BY <1>1 DEF BackendInv, AccountBeforeSlot
<1>3. cache \in [Keys -> Value \cup {None}] /\ cache[k] = None
  BY DEF BackendInv, BackendTypeOK, OneFetchPerKey
<1>. QED  BY <1>2, <1>3, InsertKnown

\* A future is started or found running: only fetch and topoll change.
LEMMA PollFutureRunningInv ==
    ASSUME BackendInv, NEW k \in Keys, PollFuture(k), fetch[k] \in {Created, InFlight}
    PROVE  BackendInv'
<1>. USE DEF BackendInv
<1>1. /\ fetch' = [fetch EXCEPT ![k] = InFlight]
      /\ topoll' = topoll \ {k}
      /\ phase = "poll"
      /\ UNCHANGED <<asking, reply, senders, incoming, queued, listeners, cache,
                     phase, notified, mined>>
  BY DEF PollFuture, Created, InFlight, NodeValue, Failed
<1>2. BackendTypeOK'
  BY <1>1 DEF BackendTypeOK
<1>3. RequestHeldOnce' /\ AnswersFromCache' /\ AccountBeforeSlot' /\ EndsLast'
  BY <1>1 DEF RequestHeldOnce, Waiting, AnswersFromCache, AccountBeforeSlot, EndsLast
<1>4. OneFetchPerKey'
  BY <1>1 DEF OneFetchPerKey, BackendTypeOK, Created, InFlight, Idle
<1>5. (\A x \in Keys : cache[x] # "default")' /\ NoMadeUpAccount'
  BY <1>1 DEF NoMadeUpAccount
<1>6. NothingMissed'
  BY <1>1 DEF NothingMissed, NoLostWakeup, BackendTypeOK
<1>. QED  BY <1>2, <1>3, <1>4, <1>5, <1>6

\* The result of a future is handed out: the value or the error goes to every
\* listener, a value into the cache, and the entry is removed.
LEMMA PollFutureDoneInv ==
    ASSUME BackendInv, NEW k \in Keys, PollFuture(k), fetch[k] \in NodeValue \cup {Failed}
    PROVE  BackendInv'
<1>. USE DEF BackendInv
<1>0. /\ fetch[k] # Idle /\ fetch[k] # None
      /\ fetch[k] # Failed => fetch[k] \in NodeValue /\ fetch[k] # "default"
  BY DEF NodeValue, Failed, Idle, None
<1>1. /\ cache[k] = None
      /\ \A a \in Addrs, i \in Slots : k = Storage(a, i) => cache[Basic(a)] # None
  BY <1>0, PollFutureInserts
<1>2. /\ fetch' = [fetch EXCEPT ![k] = Idle]
      /\ topoll' = topoll \ {k}
      /\ reply' = [c \in Clients |-> IF c \in listeners[k] THEN fetch[k] ELSE reply[c]]
      /\ listeners' = [listeners EXCEPT ![k] = {}]
      /\ cache' = IF fetch[k] = Failed THEN cache ELSE [cache EXCEPT ![k] = fetch[k]]
      /\ phase = "poll"
      /\ UNCHANGED <<asking, senders, incoming, queued, phase, notified, mined>>
  <2>1. CacheInsert(cache, k, fetch[k]) = [cache EXCEPT ![k] = fetch[k]]
    BY <1>0, PollFutureInserts
  <2>. QED  BY <2>1 DEF PollFuture, Created, InFlight, NodeValue, Failed
<1>3. \A c \in listeners[k] : c \in Clients /\ asking[c] = k /\ reply[c] = None
  BY DEF RequestHeldOnce, Waiting, BackendTypeOK
<1>4. BackendTypeOK'
  BY <1>0, <1>2 DEF BackendTypeOK, NodeValue, Failed, Value
<1>5. RequestHeldOnce'
  BY <1>0, <1>2, <1>3 DEF RequestHeldOnce, Waiting, BackendTypeOK
<1>6. OneFetchPerKey'
  BY <1>0, <1>2 DEF OneFetchPerKey, BackendTypeOK
<1>7. AnswersFromCache'
  BY <1>0, <1>1, <1>2, <1>3, KeysDistinct DEF AnswersFromCache, BackendTypeOK
<1>8. AccountBeforeSlot'
  BY <1>0, <1>2, KeysDistinct DEF AccountBeforeSlot, BackendTypeOK
<1>9. (\A x \in Keys : cache[x] # "default")' /\ NoMadeUpAccount'
  BY <1>0, <1>1, <1>2, KeysDistinct DEF NoMadeUpAccount, BackendTypeOK
<1>10. NothingMissed'
  BY <1>2 DEF NothingMissed, NoLostWakeup, BackendTypeOK
<1>11. EndsLast'
  BY <1>2 DEF EndsLast
<1>. QED  BY <1>4, <1>5, <1>6, <1>7, <1>8, <1>9, <1>10, <1>11

LEMMA PollFutureInv ==
    ASSUME BackendInv, NEW k \in Keys, PollFuture(k)
    PROVE  BackendInv'
BY PollFutureRunningInv, PollFutureDoneInv DEF PollFuture

\* The node answers or fails.
LEMMA NodeAnswersInv ==
    ASSUME BackendInv, NEW k \in Keys, NodeAnswers(k)
    PROVE  BackendInv'
<1>. USE DEF BackendInv
<1>1. BackendTypeOK'
  BY DEF BackendTypeOK, NodeAnswers, NodeValue, Failed
<1>2. RequestHeldOnce'
  BY DEF RequestHeldOnce, Waiting, BackendTypeOK, NodeAnswers
<1>3. OneFetchPerKey'
  BY DEF OneFetchPerKey, BackendTypeOK, NodeAnswers, Idle, InFlight, Failed
<1>4. AnswersFromCache'
  BY DEF AnswersFromCache, BackendTypeOK, NodeAnswers
<1>5. AccountBeforeSlot'
  BY DEF AccountBeforeSlot, BackendTypeOK, NodeAnswers
<1>6. (\A x \in Keys : cache[x] # "default")' /\ NoMadeUpAccount'
  BY DEF NoMadeUpAccount, BackendTypeOK, NodeAnswers
<1>7. NothingMissed'
  BY DEF NothingMissed, NoLostWakeup, BackendTypeOK, NodeAnswers
<1>8. EndsLast'
  BY DEF EndsLast, BackendTypeOK, NodeAnswers
<1>. QED  BY <1>1, <1>2, <1>3, <1>4, <1>5, <1>6, <1>7, <1>8

\* The fork block is mined.
LEMMA BlockMinedInv ==
    ASSUME BackendInv, BlockMined
    PROVE  BackendInv'
<1>. USE DEF BackendInv
<1>1. BackendTypeOK'
  BY DEF BackendTypeOK, BlockMined
<1>2. RequestHeldOnce'
  BY DEF RequestHeldOnce, Waiting, BackendTypeOK, BlockMined
<1>3. OneFetchPerKey'
  BY DEF OneFetchPerKey, BackendTypeOK, BlockMined
<1>4. AnswersFromCache'
  BY DEF AnswersFromCache, BackendTypeOK, BlockMined
<1>5. AccountBeforeSlot'
  BY DEF AccountBeforeSlot, BackendTypeOK, BlockMined
<1>6. (\A x \in Keys : cache[x] # "default")' /\ NoMadeUpAccount'
  BY DEF NoMadeUpAccount, BackendTypeOK, BlockMined
<1>7. NothingMissed'
  BY DEF NothingMissed, NoLostWakeup, BackendTypeOK, BlockMined
<1>8. EndsLast'
  BY DEF EndsLast, BackendTypeOK, BlockMined
<1>. QED  BY <1>1, <1>2, <1>3, <1>4, <1>5, <1>6, <1>7, <1>8

----------------------------------------------------------------------------
(* The clients' half of IInv                                               *)

\* The database calls a client can be in.
LEMMA OpKinds ==
    /\ NoOp \in Op /\ <<"panic">> \in Op
    /\ \A a \in Addrs : <<"basic", a>> \in Op
    /\ \A n \in Numbers : <<"hash", n>> \in Op
    /\ \A a \in Addrs, i \in Slots :
           /\ <<"insert", a, i>> \in Op
           /\ <<"slot_info", a, i>> \in Op
           /\ <<"slot_next", a, i>> \in Op
           /\ <<"slot", a, i>> \in Op
BY DEF Op, NoOp

\* The backend and the node never change or forget a cached value.
LEMMA CacheGrows ==
    ASSUME BackendInv, BackendStep \/ NodeStep
    PROVE  \A k \in Keys : cache[k] # None => cache'[k] = cache[k]
<1>1. ASSUME NEW k \in Keys, PollFuture(k)
      PROVE  \A x \in Keys : cache[x] # None => cache'[x] = cache[x]
  <2>1. CASE cache' = cache
    BY <2>1
  <2>2. CASE cache' # cache
    <3>1. fetch[k] # Idle /\ cache' = CacheInsert(cache, k, fetch[k])
      BY <1>1, <2>2 DEF PollFuture, Idle, NodeValue, Failed
    <3>. QED  BY <3>1, PollFutureInserts DEF BackendInv, BackendTypeOK
  <2>. QED  BY <2>1, <2>2
<1>. QED  BY <1>1 DEF BackendStep, OnRequest, Receive, StopDraining, ReceiveClosed,
                      ReceivePending, ParkOrLoop, Wake, NodeStep, BlockMined, NodeAnswers

\* An answer that is not an error is the cached value of the key.
LEMMA AnswerIsCached ==
    ASSUME BackendInv, NEW c \in Clients, Recv(c), reply[c] # Failed
    PROVE  /\ asking[c] \in Keys
           /\ reply[c] \in Value /\ reply[c] # None /\ reply[c] \in LocalValue
           /\ reply[c] = cache[asking[c]]
BY DEF BackendInv, BackendTypeOK, AnswersFromCache, Recv, LocalValue

\* CacheDB::insert_account_info changes the account only.
LEMMA InsertAccount ==
    ASSUME NEW db \in [Keys -> LocalValue], NEW a \in Addrs, NEW v
    PROVE  CacheInsert(db, Basic(a), v) = [db EXCEPT ![Basic(a)] = v]
BY KeysDistinct, InsertKnown

\* CacheDB::insert_account_storage changes the slot only, once the account is
\* known.
LEMMA InsertSlot ==
    ASSUME NEW db \in [Keys -> LocalValue], NEW a \in Addrs, NEW i \in Slots, NEW v,
           db[Basic(a)] # None
    PROVE  CacheInsert(db, Storage(a, i), v) = [db EXCEPT ![Storage(a, i)] = v]
BY KeysDistinct, InsertKnown

LEMMA InsertHash ==
    ASSUME NEW db \in [Keys -> LocalValue], NEW n \in Numbers, NEW v
    PROVE  CacheInsert(db, BlockHash(n), v) = [db EXCEPT ![BlockHash(n)] = v]
BY KeysDistinct DEF CacheInsert, BlockHash

\* Values are told apart from marks.
LEMMA ValuesDistinct ==
    /\ None \notin Value /\ Failed \notin Value
    /\ "injected" \notin Value /\ "committed" \notin Value
    /\ "injected" # None /\ "committed" # None
    /\ {"injected", "committed", None} \cup Value \subseteq LocalValue
BY DEF None, Failed, Value, NodeValue, LocalValue

\* A step of a client that does not use the channel.
LEMMA UnchangedInv ==
    ASSUME BackendInv, UNCHANGED vars
    PROVE  BackendInv'
BY DEF BackendInv, BackendTypeOK, RequestHeldOnce, Waiting, OneFetchPerKey, AnswersFromCache,
       AccountBeforeSlot, NoMadeUpAccount, NothingMissed, NoLostWakeup, EndsLast, vars

\* A step that does not touch client c, and only adds to the cache, leaves c's
\* part of the invariant as it was.
LEMMA Undisturbed ==
    ASSUME ClientTypeOK, NEW c \in Clients, ClientOK(c),
           local'[c] = local[c], op'[c] = op[c], tx'[c] = tx[c], journal'[c] = journal[c],
           asking'[c] = asking[c], c \in senders => c \in senders',
           \A k \in Keys : cache[k] # None => cache'[k] = cache[k]
    PROVE  ClientOK(c)'
<1>1. Agrees(c)'
  BY ValuesDistinct DEF ClientOK, Agrees
<1>2. OpAsks(c)' /\ Busy(c)'
  BY DEF ClientOK, OpAsks, Busy
<1>3. KnownAccounts(c)'
  BY ValuesDistinct, KeysDistinct DEF ClientOK, KnownAccounts
<1>. QED  BY <1>1, <1>2, <1>3 DEF ClientOK

\* What is left to show of a step of client c: the types, that the other
\* clients are left alone, and c's own part.
LEMMA ClientStep ==
    ASSUME ClientInv, NEW c \in Clients, cache' = cache, ClientTypeOK',
           \A d \in Clients \ {c} :
               /\ local'[d] = local[d] /\ op'[d] = op[d]
               /\ tx'[d] = tx[d] /\ journal'[d] = journal[d]
               /\ asking'[d] = asking[d]
               /\ d \in senders => d \in senders',
           ClientOK(c)'
    PROVE  ClientInv'
<1>1. ASSUME NEW d \in Clients \ {c}
      PROVE  ClientOK(d)'
  BY <1>1, Undisturbed DEF ClientInv
<1>. QED  BY <1>1 DEF ClientInv

\* A client whose call is over asks for nothing.
LEMMA NoCall ==
    ASSUME NEW c \in Clients, op'[c] \in {NoOp, <<"panic">>}, asking'[c] = NoKey
    PROVE  OpAsks(c)'
BY DEF OpAsks, NoOp

----------------------------------------------------------------------------
(* The three shapes of a step that uses the channel: a call that has to    *)
(* ask, a return that records its answer, and a failed one.                *)

\* A live client starts to wait for key k in call o; nothing else of it
\* changes.
LEMMA CallInv ==
    ASSUME IInv, NEW c \in senders, NEW k \in Keys, NEW o \in Op,
           Send(c, k), op' = [op EXCEPT ![c] = o], UNCHANGED <<local, tx, journal>>,
           \A a \in Addrs, i \in Slots : k = Storage(a, i) => cache[Basic(a)] # None,
           OpAsks(c)'
    PROVE  IInv'
<1>. USE DEF IInv, ClientInv, ClientTypeOK
<1>1. BackendInv'
  BY SendInv
<1>2. /\ c \in Clients /\ cache' = cache /\ senders' = senders
      /\ \A d \in Clients \ {c} : asking'[d] = asking[d]
  BY DEF Send, BackendInv, BackendTypeOK
<1>3. Agrees(c)' /\ Busy(c)' /\ KnownAccounts(c)'
  BY <1>2 DEF ClientOK, Agrees, Busy, KnownAccounts
<1>4. ClientTypeOK'
  OBVIOUS
<1>5. ClientInv'
  BY <1>2, <1>3, <1>4, ClientStep DEF ClientOK
<1>. QED  BY <1>1, <1>5

\* What a Recv leaves alone.
LEMMA RecvFrame ==
    ASSUME BackendInv, NEW c \in Clients, Recv(c)
    PROVE  /\ cache' = cache /\ senders' = senders /\ c \in senders
           /\ asking'[c] = NoKey
           /\ \A d \in Clients \ {c} : asking'[d] = asking[d]
BY DEF Recv, BackendInv, BackendTypeOK, EndsLast

\* The answer to the key of call op[c] is recorded by a transaction that keeps
\* what it fetches; basic() hands it to the journal too.
LEMMA RecordInv ==
    ASSUME IInv, NEW f \in Clients, NEW k, NEW o \in Op,
           Recv(f), reply[f] # Failed, asking[f] = k, tx[f] # "none",
           tx[f] = "mut" => \A a \in Addrs, i \in Slots :
               k = Storage(a, i) => local[f][Basic(a)] # None,
           Record(f, k, reply[f]), op' = [op EXCEPT ![f] = o], UNCHANGED tx,
           \/ UNCHANGED journal
           \/ \E a \in Addrs : /\ k = Basic(a)
                              /\ journal' = [journal EXCEPT ![f] = [@ EXCEPT ![a] = reply[f]]],
           OpAsks(f)'
    PROVE  IInv'
<1>. DEFINE L == IF tx[f] = "mut" THEN [local[f] EXCEPT ![k] = reply[f]] ELSE local[f]
<1>. USE DEF IInv, ClientInv, ClientTypeOK
<1>1. BackendInv'
  BY RecvInv
<1>2. /\ k \in Keys /\ reply[f] = cache[k]
      /\ reply[f] \in Value /\ reply[f] # None /\ reply[f] \in LocalValue
  BY AnswerIsCached
<1>3. tx[f] = "mut" => CacheInsert(local[f], k, reply[f]) = [local[f] EXCEPT ![k] = reply[f]]
  <2>. SUFFICES ASSUME tx[f] = "mut"
                PROVE  CacheInsert(local[f], k, reply[f]) = [local[f] EXCEPT ![k] = reply[f]]
    OBVIOUS
  <2>1. /\ local[f] \in [Keys -> LocalValue] /\ k \in Keys
        /\ \A a \in Addrs, i \in Slots : k = Storage(a, i) => local[f][Basic(a)] # None
    BY <1>2
  <2>. HIDE DEF IInv, ClientInv, ClientTypeOK
  <2>. QED  BY <2>1, InsertKnown
<1>4. L \in [Keys -> LocalValue] /\ local' = [local EXCEPT ![f] = L]
  <2>1. CASE tx[f] = "mut"
    BY <1>2, <1>3, <2>1 DEF Record
  <2>2. CASE tx[f] # "mut"
    BY <2>2 DEF Record
  <2>. QED  BY <2>1, <2>2
<1>5. /\ local'[f] = L
      /\ \A x \in Keys : x # k => L[x] = local[f][x]
      /\ tx[f] = "mut" => L[k] = reply[f]
      /\ L[k] = reply[f] \/ L[k] = local[f][k]
  BY <1>2, <1>4
<1>. HIDE DEF L
<1>6. ClientTypeOK'
  <2>1. (journal \in [Clients -> [Addrs -> LocalValue]])'
    <3>1. CASE UNCHANGED journal
      BY <3>1
    <3>2. ASSUME NEW a \in Addrs,
                 journal' = [journal EXCEPT ![f] = [@ EXCEPT ![a] = reply[f]]]
          PROVE  (journal \in [Clients -> [Addrs -> LocalValue]])'
      <4>1. [journal[f] EXCEPT ![a] = reply[f]] \in [Addrs -> LocalValue]
        BY <1>2
      <4>. QED  BY <3>2, <4>1
    <3>. QED  BY <3>1, <3>2
  <2>2. (local \in [Clients -> [Keys -> LocalValue]])'
    BY <1>4
  <2>. QED  BY <2>1, <2>2
<1>7. Agrees(f)'
  BY <1>2, <1>5, RecvFrame DEF ClientOK, Agrees
<1>8. Busy(f)'
  BY RecvFrame DEF ClientOK, Busy
<1>9. KnownAccounts(f)'
  <2>1. ASSUME NEW a \in Addrs
        PROVE  /\ a \notin Injected /\ local'[f][Basic(a)] # None => cache[Basic(a)] # None
               /\ a \notin Injected /\ journal'[f][a] # None => cache[Basic(a)] # None
               /\ tx[f] = "mut" /\ journal'[f][a] # None => local'[f][Basic(a)] # None
               /\ journal'[f][a] \in Value => journal'[f][a] = cache[Basic(a)]
    <3>1. Basic(a) \in Keys
      BY KeysDistinct
    <3>2. CASE k = Basic(a)
      BY <1>2, <1>5, <3>2, ValuesDistinct, KeysDistinct DEF ClientOK, KnownAccounts
    <3>3. CASE k # Basic(a)
      <4>1. local'[f][Basic(a)] = local[f][Basic(a)]
        BY <1>5, <3>1, <3>3
      <4>2. journal'[f][a] = journal[f][a]
        BY <3>3
      <4>. QED  BY <4>1, <4>2 DEF ClientOK, KnownAccounts
    <3>. QED  BY <3>2, <3>3
  <2>. QED  BY <2>1, RecvFrame DEF KnownAccounts
<1>10. ClientInv'
  BY <1>4, <1>6, <1>7, <1>8, <1>9, RecvFrame, ClientStep DEF ClientOK
<1>. QED  BY <1>1, <1>10

\* A failed call ends the transaction.
LEMMA AbortInv ==
    ASSUME IInv, NEW f \in Clients, Recv(f), Abort(f)
    PROVE  IInv'
<1>. USE DEF IInv, ClientInv, ClientTypeOK
<1>1. BackendInv'
  BY RecvInv
<1>2. EmptyJournal \in [Addrs -> LocalValue] /\ \A a \in Addrs : EmptyJournal[a] = None
  BY DEF EmptyJournal, LocalValue
<1>3. ClientTypeOK'
  BY <1>2, OpKinds DEF Abort
<1>4. OpAsks(f)'
  BY RecvFrame, NoCall DEF Abort
<1>5. Agrees(f)' /\ Busy(f)' /\ KnownAccounts(f)'
  BY <1>2, RecvFrame, ValuesDistinct DEF ClientOK, Agrees, Busy, KnownAccounts, Abort
<1>6. ClientInv'
  BY <1>3, <1>4, <1>5, RecvFrame, ClientStep DEF ClientOK, Abort
<1>. QED  BY <1>1, <1>6

----------------------------------------------------------------------------
(* Factories                                                               *)

\* insert_account_info changes an injected account of the factory only.
LEMMA InsertAccountInfoInv ==
    ASSUME IInv, NEW g \in Clients, NEW a \in Addrs, InsertAccountInfo(g, a)
    PROVE  IInv'
<1>. DEFINE L == [local[g] EXCEPT ![Basic(a)] = "injected"]
<1>. USE DEF IInv, ClientInv, ClientTypeOK
<1>1. CacheInsert(local[g], Basic(a), "injected") = L
  BY InsertAccount
<1>2. /\ local' = [local EXCEPT ![g] = L]
      /\ a \in Injected
      /\ UNCHANGED <<vars, op, tx, journal>>
  BY <1>1 DEF InsertAccountInfo
<1>3. BackendInv'
  BY <1>2, UnchangedInv
<1>4. ClientInv'
  <2>1. L \in [Keys -> LocalValue] /\ local'[g] = L
    BY <1>2, KeysDistinct, ValuesDistinct
  <2>2. ClientTypeOK'
    BY <1>2, <2>1
  <2>3. Agrees(g)'
    BY <1>2, <2>1, ValuesDistinct DEF ClientOK, Agrees, vars
  <2>4. OpAsks(g)' /\ Busy(g)'
    BY <1>2, <2>1, KeysDistinct, ValuesDistinct DEF ClientOK, OpAsks, Busy, vars
  <2>5. KnownAccounts(g)'
    BY <1>2, <2>1, KeysDistinct, ValuesDistinct DEF ClientOK, KnownAccounts, vars
  <2>. QED  BY <1>2, <2>2, <2>3, <2>4, <2>5, ClientStep DEF ClientOK, vars
<1>. QED  BY <1>3, <1>4

\* insert_account_storage asks for an unknown account, or stores a slot of a
\* known one.
LEMMA InsertAccountStorageInv ==
    ASSUME IInv, NEW g \in Clients, NEW a \in Addrs, NEW i \in Slots,
           InsertAccountStorage(g, a, i)
    PROVE  IInv'
<1>. DEFINE L == [local[g] EXCEPT ![Storage(a, i)] = "injected"]
<1>. USE DEF IInv, ClientInv, ClientTypeOK
<1>1. CASE local[g][Basic(a)] = None
  <2>1. /\ g \in senders /\ a \notin Injected
        /\ Send(g, Basic(a)) /\ UNCHANGED <<local, tx, journal>>
        /\ op' = [op EXCEPT ![g] = <<"insert", a, i>>]
    BY <1>1 DEF InsertAccountStorage
  <2>2. asking'[g] = Basic(a) /\ op'[g] = <<"insert", a, i>>
    BY <2>1 DEF Send, BackendInv, BackendTypeOK
  <2>3. OpAsks(g)'
    BY <2>1, <2>2 DEF OpAsks, NoOp
  <2>4. /\ Basic(a) \in Keys /\ <<"insert", a, i>> \in Op
        /\ \A b \in Addrs, j \in Slots : Basic(a) # Storage(b, j)
    BY KeysDistinct, OpKinds
  <2>. HIDE DEF IInv, ClientInv, ClientTypeOK
  <2>. QED  BY <2>1, <2>3, <2>4, CallInv
<1>2. CASE local[g][Basic(a)] # None
  <2>1. CacheInsert(local[g], Storage(a, i), "injected") = L
    BY <1>2, InsertSlot
  <2>2. local' = [local EXCEPT ![g] = L] /\ UNCHANGED <<vars, op, tx, journal>>
    BY <1>2, <2>1 DEF InsertAccountStorage
  <2>3. BackendInv'
    BY <2>2, UnchangedInv
  <2>4. L \in [Keys -> LocalValue] /\ local'[g] = L
    BY <2>2, KeysDistinct, ValuesDistinct
  <2>5. \A b \in Addrs : L[Basic(b)] = local[g][Basic(b)]
    BY KeysDistinct
  <2>6. Agrees(g)'
    BY <2>2, <2>4, ValuesDistinct DEF ClientOK, Agrees, vars
  <2>7. OpAsks(g)' /\ Busy(g)' /\ KnownAccounts(g)'
    BY <2>2, <2>4, <2>5 DEF ClientOK, OpAsks, Busy, KnownAccounts, vars
  <2>8. ClientInv'
    BY <2>2, <2>4, <2>6, <2>7, ClientStep DEF ClientOK, vars
  <2>. QED  BY <2>3, <2>8
<1>. QED  BY <1>1, <1>2

\* ... and stores both once the account has arrived.
LEMMA InsertAccountStorageDoneInv ==
    ASSUME IInv, NEW g \in Clients, NEW a \in Addrs, NEW i \in Slots,
           InsertAccountStorageDone(g, a, i)
    PROVE  IInv'
<1>. DEFINE M == [local[g] EXCEPT ![Basic(a)] = reply[g]]
            L == [M EXCEPT ![Storage(a, i)] = "injected"]
<1>. USE DEF IInv, ClientInv, ClientTypeOK
<1>1. asking[g] = Basic(a) /\ a \notin Injected /\ Recv(g) /\ UNCHANGED <<tx, journal>>
  BY DEF InsertAccountStorageDone, ClientOK, OpAsks
<1>2. BackendInv'
  BY <1>1, RecvInv
<1>3. OpAsks(g)'
  BY <1>1, RecvFrame, NoCall DEF InsertAccountStorageDone
<1>4. CASE reply[g] = Failed
  <2>1. local' = local /\ op' = [op EXCEPT ![g] = <<"panic">>]
    BY <1>4 DEF InsertAccountStorageDone
  <2>2. Agrees(g)' /\ Busy(g)' /\ KnownAccounts(g)'
    BY <1>1, <2>1, RecvFrame DEF ClientOK, Agrees, Busy, KnownAccounts
  <2>3. ClientTypeOK'
    BY <1>1, <2>1, OpKinds
  <2>. QED  BY <1>1, <1>2, <1>3, <2>1, <2>2, <2>3, RecvFrame, ClientStep DEF ClientOK
<1>5. CASE reply[g] # Failed
  <2>1. /\ reply[g] = cache[Basic(a)] /\ reply[g] # None
        /\ reply[g] \in Value /\ reply[g] \in LocalValue
    BY <1>1, <1>5, AnswerIsCached
  <2>2. /\ M \in [Keys -> LocalValue] /\ M[Basic(a)] # None
        /\ CacheInsert(local[g], Basic(a), reply[g]) = M
    <3>1. local[g] \in [Keys -> LocalValue]
      OBVIOUS
    <3>2. Basic(a) \in Keys
      BY KeysDistinct
    <3>. HIDE DEF IInv, ClientInv, ClientTypeOK
    <3>3. CacheInsert(local[g], Basic(a), reply[g]) = M
      BY <3>1, InsertAccount
    <3>4. M \in [Keys -> LocalValue] /\ M[Basic(a)] = reply[g]
      BY <2>1, <3>1, <3>2
    <3>. QED  BY <2>1, <3>3, <3>4
  <2>3. CacheInsert(M, Storage(a, i), "injected") = L
    <3>. HIDE DEF M
    <3>. QED  BY <2>2, InsertSlot
  <2>4. local' = [local EXCEPT ![g] = L] /\ op' = [op EXCEPT ![g] = NoOp]
    BY <1>5, <2>2, <2>3 DEF InsertAccountStorageDone
  <2>5. L \in [Keys -> LocalValue] /\ local'[g] = L
    BY <2>2, <2>4, ValuesDistinct
  <2>6. /\ L[Storage(a, i)] = "injected"
        /\ L[Basic(a)] = reply[g]
        /\ \A k \in Keys \ {Basic(a), Storage(a, i)} : L[k] = local[g][k]
    BY <2>2, KeysDistinct
  <2>. HIDE DEF L, M
  <2>7. Agrees(g)'
    BY <1>1, <2>1, <2>5, <2>6, RecvFrame, ValuesDistinct DEF ClientOK, Agrees
  <2>8. Busy(g)'
    BY <1>1, RecvFrame DEF ClientOK, Busy
  <2>9. KnownAccounts(g)'
    BY <1>1, <2>1, <2>5, <2>6, RecvFrame, KeysDistinct DEF ClientOK, KnownAccounts
  <2>10. ClientTypeOK'
    BY <1>1, <2>4, <2>5, OpKinds
  <2>. QED  BY <1>1, <1>2, <1>3, <2>4, <2>7, <2>8, <2>9, <2>10, RecvFrame, ClientStep DEF ClientOK
<1>. QED  BY <1>4, <1>5

\* A new fork starts with its factory's database, hence in agreement with the
\* backend.
LEMMA NewSandboxForkInv ==
    ASSUME IInv, NEW g \in Clients, NEW f \in Clients, NewSandboxFork(g, f)
    PROVE  IInv'
<1>. USE DEF IInv, ClientInv, ClientTypeOK
<1>1. /\ CloneSender(f) /\ f \notin senders /\ senders # {}
      /\ local' = [local EXCEPT ![f] = local[g]] /\ UNCHANGED <<op, tx, journal>>
  BY DEF NewSandboxFork, CloneSender
<1>2. BackendInv'
  BY <1>1, CloneSenderInv
<1>3. /\ cache' = cache /\ asking' = asking /\ senders \subseteq senders'
      /\ local'[f] = local[g]
  BY <1>1 DEF CloneSender
<1>4. /\ op[f] = NoOp /\ tx[f] = "none" /\ \A a \in Addrs : journal[f][a] = None
      /\ asking[f] = NoKey
  BY <1>1 DEF ClientOK, Busy, OpAsks
<1>5. OpAsks(f)'
  BY <1>1, <1>3, <1>4, NoCall
<1>6. Agrees(f)' /\ Busy(f)' /\ KnownAccounts(f)'
  BY <1>1, <1>3, <1>4, ValuesDistinct DEF ClientOK, Agrees, Busy, KnownAccounts
<1>7. ClientTypeOK'
  BY <1>1
<1>. QED  BY <1>1, <1>2, <1>3, <1>5, <1>6, <1>7, ClientStep DEF ClientOK

\* A client that is not in a call goes, with its database.
LEMMA DropClientInv ==
    ASSUME IInv, NEW c \in Clients, DropClient(c)
    PROVE  IInv'
<1>. USE DEF IInv, ClientInv, ClientTypeOK
<1>1. /\ DropSender(c) /\ tx[c] = "none"
      /\ local' = [local EXCEPT ![c] = EmptyDB] /\ op' = [op EXCEPT ![c] = NoOp]
      /\ UNCHANGED <<tx, journal>>
  BY DEF DropClient
<1>2. BackendInv'
  BY <1>1, DropSenderInv
<1>3. /\ cache' = cache /\ asking' = asking /\ asking[c] = NoKey
      /\ \A d \in Clients \ {c} : d \in senders => d \in senders'
  BY <1>1 DEF DropSender
<1>4. EmptyDB \in [Keys -> LocalValue] /\ \A k \in Keys : EmptyDB[k] = None
  BY ValuesDistinct DEF EmptyDB
<1>5. ClientTypeOK'
  BY <1>1, <1>4, OpKinds
<1>6. OpAsks(c)'
  BY <1>1, <1>3, NoCall
<1>7. Agrees(c)' /\ Busy(c)' /\ KnownAccounts(c)'
  BY <1>1, <1>3, <1>4, ValuesDistinct, KeysDistinct DEF ClientOK, Agrees, Busy, KnownAccounts
<1>. QED  BY <1>1, <1>2, <1>3, <1>5, <1>6, <1>7, ClientStep DEF ClientOK

----------------------------------------------------------------------------
(* Transactions                                                            *)

\* A transaction starts with an empty journal.
LEMMA BeginTxInv ==
    ASSUME IInv, NEW f \in Clients, NEW mode \in {"mut", "ref"}, BeginTx(f, mode)
    PROVE  IInv'
<1>. USE DEF IInv, ClientInv, ClientTypeOK
<1>1. /\ tx' = [tx EXCEPT ![f] = mode] /\ tx[f] = "none" /\ f \in senders
      /\ UNCHANGED <<vars, local, op, journal>>
  BY DEF BeginTx
<1>2. BackendInv'
  BY <1>1, UnchangedInv
<1>3. \A a \in Addrs : journal[f][a] = None
  BY <1>1 DEF ClientOK, Busy
<1>4. OpAsks(f)'
  BY <1>1 DEF ClientOK, OpAsks, vars
<1>5. Agrees(f)' /\ Busy(f)' /\ KnownAccounts(f)'
  BY <1>1, <1>3 DEF ClientOK, Agrees, Busy, KnownAccounts, vars
<1>. QED  BY <1>1, <1>2, <1>4, <1>5, ClientStep DEF ClientOK, vars

\* basic(): from the fork's own database, or from the backend.
LEMMA BasicCallInv ==
    ASSUME IInv, NEW f \in Clients, NEW a \in Addrs, BasicCall(f, a)
    PROVE  IInv'
<1>. DEFINE J == [journal[f] EXCEPT ![a] = local[f][Basic(a)]]
<1>. USE DEF IInv, ClientInv, ClientTypeOK
<1>1. /\ tx[f] # "none" /\ f \in senders /\ UNCHANGED <<local, tx>>
      /\ Basic(a) \in Keys
  BY KeysDistinct DEF BasicCall, Calling, ClientOK, Busy
<1>2. CASE local[f][Basic(a)] = None
  <2>1. /\ Send(f, Basic(a)) /\ UNCHANGED journal
        /\ op' = [op EXCEPT ![f] = <<"basic", a>>]
    BY <1>2 DEF BasicCall
  <2>2. asking'[f] = Basic(a) /\ op'[f] = <<"basic", a>>
    BY <2>1 DEF Send, BackendInv, BackendTypeOK
  <2>3. OpAsks(f)'
    BY <1>1, <2>2 DEF OpAsks, NoOp
  <2>4. /\ <<"basic", a>> \in Op
        /\ \A b \in Addrs, j \in Slots : Basic(a) # Storage(b, j)
    BY KeysDistinct, OpKinds
  <2>. HIDE DEF IInv, ClientInv, ClientTypeOK
  <2>. QED  BY <1>1, <2>1, <2>3, <2>4, CallInv
<1>3. CASE local[f][Basic(a)] # None
  <2>1. journal' = [journal EXCEPT ![f] = J] /\ UNCHANGED <<vars, op>>
    BY <1>3 DEF BasicCall
  <2>2. BackendInv'
    BY <2>1, UnchangedInv
  <2>3. J \in [Addrs -> LocalValue] /\ journal'[f] = J
    BY <1>1, <2>1
  <2>4. OpAsks(f)'
    BY <1>1, <2>1 DEF ClientOK, OpAsks, vars
  <2>5. Agrees(f)' /\ Busy(f)' /\ KnownAccounts(f)'
    BY <1>1, <1>3, <2>1, <2>3, ValuesDistinct DEF ClientOK, Agrees, Busy, KnownAccounts, vars
  <2>. QED  BY <1>1, <2>1, <2>2, <2>3, <2>4, <2>5, ClientStep DEF ClientOK, vars
<1>. QED  BY <1>2, <1>3

LEMMA BasicReturnInv ==
    ASSUME IInv, NEW f \in Clients, NEW a \in Addrs, BasicReturn(f, a)
    PROVE  IInv'
<1>1. Recv(f) /\ asking[f] = Basic(a) /\ tx[f] # "none"
  BY DEF BasicReturn, IInv, ClientInv, ClientOK, OpAsks
<1>2. CASE reply[f] = Failed
  BY <1>1, <1>2, AbortInv DEF BasicReturn
<1>3. CASE reply[f] # Failed
  <2>1. /\ Record(f, Basic(a), reply[f]) /\ op' = [op EXCEPT ![f] = NoOp] /\ UNCHANGED tx
        /\ journal' = [journal EXCEPT ![f] = [@ EXCEPT ![a] = reply[f]]]
    BY <1>3 DEF BasicReturn
  <2>2. OpAsks(f)'
    BY <1>1, <2>1, RecvFrame, NoCall DEF IInv, ClientInv, ClientTypeOK
  <2>3. NoOp \in Op /\ \A b \in Addrs, j \in Slots : Basic(a) # Storage(b, j)
    BY KeysDistinct, OpKinds
  <2>. QED  BY <1>1, <1>3, <2>1, <2>2, <2>3, RecordInv
<1>. QED  BY <1>2, <1>3

\* storage(): Database asks for the account again, DatabaseRef for the slot.
LEMMA StorageCallInv ==
    ASSUME IInv, NEW f \in Clients, NEW a \in Addrs, NEW i \in Slots, StorageCall(f, a, i)
    PROVE  IInv'
<1>. USE DEF IInv, ClientInv, ClientTypeOK
<1>1. /\ tx[f] # "none" /\ f \in senders /\ UNCHANGED <<local, tx, journal>>
      /\ a \notin Injected /\ cache[Basic(a)] # None
  BY DEF StorageCall, Calling, ClientOK, Busy, KnownAccounts
<1>2. Basic(a) \in Keys /\ Storage(a, i) \in Keys
  BY KeysDistinct
<1>3. CASE tx[f] = "mut"
  <2>1. Send(f, Basic(a)) /\ op' = [op EXCEPT ![f] = <<"slot_info", a, i>>]
    BY <1>3 DEF StorageCall
  <2>2. asking'[f] = Basic(a) /\ op'[f] = <<"slot_info", a, i>>
    BY <2>1 DEF Send, BackendInv, BackendTypeOK
  <2>3. OpAsks(f)'
    BY <1>1, <1>3, <2>2 DEF OpAsks, NoOp
  <2>4. /\ <<"slot_info", a, i>> \in Op
        /\ \A b \in Addrs, j \in Slots : Basic(a) # Storage(b, j)
    BY KeysDistinct, OpKinds
  <2>. HIDE DEF IInv, ClientInv, ClientTypeOK
  <2>. QED  BY <1>1, <1>2, <2>1, <2>3, <2>4, CallInv
<1>4. CASE tx[f] = "ref"
  <2>1. Send(f, Storage(a, i)) /\ op' = [op EXCEPT ![f] = <<"slot", a, i>>]
    BY <1>4 DEF StorageCall
  <2>2. asking'[f] = Storage(a, i) /\ op'[f] = <<"slot", a, i>>
    BY <2>1 DEF Send, BackendInv, BackendTypeOK
  <2>3. OpAsks(f)'
    BY <1>1, <1>4, <2>2 DEF OpAsks, NoOp
  <2>4. /\ <<"slot", a, i>> \in Op
        /\ \A b \in Addrs, j \in Slots :
               Storage(a, i) = Storage(b, j) => cache[Basic(b)] # None
    BY <1>1, KeysDistinct, OpKinds
  <2>. HIDE DEF IInv, ClientInv, ClientTypeOK
  <2>. QED  BY <1>1, <1>2, <2>1, <2>3, <2>4, CallInv
<1>. QED  BY <1>3, <1>4 DEF StorageCall

LEMMA StorageInfoReturnInv ==
    ASSUME IInv, NEW f \in Clients, NEW a \in Addrs, NEW i \in Slots,
           StorageInfoReturn(f, a, i)
    PROVE  IInv'
<1>1. Recv(f) /\ asking[f] = Basic(a) /\ tx[f] = "mut" /\ a \notin Injected
  BY DEF StorageInfoReturn, IInv, ClientInv, ClientOK, OpAsks
<1>2. CASE reply[f] = Failed
  BY <1>1, <1>2, AbortInv DEF StorageInfoReturn
<1>3. CASE reply[f] # Failed
  <2>1. /\ Record(f, Basic(a), reply[f]) /\ UNCHANGED <<tx, journal>>
        /\ op' = [op EXCEPT ![f] = <<"slot_next", a, i>>]
    BY <1>3 DEF StorageInfoReturn
  <2>2. reply[f] # None
    BY <1>1 DEF Recv
  <2>3. local'[f][Basic(a)] = reply[f]
    <3>1. CacheInsert(local[f], Basic(a), reply[f]) = [local[f] EXCEPT ![Basic(a)] = reply[f]]
      BY InsertAccount DEF IInv, ClientInv, ClientTypeOK
    <3>2. local' = [local EXCEPT ![f] = CacheInsert(local[f], Basic(a), reply[f])]
      BY <1>1, <2>1 DEF Record
    <3>3. local \in [Clients -> [Keys -> LocalValue]] /\ Basic(a) \in Keys
      BY KeysDistinct DEF IInv, ClientInv, ClientTypeOK
    <3>. QED  BY <3>1, <3>2, <3>3
  <2>4. op'[f] = <<"slot_next", a, i>> /\ tx'[f] = "mut" /\ asking'[f] = NoKey
    BY <1>1, <2>1, RecvFrame DEF IInv, ClientInv, ClientTypeOK
  <2>5. OpAsks(f)'
    BY <1>1, <2>2, <2>3, <2>4 DEF OpAsks, NoOp
  <2>6. <<"slot_next", a, i>> \in Op /\ \A b \in Addrs, j \in Slots : Basic(a) # Storage(b, j)
    BY KeysDistinct, OpKinds
  <2>. QED  BY <1>1, <1>3, <2>1, <2>5, <2>6, RecordInv
<1>. QED  BY <1>2, <1>3

\* ... and then for the slot, of an account that it knows by now.
LEMMA StorageNextInv ==
    ASSUME IInv, NEW f \in Clients, NEW a \in Addrs, NEW i \in Slots, StorageNext(f, a, i)
    PROVE  IInv'
<1>. USE DEF IInv, ClientInv, ClientTypeOK
<1>1. /\ Send(f, Storage(a, i)) /\ op' = [op EXCEPT ![f] = <<"slot", a, i>>]
      /\ UNCHANGED <<local, tx, journal>>
      /\ op[f] = <<"slot_next", a, i>>
  BY DEF StorageNext
<1>2. /\ tx[f] = "mut" /\ a \notin Injected /\ local[f][Basic(a)] # None
      /\ cache[Basic(a)] # None /\ f \in senders
  BY <1>1 DEF ClientOK, OpAsks, Busy, KnownAccounts, NoOp
<1>3. asking'[f] = Storage(a, i) /\ op'[f] = <<"slot", a, i>>
  BY <1>1 DEF Send, BackendInv, BackendTypeOK
<1>4. OpAsks(f)'
  BY <1>1, <1>2, <1>3 DEF OpAsks, NoOp
<1>5. /\ Storage(a, i) \in Keys /\ <<"slot", a, i>> \in Op
      /\ \A b \in Addrs, j \in Slots :
             Storage(a, i) = Storage(b, j) => cache[Basic(b)] # None
  BY <1>2, KeysDistinct, OpKinds
<1>. HIDE DEF IInv, ClientInv, ClientTypeOK
<1>. QED  BY <1>1, <1>2, <1>4, <1>5, CallInv

LEMMA StorageReturnInv ==
    ASSUME IInv, NEW f \in Clients, NEW a \in Addrs, NEW i \in Slots, StorageReturn(f, a, i)
    PROVE  IInv'
<1>1. /\ Recv(f) /\ asking[f] = Storage(a, i) /\ tx[f] # "none"
      /\ tx[f] = "mut" => local[f][Basic(a)] # None
  BY DEF StorageReturn, IInv, ClientInv, ClientOK, OpAsks
<1>2. CASE reply[f] = Failed
  BY <1>1, <1>2, AbortInv DEF StorageReturn
<1>3. CASE reply[f] # Failed
  <2>1. /\ Record(f, Storage(a, i), reply[f]) /\ op' = [op EXCEPT ![f] = NoOp]
        /\ UNCHANGED <<tx, journal>>
    BY <1>3 DEF StorageReturn
  <2>2. OpAsks(f)'
    BY <1>1, <2>1, RecvFrame, NoCall DEF IInv, ClientInv, ClientTypeOK
  <2>3. /\ NoOp \in Op
        /\ tx[f] = "mut" => \A b \in Addrs, j \in Slots :
               Storage(a, i) = Storage(b, j) => local[f][Basic(b)] # None
    BY <1>1, KeysDistinct, OpKinds
  <2>. QED  BY <1>1, <1>3, <2>1, <2>2, <2>3, RecordInv
<1>. QED  BY <1>2, <1>3

LEMMA BlockHashCallInv ==
    ASSUME IInv, NEW f \in Clients, NEW n \in Numbers, BlockHashCall(f, n)
    PROVE  IInv'
<1>. USE DEF IInv, ClientInv, ClientTypeOK
<1>1. /\ Send(f, BlockHash(n)) /\ op' = [op EXCEPT ![f] = <<"hash", n>>]
      /\ UNCHANGED <<local, tx, journal>> /\ f \in senders /\ tx[f] # "none"
  BY DEF BlockHashCall, Calling, ClientOK, Busy
<1>2. asking'[f] = BlockHash(n) /\ op'[f] = <<"hash", n>>
  BY <1>1 DEF Send, BackendInv, BackendTypeOK
<1>3. OpAsks(f)'
  BY <1>1, <1>2 DEF OpAsks, NoOp
<1>4. /\ BlockHash(n) \in Keys /\ <<"hash", n>> \in Op
      /\ \A b \in Addrs, j \in Slots : BlockHash(n) # Storage(b, j)
  BY KeysDistinct, OpKinds
<1>. HIDE DEF IInv, ClientInv, ClientTypeOK
<1>. QED  BY <1>1, <1>3, <1>4, CallInv

LEMMA BlockHashReturnInv ==
    ASSUME IInv, NEW f \in Clients, NEW n \in Numbers, BlockHashReturn(f, n)
    PROVE  IInv'
<1>1. Recv(f) /\ asking[f] = BlockHash(n) /\ tx[f] # "none"
  BY DEF BlockHashReturn, IInv, ClientInv, ClientOK, OpAsks
<1>2. CASE reply[f] = Failed
  BY <1>1, <1>2, AbortInv DEF BlockHashReturn
<1>3. CASE reply[f] # Failed
  <2>1. /\ Record(f, BlockHash(n), reply[f]) /\ op' = [op EXCEPT ![f] = NoOp]
        /\ UNCHANGED <<tx, journal>>
    BY <1>3 DEF BlockHashReturn
  <2>2. OpAsks(f)'
    BY <1>1, <2>1, RecvFrame, NoCall DEF IInv, ClientInv, ClientTypeOK
  <2>3. NoOp \in Op /\ \A b \in Addrs, j \in Slots : BlockHash(n) # Storage(b, j)
    BY KeysDistinct, OpKinds
  <2>. QED  BY <1>1, <1>3, <2>1, <2>2, <2>3, RecordInv
<1>. QED  BY <1>2, <1>3

\* What a transaction of f may leave behind in its database.
Settled(f, db) ==
    /\ db \in [Keys -> LocalValue]
    /\ \A k \in Keys : db[k] \in Value => db[k] = cache[k]
    /\ \A a \in Addrs : db[Basic(a)] # None => local[f][Basic(a)] # None \/ journal[f][a] # None

\* The end of a transaction: commit writes back accounts from the journal, and
\* marks what the transaction changed.
LEMMA CommittedValues ==
    ASSUME ClientTypeOK, NEW f \in Clients, ClientOK(f), tx[f] = "mut",
           NEW changed, changed \subseteq Addrs, NEW touched, touched \subseteq Addrs,
           NEW slots, slots \subseteq StorageKeys,
           \A a \in changed : journal[f][a] # None,
           \A a \in touched : journal[f][a] # None
    PROVE  Settled(f, Committed(f, changed, touched, slots))
<1>. DEFINE C == Committed(f, changed, touched, slots)
<1>. USE DEF ClientTypeOK
<1>1. ASSUME NEW k \in Keys
      PROVE  \/ C[k] = "committed" /\ k \notin BasicKeys
             \/ \E a \in changed : k = Basic(a) /\ C[k] = "committed"
             \/ \E a \in touched : k = Basic(a) /\ C[k] = journal[f][a]
             \/ C[k] = local[f][k]
  <2>1. CASE \E a \in changed : k = Basic(a)
    BY <2>1 DEF Committed
  <2>2. CASE k \in slots /\ ~ \E a \in changed : k = Basic(a)
    <3>1. k \notin BasicKeys
      BY <2>2, KeysDistinct DEF StorageKeys, BasicKeys
    <3>. QED  BY <2>2, <3>1 DEF Committed
  <2>3. ASSUME NEW a \in touched, k = Basic(a), k \notin slots,
               ~ \E b \in changed : k = Basic(b)
        PROVE  \E b \in touched : k = Basic(b) /\ C[k] = journal[f][b]
    <3>1. k[2] = a
      BY <2>3 DEF Basic
    <3>. QED  BY <2>3, <3>1 DEF Committed
  <2>4. CASE /\ k \notin slots
             /\ ~ \E a \in changed : k = Basic(a)
             /\ ~ \E a \in touched : k = Basic(a)
    BY <2>4 DEF Committed
  <2>. QED  BY <2>1, <2>2, <2>3, <2>4
<1>2. C = [k \in Keys |-> C[k]]
  BY DEF Committed
<1>. HIDE DEF C
<1>3. \A k \in Keys : C[k] \in LocalValue
  BY <1>1, ValuesDistinct
<1>4. \A k \in Keys : C[k] \in Value => C[k] = cache[k]
  BY <1>1, ValuesDistinct DEF ClientOK, Agrees, KnownAccounts
<1>5. \A a \in Addrs : Basic(a) \in Keys /\ Basic(a) \in BasicKeys
  BY KeysDistinct DEF BasicKeys
<1>6. \A a, b \in Addrs : Basic(a) = Basic(b) => a = b
  BY KeysDistinct
<1>7. \A a \in Addrs : C[Basic(a)] # None => local[f][Basic(a)] # None \/ journal[f][a] # None
  BY <1>1, <1>5, <1>6
<1>. QED  BY <1>2, <1>3, <1>4, <1>7 DEF C, Settled

LEMMA EndTxInv ==
    ASSUME IInv, NEW f \in Clients, EndTx(f)
    PROVE  IInv'
<1>. USE DEF IInv, ClientInv, ClientTypeOK
<1>1. /\ op[f] = NoOp /\ tx[f] # "none" /\ tx' = [tx EXCEPT ![f] = "none"]
      /\ journal' = [journal EXCEPT ![f] = EmptyJournal] /\ UNCHANGED <<vars, op>>
  BY DEF EndTx, Calling
<1>2. EmptyJournal \in [Addrs -> LocalValue] /\ \A a \in Addrs : EmptyJournal[a] = None
  BY DEF EmptyJournal, LocalValue
<1>3. BackendInv'
  BY <1>1, UnchangedInv
<1>4. \E L : Settled(f, L) /\ local' = [local EXCEPT ![f] = L]
  <2>1. CASE tx[f] = "mut"
    <3>1. PICK changed \in SUBSET {a \in Addrs : journal[f][a] # None} :
          \E touched \in SUBSET ({a \in Addrs : journal[f][a] # None} \ changed) :
          \E slots \in SUBSET {k \in StorageKeys : k[2] \in changed /\ local[f][k] # None} :
              local' = [local EXCEPT ![f] = Committed(f, changed, touched, slots)]
      BY <2>1 DEF EndTx
    <3>2. PICK touched \in SUBSET ({a \in Addrs : journal[f][a] # None} \ changed) :
          \E slots \in SUBSET {k \in StorageKeys : k[2] \in changed /\ local[f][k] # None} :
              local' = [local EXCEPT ![f] = Committed(f, changed, touched, slots)]
      BY <3>1
    <3>3. PICK slots \in SUBSET {k \in StorageKeys : k[2] \in changed /\ local[f][k] # None} :
              local' = [local EXCEPT ![f] = Committed(f, changed, touched, slots)]
      BY <3>2
    <3>4. ClientTypeOK /\ ClientOK(f)
      OBVIOUS
    <3>. HIDE DEF IInv, ClientInv, ClientTypeOK
    <3>5. Settled(f, Committed(f, changed, touched, slots))
      <4>1. /\ changed \subseteq Addrs /\ touched \subseteq Addrs /\ slots \subseteq StorageKeys
            /\ \A a \in changed : journal[f][a] # None
            /\ \A a \in touched : journal[f][a] # None
        OBVIOUS
      <4>. QED  BY <2>1, <3>4, <4>1, CommittedValues
    <3>. QED  BY <3>3, <3>5
  <2>2. CASE tx[f] # "mut"
    <3>1. local' = [local EXCEPT ![f] = local[f]]
      BY <2>2 DEF EndTx
    <3>. QED  BY <3>1 DEF ClientOK, Agrees, Settled
  <2>. QED  BY <2>1, <2>2
<1>5. PICK L : Settled(f, L) /\ local' = [local EXCEPT ![f] = L]
  BY <1>4
<1>. USE DEF Settled
<1>6. Agrees(f)'
  BY <1>1, <1>5 DEF Agrees, vars
<1>7. OpAsks(f)'
  BY <1>1, NoCall DEF ClientOK, OpAsks, vars
<1>8. Busy(f)' /\ KnownAccounts(f)'
  BY <1>1, <1>2, <1>5, ValuesDistinct DEF ClientOK, Busy, KnownAccounts, vars
<1>9. ClientTypeOK'
  BY <1>1, <1>2, <1>5
<1>. QED  BY <1>1, <1>3, <1>5, <1>6, <1>7, <1>8, <1>9, ClientStep DEF ClientOK, vars

----------------------------------------------------------------------------
(* The theorems                                                            *)

LEMMA InitInv ==
    ASSUME Init
    PROVE  IInv
<1>1. BackendTypeOK
  BY FactoriesAssumption
     DEF Init, BackendInit, BackendTypeOK, Running, Value, Idle
<1>2. \A a \in Addrs, i \in Slots : cache[Storage(a, i)] # None => cache[Basic(a)] # None
  BY InitialKeysAssumption, KeysDistinct DEF Init, BackendInit, None
<1>3. BackendInv
  BY <1>1, <1>2, KeysDistinct
     DEF Init, BackendInit, BackendInv, RequestHeldOnce, Waiting, OneFetchPerKey,
         AnswersFromCache, AccountBeforeSlot, NoMadeUpAccount, NothingMissed, NoLostWakeup,
         EndsLast, None, Idle
<1>4. \A k \in Keys : cache[k] \in LocalValue
  BY <1>1 DEF BackendTypeOK, LocalValue
<1>5. ClientTypeOK
  BY <1>4, OpKinds DEF Init, BackendInit, ClientTypeOK, EmptyDB, EmptyJournal, LocalValue
<1>6. ASSUME NEW c \in Clients
      PROVE  ClientOK(c)
  <2>1. /\ local[c] = cache \/ \A k \in Keys : local[c][k] = None
        /\ op[c] = NoOp /\ tx[c] = "none" /\ asking[c] = NoKey
        /\ \A a \in Addrs : journal[c][a] = None /\ Basic(a) \in Keys
    BY KeysDistinct DEF Init, BackendInit, EmptyDB, EmptyJournal
  <2>. QED  BY <2>1, ValuesDistinct DEF ClientOK, Agrees, OpAsks, Busy, KnownAccounts, NoOp
<1>. QED  BY <1>3, <1>5, <1>6 DEF IInv, ClientInv

LEMMA BackendStepInv ==
    ASSUME IInv, BackendStep \/ NodeStep, UNCHANGED dbVars
    PROVE  IInv'
<1>. USE DEF IInv, ClientInv
<1>1. BackendInv'
  BY OnRequestInv, ReceiveInv, PollFutureInv, StopDrainingInv, ReceiveClosedInv,
     ReceivePendingInv, ParkOrLoopInv, WakeInv, NodeAnswersInv, BlockMinedInv
     DEF BackendStep, NodeStep
<1>2. UNCHANGED <<asking, senders>>
  BY DEF BackendStep, NodeStep, OnRequest, Receive, PollFuture, StopDraining, ReceiveClosed,
         ReceivePending, ParkOrLoop, Wake, NodeAnswers, BlockMined
<1>3. \A c \in Clients : ClientOK(c)'
  BY <1>2, CacheGrows, Undisturbed DEF dbVars
<1>4. ClientTypeOK'
  BY DEF ClientTypeOK, dbVars
<1>. QED  BY <1>1, <1>3, <1>4

LEMMA StutterInv ==
    ASSUME IInv, UNCHANGED allVars
    PROVE  IInv'
<1>1. BackendInv'
  BY UnchangedInv DEF IInv, allVars
<1>2. \A c \in Clients : ClientOK(c)'
  BY Undisturbed DEF IInv, ClientInv, allVars, dbVars, vars
<1>3. ClientTypeOK'
  BY DEF IInv, ClientInv, ClientTypeOK, allVars, dbVars
<1>. QED  BY <1>1, <1>2, <1>3 DEF IInv, ClientInv

LEMMA ClientStepInv ==
    ASSUME IInv, NEW c \in Clients,
           FactoryStep(c) \/ DropClient(c) \/ ForkCall(c) \/ ForkReturn(c) \/ EndTx(c)
    PROVE  IInv'
<1>1. CASE FactoryStep(c)
  BY <1>1, InsertAccountInfoInv, InsertAccountStorageInv, InsertAccountStorageDoneInv,
     NewSandboxForkInv DEF FactoryStep, Forks
<1>2. CASE ForkCall(c)
  BY <1>2, BeginTxInv, BasicCallInv, StorageCallInv, BlockHashCallInv DEF ForkCall
<1>3. CASE ForkReturn(c)
  BY <1>3, BasicReturnInv, StorageInfoReturnInv, StorageNextInv, StorageReturnInv,
     BlockHashReturnInv DEF ForkReturn
<1>. QED  BY <1>1, <1>2, <1>3, DropClientInv, EndTxInv

LEMMA NextInv ==
    ASSUME IInv, [Next]_allVars
    PROVE  IInv'
BY BackendStepInv, ClientStepInv, StutterInv DEF Next, Terminated

\* The inductive invariant holds in every reachable state, for any number of
\* clients, accounts, slots and blocks.
THEOREM Invariance == Spec => []IInv
<1>1. Init => IInv
  BY InitInv
<1>2. IInv /\ [Next]_allVars => IInv'
  BY NextInv
<1>. QED  BY <1>1, <1>2, PTL DEF Spec

\* Every variable of the backend and of its clients keeps its type.
THEOREM TypesHold == Spec => []TypeOK
<1>1. IInv => TypeOK
  BY DEF IInv, BackendInv, ClientInv, TypeOK
<1>. QED  BY <1>1, Invariance, PTL

\* A request that waits is in exactly one place: poll() neither loses a request
\* nor answers it twice, whatever the order of its loops.
THEOREM RequestsHeldOnce == Spec => []RequestHeldOnce
<1>1. IInv => RequestHeldOnce
  BY DEF IInv, BackendInv
<1>. QED  BY <1>1, Invariance, PTL

\* A key is fetched once, however many forks ask for it at the same time.
THEOREM OneFetch == Spec => []OneFetchPerKey
<1>1. IInv => OneFetchPerKey
  BY DEF IInv, BackendInv
<1>. QED  BY <1>1, Invariance, PTL

\* The backend never sleeps through a wake-up.
THEOREM WakeupsKept == Spec => []NoLostWakeup
<1>1. IInv => NoLostWakeup
  BY DEF IInv, BackendInv, NothingMissed
<1>. QED  BY <1>1, Invariance, PTL

\* The backend leaves no client behind.
THEOREM NoneAbandoned == Spec => []NobodyAbandoned
<1>1. IInv => NobodyAbandoned
  BY DEF IInv, BackendInv, EndsLast, NobodyAbandoned
<1>. QED  BY <1>1, Invariance, PTL

\* The backend's cache never makes up an account.
THEOREM NoAccountMadeUp == Spec => []NoMadeUpAccount
<1>1. IInv => NoMadeUpAccount
  BY DEF IInv, BackendInv
<1>. QED  BY <1>1, Invariance, PTL

\* All simulations agree on every value they took from the backend.
THEOREM Agreement == Spec => []ForksAgree
<1>1. IInv => ForksAgree
  BY DEF IInv, ClientInv, ClientOK, ForksAgree
<1>. QED  BY <1>1, Invariance, PTL

\* What the backend answered once it answers for ever.
THEOREM Stability == Spec => CacheStable
<1>1. IInv /\ [Next]_allVars => [\A k \in Keys : cache[k] # None => cache'[k] = cache[k]]_allVars
  <2>. SUFFICES ASSUME IInv, Next
                PROVE  \A k \in Keys : cache[k] # None => cache'[k] = cache[k]
    OBVIOUS
  <2>1. CASE BackendStep \/ NodeStep
    BY <2>1, CacheGrows DEF IInv
  <2>2. CASE \E c \in Clients : \/ FactoryStep(c) \/ DropClient(c)
                               \/ ForkCall(c) \/ ForkReturn(c) \/ EndTx(c)
    <3>1. cache' = cache
      BY <2>2 DEF FactoryStep, DropClient, ForkCall, ForkReturn, EndTx, InsertAccountInfo,
            InsertAccountStorage, InsertAccountStorageDone, NewSandboxFork, BeginTx, BasicCall,
            StorageCall, BlockHashCall, BasicReturn, StorageInfoReturn, StorageNext,
            StorageReturn, BlockHashReturn, Send, Recv, DropSender, CloneSender, vars
    <3>. QED  BY <3>1
  <2>3. CASE Terminated
    BY <2>3 DEF Terminated, allVars, vars
  <2>. QED  BY <2>1, <2>2, <2>3 DEF Next
<1>. QED  BY <1>1, Invariance, PTL DEF Spec, CacheStable

-----------------------------------------------------------------------------
(* The backend and its clients implement SharedView: what a client sees    *)
(* does not depend on how the backend queues, shares and caches requests.  *)

LEMMA SharedInit ==
    ASSUME Init
    PROVE  SV!Init
BY DEF Init, BackendInit, SV!Init

\* A call asks.
LEMMA SendAsks ==
    ASSUME BackendInv, NEW c \in senders, NEW k \in Keys, Send(c, k)
    PROVE  SV!Next
<1>1. c \in Clients /\ phase # "ended"
  BY DEF BackendInv, BackendTypeOK, EndsLast
<1>2. SV!Ask(c, k)
  BY <1>1 DEF Send, SV!Ask
<1>. QED  BY <1>1, <1>2 DEF SV!Next

\* A return takes the answer.
LEMMA RecvTakes ==
    ASSUME NEW c \in Clients, Recv(c)
    PROVE  SV!Next
<1>1. SV!Take(c)
  BY DEF Recv, SV!Take
<1>. QED  BY <1>1 DEF SV!Next

\* on_request serves one client from the cache, or nobody.
LEMMA OnRequestServes ==
    ASSUME BackendInv, NEW c \in Clients, OnRequest(c)
    PROVE  [SV!Next]_(SV!vars)
<1>. DEFINE k == asking[c]
<1>1. k \in Keys /\ reply[c] = None
  BY DEF BackendInv, BackendTypeOK, RequestHeldOnce, Waiting, OnRequest
<1>2. CASE cache[k] = None
  BY <1>2 DEF OnRequest, SV!vars
<1>3. CASE cache[k] # None
  <2>1. cache[k] \in NodeValue \cup {"initial"}
    BY <1>1, <1>3 DEF BackendInv, BackendTypeOK, Value
  <2>2. {c} \subseteq SV!Unanswered(k)
    BY <1>1 DEF SV!Unanswered
  <2>3. SV!Tell({c}, cache[k])
    BY <1>3 DEF OnRequest, SV!Tell, BackendInv, BackendTypeOK
  <2>4. UNCHANGED <<cache, asking>> /\ cache' = [cache EXCEPT ![k] = cache[k]]
    BY <1>1 DEF OnRequest, BackendInv, BackendTypeOK
  <2>5. SV!Serve(k, cache[k], {c})
    BY <2>2, <2>3, <2>4 DEF SV!Serve
  <2>. QED  BY <1>1, <2>1, <2>5 DEF SV!Next
<1>. QED  BY <1>2, <1>3

\* The result of a future settles its key and serves every listener, or fails
\* them all.
LEMMA PollFutureServes ==
    ASSUME BackendInv, NEW k \in Keys, PollFuture(k)
    PROVE  [SV!Next]_(SV!vars)
<1>1. CASE fetch[k] \in {Created, InFlight}
  <2>1. UNCHANGED <<reply, cache, asking>>
    BY <1>1 DEF PollFuture, Created, InFlight, NodeValue, Failed
  <2>. QED  BY <2>1 DEF SV!vars
<1>2. CASE fetch[k] \in NodeValue \cup {Failed}
  <2>1. fetch[k] # Idle
    BY <1>2 DEF NodeValue, Failed, Idle
  <2>2. /\ cache[k] = None
        /\ CacheInsert(cache, k, fetch[k]) = [cache EXCEPT ![k] = fetch[k]]
    BY <2>1, PollFutureInserts
  <2>3. /\ reply' = [c \in Clients |-> IF c \in listeners[k] THEN fetch[k] ELSE reply[c]]
        /\ cache' = IF fetch[k] = Failed THEN cache ELSE [cache EXCEPT ![k] = fetch[k]]
        /\ UNCHANGED asking
    BY <1>2, <2>2 DEF PollFuture, Created, InFlight, NodeValue, Failed
  <2>4. listeners[k] \subseteq SV!Unanswered(k) /\ listeners[k] \in SUBSET Clients
    BY DEF BackendInv, BackendTypeOK, RequestHeldOnce, Waiting, SV!Unanswered
  <2>5. SV!Tell(listeners[k], fetch[k])
    BY <2>3 DEF SV!Tell
  <2>6. CASE fetch[k] = Failed
    <3>1. SV!Fail(k, listeners[k])
      BY <2>2, <2>3, <2>4, <2>5, <2>6 DEF SV!Fail
    <3>. QED  BY <2>4, <3>1 DEF SV!Next
  <2>7. CASE fetch[k] # Failed
    <3>1. SV!Serve(k, fetch[k], listeners[k])
      BY <1>2, <2>2, <2>3, <2>4, <2>5, <2>7 DEF SV!Serve
    <3>. QED  BY <1>2, <2>4, <2>7, <3>1 DEF SV!Next
  <2>. QED  BY <2>6, <2>7
<1>. QED  BY <1>1, <1>2 DEF PollFuture

\* Every other step of the backend and of the node is invisible; when the
\* backend ends, nobody waits for it.
LEMMA BackendStepServes ==
    ASSUME BackendInv, BackendStep \/ NodeStep
    PROVE  [SV!Next]_(SV!vars)
<1>1. CASE ReceiveClosed
  <2>1. \A c \in Clients : asking[c] = NoKey
    BY <1>1 DEF ReceiveClosed, BackendInv, EndsLast
  <2>2. reply' = reply
    BY <1>1, <2>1 DEF ReceiveClosed, BackendInv, BackendTypeOK
  <2>. QED  BY <1>1, <2>2 DEF ReceiveClosed, SV!vars
<1>2. CASE \E c \in Clients : Receive(c)
  BY <1>2 DEF Receive, SV!vars
<1>3. CASE StopDraining \/ ReceivePending \/ ParkOrLoop \/ Wake
  BY <1>3 DEF StopDraining, ReceivePending, ParkOrLoop, Wake, SV!vars
<1>4. CASE NodeStep
  BY <1>4 DEF NodeStep, BlockMined, NodeAnswers, SV!vars
<1>. QED  BY <1>1, <1>2, <1>3, <1>4, OnRequestServes, PollFutureServes DEF BackendStep

\* Every step of a client asks, takes an answer, or is invisible.
LEMMA ClientStepServes ==
    ASSUME IInv, NEW c \in Clients,
           FactoryStep(c) \/ DropClient(c) \/ ForkCall(c) \/ ForkReturn(c) \/ EndTx(c)
    PROVE  [SV!Next]_(SV!vars)
<1>1. op[c] # NoOp \/ tx[c] # "none" => c \in senders
  BY DEF IInv, ClientInv, ClientOK, Busy
<1>2. \A k \in Keys : Send(c, k) /\ c \in senders => SV!Next
  BY SendAsks DEF IInv
<1>3. /\ \A a \in Addrs : Basic(a) \in Keys
      /\ \A a \in Addrs, i \in Slots : Storage(a, i) \in Keys
      /\ \A n \in Numbers : BlockHash(n) \in Keys
  BY KeysDistinct
<1>4. CASE FactoryStep(c)
  <2>1. ASSUME NEW a \in Addrs, NEW i \in Slots, InsertAccountStorage(c, a, i)
        PROVE  [SV!Next]_(SV!vars)
    BY <1>2, <1>3, <2>1 DEF InsertAccountStorage, vars, SV!vars
  <2>2. ASSUME NEW a \in Addrs, NEW i \in Slots, InsertAccountStorageDone(c, a, i)
        PROVE  [SV!Next]_(SV!vars)
    BY <2>2, RecvTakes DEF InsertAccountStorageDone
  <2>3. ASSUME NEW a \in Addrs, InsertAccountInfo(c, a)
        PROVE  [SV!Next]_(SV!vars)
    BY <2>3 DEF InsertAccountInfo, vars, SV!vars
  <2>4. ASSUME NEW f \in Forks, NewSandboxFork(c, f)
        PROVE  [SV!Next]_(SV!vars)
    BY <2>4 DEF NewSandboxFork, CloneSender, SV!vars
  <2>. QED  BY <1>4, <2>1, <2>2, <2>3, <2>4 DEF FactoryStep
<1>5. CASE DropClient(c)
  BY <1>5 DEF DropClient, DropSender, SV!vars
<1>6. CASE ForkCall(c)
  <2>1. ASSUME NEW mode, BeginTx(c, mode)
        PROVE  [SV!Next]_(SV!vars)
    BY <2>1 DEF BeginTx, vars, SV!vars
  <2>2. ASSUME NEW a \in Addrs, BasicCall(c, a)
        PROVE  [SV!Next]_(SV!vars)
    BY <1>1, <1>2, <1>3, <2>2 DEF BasicCall, Calling, vars, SV!vars
  <2>3. ASSUME NEW a \in Addrs, NEW i \in Slots, StorageCall(c, a, i)
        PROVE  [SV!Next]_(SV!vars)
    BY <1>1, <1>2, <1>3, <2>3 DEF StorageCall, Calling
  <2>4. ASSUME NEW n \in Numbers, BlockHashCall(c, n)
        PROVE  [SV!Next]_(SV!vars)
    BY <1>1, <1>2, <1>3, <2>4 DEF BlockHashCall, Calling
  <2>. QED  BY <1>6, <2>1, <2>2, <2>3, <2>4 DEF ForkCall
<1>7. CASE ForkReturn(c)
  <2>1. ASSUME NEW a \in Addrs, NEW i \in Slots, StorageNext(c, a, i)
        PROVE  [SV!Next]_(SV!vars)
    BY <1>1, <1>2, <1>3, <2>1 DEF StorageNext, NoOp
  <2>2. CASE Recv(c)
    BY <2>2, RecvTakes
  <2>. QED  BY <1>7, <2>1, <2>2 DEF ForkReturn, BasicReturn, StorageInfoReturn, StorageReturn,
                                  BlockHashReturn
<1>8. CASE EndTx(c)
  BY <1>8 DEF EndTx, vars, SV!vars
<1>. QED  BY <1>4, <1>5, <1>6, <1>7, <1>8

\* The backend with its clients is an implementation of one growing view of the
\* chain, for any number of clients and keys.
THEOREM Refinement == Spec => ImplementsSharedView
<1>1. Init => SV!Init
  BY SharedInit
<1>2. IInv /\ [Next]_allVars => [SV!Next]_(SV!vars)
  <2>1. ASSUME IInv, UNCHANGED allVars
        PROVE  UNCHANGED SV!vars
    BY <2>1 DEF allVars, vars, SV!vars
  <2>2. ASSUME IInv, Next
        PROVE  [SV!Next]_(SV!vars)
    BY <2>1, <2>2, BackendStepServes, ClientStepServes DEF Next, Terminated, IInv
  <2>. QED  BY <2>1, <2>2
<1>. QED  BY <1>1, <1>2, Invariance, PTL DEF Spec, ImplementsSharedView, SV!Spec
=============================================================================
