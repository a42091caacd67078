------------------------------- MODULE ForkDB -------------------------------
(***************************************************************************)
(* The clients of the backend (src/bot/src/forked_db/fork_db.rs and        *)
(* fork_factory.rs): factories, cloned once per simulation task, and the   *)
(* ForkDBs they hand to parallel EVM instances.  Each keeps a CacheDB of   *)
(* its own that starts as a copy of its factory's and falls back on the    *)
(* shared backend.                                                         *)
(*                                                                         *)
(* The EVM above a ForkDB is external: it runs one transaction at a time,  *)
(* loads an account (basic) before it reads a slot of it (storage), keeps  *)
(* what it loaded in a journal, and either commits the accounts the        *)
(* transaction touched (transact_commit, inspect_commit: the Database      *)
(* trait) or nothing (transact_ref, inspect_ref: DatabaseRef).             *)
(***************************************************************************)
EXTENDS GlobalBackend

CONSTANTS Factories,   \* the ForkFactory clones, one per simulation task
          Injected     \* accounts only ever inserted by hand (BrainDance)

ASSUME FactoriesAssumption == Factories \subseteq Clients
ASSUME InjectedAssumption ==
    /\ Injected \subseteq Addrs
    /\ \A a \in Injected : Basic(a) \notin InitialKeys

Forks == Clients \ Factories

VARIABLES
    local,     \* local[c][k]: the CacheDB of client c
    op,        \* op[c]: the database call c is in
    tx,        \* tx[c]: "none", or the trait the running transaction uses
    journal    \* journal[c][a]: the account info the transaction loaded

dbVars == <<local, op, tx, journal>>
allVars == <<vars, dbVars>>

LocalValue == Value \cup {None, "injected", "committed"}
NoOp == <<"noop">>
Op ==
    {NoOp} \cup {<<"basic", a>> : a \in Addrs}
    \cup {<<"insert", a, i>> : a \in Addrs, i \in Slots}
    \cup {<<"slot_info", a, i>> : a \in Addrs, i \in Slots}
    \cup {<<"slot_next", a, i>> : a \in Addrs, i \in Slots}
    \cup {<<"slot", a, i>> : a \in Addrs, i \in Slots}
    \cup {<<"hash", n>> : n \in Numbers}
    \cup {<<"panic">>}

ClientTypeOK ==
    /\ local \in [Clients -> [Keys -> LocalValue]]
    /\ op \in [Clients -> Op]
    /\ tx \in [Clients -> {"none", "mut", "ref"}]
    /\ journal \in [Clients -> [Addrs -> LocalValue]]

TypeOK == BackendTypeOK /\ ClientTypeOK

EmptyDB == [k \in Keys |-> None]
EmptyJournal == [a \in Addrs |-> None]

Init ==
    /\ BackendInit
    /\ senders = Factories
    /\ local = [c \in Clients |-> IF c \in Factories THEN cache ELSE EmptyDB]
    /\ op = [c \in Clients |-> NoOp]
    /\ tx = [c \in Clients |-> "none"]
    /\ journal = [c \in Clients |-> EmptyJournal]

----------------------------------------------------------------------------
(* ForkFactory                                                             *)

\* insert_account_info
InsertAccountInfo(g, a) ==
    /\ g \in Factories \cap senders
    /\ op[g] = NoOp
    /\ a \in Injected
    /\ local' = [local EXCEPT ![g] = CacheInsert(@, Basic(a), "injected")]
    /\ UNCHANGED <<vars, op, tx, journal>>

\* insert_account_storage, fetching the account first when it is missing
InsertAccountStorage(g, a, i) ==
    /\ g \in Factories \cap senders
    /\ op[g] = NoOp
    /\ a \notin Injected
    /\ \/ /\ local[g][Basic(a)] = None
          /\ Send(g, Basic(a))
          /\ op' = [op EXCEPT ![g] = <<"insert", a, i>>]
          /\ UNCHANGED local
       \/ /\ local[g][Basic(a)] # None
          /\ local' = [local EXCEPT ![g] = CacheInsert(@, Storage(a, i), "injected")]
          /\ UNCHANGED <<vars, op>>
    /\ UNCHANGED <<tx, journal>>

\* faulty variant: the fetched account is not recorded
InsertAccountStorageOnly(g, a, i) ==
    /\ op[g] = <<"insert", a, i>>
    /\ Recv(g)
    /\ op' = [op EXCEPT ![g] = IF reply[g] = Failed THEN <<"panic">> ELSE NoOp]
    /\ local' = IF reply[g] = Failed THEN local
                ELSE [local EXCEPT ![g] = CacheInsert(@, Storage(a, i), "injected")]
    /\ UNCHANGED <<tx, journal>>

\* ... its answer; attach_braindance_module unwraps, so an error ends the task
InsertAccountStorageDone(g, a, i) ==
    /\ op[g] = <<"insert", a, i>>
    /\ Recv(g)
    /\ \/ /\ reply[g] = Failed
          /\ op' = [op EXCEPT ![g] = <<"panic">>]
          /\ UNCHANGED local
       \/ /\ reply[g] # Failed
          /\ op' = [op EXCEPT ![g] = NoOp]
          /\ local' = [local EXCEPT
                 ![g] = CacheInsert(CacheInsert(@, Basic(a), reply[g]),
                                    Storage(a, i), "injected")]
    /\ UNCHANGED <<tx, journal>>

\* new_sandbox_fork, once attach_braindance_module has run on the factory
NewSandboxFork(g, f) ==
    /\ g \in Factories \cap senders
    /\ op[g] = NoOp
    /\ \A a \in Injected : local[g][Basic(a)] = "injected"
    /\ f \in Forks
    /\ CloneSender(f)
    /\ local' = [local EXCEPT ![f] = local[g]]
    /\ UNCHANGED <<op, tx, journal>>

\* a simulation task ends (or panics) and drops its factory, or a simulation
\* ends and drops its ForkDB
DropClient(c) ==
    /\ op[c] \in {NoOp, <<"panic">>}
    /\ tx[c] = "none"
    /\ DropSender(c)
    /\ op' = [op EXCEPT ![c] = NoOp]
    /\ local' = [local EXCEPT ![c] = EmptyDB]
    /\ UNCHANGED <<tx, journal>>

----------------------------------------------------------------------------
(* A transaction on a ForkDB                                               *)

BeginTx(f, mode) ==
    /\ f \in Forks \cap senders
    /\ tx[f] = "none"
    /\ tx' = [tx EXCEPT ![f] = mode]
    /\ UNCHANGED <<vars, local, op, journal>>

Calling(f) == tx[f] # "none" /\ op[f] = NoOp

\* Database::basic / DatabaseRef::basic
BasicCall(f, a) ==
    /\ Calling(f)
    /\ journal[f][a] = None
    /\ \/ /\ local[f][Basic(a)] # None
          /\ journal' = [journal EXCEPT ![f][a] = local[f][Basic(a)]]
          /\ UNCHANGED <<vars, op>>
       \/ /\ local[f][Basic(a)] = None
          /\ Send(f, Basic(a))
          /\ op' = [op EXCEPT ![f] = <<"basic", a>>]
          /\ UNCHANGED journal
    /\ UNCHANGED <<local, tx>>

\* a failed call ends the transaction with an error: nothing is committed
Abort(f) ==
    /\ op' = [op EXCEPT ![f] = NoOp]
    /\ tx' = [tx EXCEPT ![f] = "none"]
    /\ journal' = [journal EXCEPT ![f] = EmptyJournal]
    /\ UNCHANGED local

\* Database keeps a record of what it fetched, DatabaseRef does not
Record(f, k, v) ==
    local' = IF tx[f] = "mut"
             THEN [local EXCEPT ![f] = CacheInsert(@, k, v)]
             ELSE local

BasicReturn(f, a) ==
    /\ op[f] = <<"basic", a>>
    /\ Recv(f)
    /\ \/ /\ reply[f] = Failed
          /\ Abort(f)
       \/ /\ reply[f] # Failed
          /\ Record(f, Basic(a), reply[f])
          /\ journal' = [journal EXCEPT ![f][a] = reply[f]]
          /\ op' = [op EXCEPT ![f] = NoOp]
          /\ UNCHANGED tx

\* Database::storage asks for the account again before it asks for the slot;
\* DatabaseRef::storage asks for the slot only.  Injected accounts hold no
\* storage.
StorageCall(f, a, i) ==
    /\ Calling(f)
    /\ journal[f][a] # None
    /\ a \notin Injected
    /\ local[f][Storage(a, i)] = None
    /\ \/ /\ tx[f] = "mut"
          /\ Send(f, Basic(a))
          /\ op' = [op EXCEPT ![f] = <<"slot_info", a, i>>]
       \/ /\ tx[f] = "ref"
          /\ Send(f, Storage(a, i))
          /\ op' = [op EXCEPT ![f] = <<"slot", a, i>>]
    /\ UNCHANGED <<local, tx, journal>>

StorageInfoReturn(f, a, i) ==
    /\ op[f] = <<"slot_info", a, i>>
    /\ Recv(f)
    /\ \/ /\ reply[f] = Failed
          /\ Abort(f)
       \/ /\ reply[f] # Failed
          /\ Record(f, Basic(a), reply[f])
          /\ op' = [op EXCEPT ![f] = <<"slot_next", a, i>>]
          /\ UNCHANGED <<tx, journal>>

StorageNext(f, a, i) ==
    /\ op[f] = <<"slot_next", a, i>>
    /\ Send(f, Storage(a, i))
    /\ op' = [op EXCEPT ![f] = <<"slot", a, i>>]
    /\ UNCHANGED <<local, tx, journal>>

StorageReturn(f, a, i) ==
    /\ op[f] = <<"slot", a, i>>
    /\ Recv(f)
    /\ \/ /\ reply[f] = Failed
          /\ Abort(f)
       \/ /\ reply[f] # Failed
          /\ Record(f, Storage(a, i), reply[f])
          /\ op' = [op EXCEPT ![f] = NoOp]
          /\ UNCHANGED <<tx, journal>>

\* Database::block_hash looks in its own db first, DatabaseRef does not
BlockHashCall(f, n) ==
    /\ Calling(f)
    /\ tx[f] = "ref" \/ local[f][BlockHash(n)] = None
    /\ Send(f, BlockHash(n))
    /\ op' = [op EXCEPT ![f] = <<"hash", n>>]
    /\ UNCHANGED <<local, tx, journal>>

BlockHashReturn(f, n) ==
    /\ op[f] = <<"hash", n>>
    /\ Recv(f)
    /\ \/ /\ reply[f] = Failed
          /\ Abort(f)
       \/ /\ reply[f] # Failed
          /\ Record(f, BlockHash(n), reply[f])
          /\ op' = [op EXCEPT ![f] = NoOp]
          /\ UNCHANGED <<tx, journal>>

(***************************************************************************)
(* The transaction ends.  DatabaseCommit::commit writes the accounts it    *)
(* touched: those it changed, with some of the slots read, and those it    *)
(* left alone, from the journal.  A loaded account of a reverted call is   *)
(* not touched.                                                            *)
(***************************************************************************)
Committed(f, changed, touched, slots) ==
    [k \in Keys |->
        IF \E a \in changed : k = Basic(a) THEN "committed"
        ELSE IF k \in slots THEN "committed"
        ELSE IF \E a \in touched : k = Basic(a) THEN journal[f][k[2]]
        ELSE local[f][k]]

EndTx(f) ==
    /\ Calling(f)
    /\ LET loaded == {a \in Addrs : journal[f][a] # None} IN
       \E changed \in SUBSET loaded :
       \E touched \in SUBSET (loaded \ changed) :
       \E slots \in SUBSET {k \in StorageKeys : k[2] \in changed
                                                /\ local[f][k] # None} :
           local' = IF tx[f] = "mut"
                    THEN [local EXCEPT ![f] = Committed(f, changed, touched, slots)]
                    ELSE local
    /\ tx' = [tx EXCEPT ![f] = "none"]
    /\ journal' = [journal EXCEPT ![f] = EmptyJournal]
    /\ UNCHANGED <<vars, op>>

----------------------------------------------------------------------------
FactoryStep(g) ==
    \/ \E a \in Addrs : InsertAccountInfo(g, a)
    \/ \E a \in Addrs, i \in Slots : \/ InsertAccountStorage(g, a, i)
                                     \/ InsertAccountStorageDone(g, a, i)
    \/ \E f \in Forks : NewSandboxFork(g, f)

\* calls the EVM may or may not make
ForkCall(f) ==
    \/ \E mode \in {"mut", "ref"} : BeginTx(f, mode)
    \/ \E a \in Addrs : BasicCall(f, a)
    \/ \E a \in Addrs, i \in Slots : StorageCall(f, a, i)
    \/ \E n \in Numbers : BlockHashCall(f, n)

\* steps a fork takes once it has an answer
ForkReturn(f) ==
    \/ \E a \in Addrs : BasicReturn(f, a)
    \/ \E a \in Addrs, i \in Slots : \/ StorageInfoReturn(f, a, i)
                                     \/ StorageNext(f, a, i)
                                     \/ StorageReturn(f, a, i)
    \/ \E n \in Numbers : BlockHashReturn(f, n)

\* every Sender is dropped and the backend thread has ended
Terminated == phase = "ended" /\ UNCHANGED allVars

Next ==
    \/ BackendStep /\ UNCHANGED dbVars
    \/ NodeStep /\ UNCHANGED dbVars
    \/ \E c \in Clients : \/ FactoryStep(c) \/ DropClient(c)
                          \/ ForkCall(c) \/ ForkReturn(c) \/ EndTx(c)
    \/ Terminated

(***************************************************************************)
(* Fairness: the backend's thread runs whenever poll() has something to    *)
(* do, a blocked client continues once it has its answer, and the node     *)
(* answers every RPC or reports an error.  Nothing makes the EVM go on.    *)
(***************************************************************************)
Fairness ==
    /\ WF_allVars(BackendStep /\ UNCHANGED dbVars)
    /\ \A c \in Clients :
           /\ WF_allVars(ForkReturn(c))
           /\ WF_allVars(\E a \in Addrs, i \in Slots : InsertAccountStorageDone(c, a, i))
    /\ \A k \in Keys : WF_allVars(NodeAnswers(k) /\ UNCHANGED dbVars)

Spec == Init /\ [][Next]_allVars
FairSpec == Spec /\ Fairness

----------------------------------------------------------------------------
(* Properties                                                              *)

Waiting(c) == asking[c] # NoKey /\ reply[c] = None

\* A request that is not answered yet is in exactly one place: the channel,
\* queued_requests, or the listener list of its own key; an answered one is
\* in none.  on_request and poll() neither lose nor answer one twice.
RequestHeldOnce ==
    \A c \in Clients :
        /\ Waiting(c) <=> (c \in incoming \/ c \in queued
                              \/ \E k \in Keys : c \in listeners[k])
        /\ ~(c \in incoming /\ c \in queued)
        /\ \A k \in Keys : c \in listeners[k] =>
               k = asking[c] /\ c \notin incoming /\ c \notin queued

\* There is a future in pending_requests for a key exactly while somebody
\* listens for it, and never for a key the cache could answer: a key is
\* fetched once however many forks ask for it at the same time.
OneFetchPerKey ==
    \A k \in Keys : /\ listeners[k] # {} <=> fetch[k] # Idle
                    /\ fetch[k] # Idle => cache[k] = None

\* The backend sleeps without a wake-up on its way only when the channel and
\* the queue are empty, every future it holds has been polled, and some
\* client is still there to wake it.
NoLostWakeup ==
    phase = "parked" /\ ~notified =>
        /\ incoming = {} /\ queued = {}
        /\ senders # {}
        /\ \A k \in Keys : fetch[k] \in {Idle, InFlight}

\* When the backend returns because all Senders are gone, nobody is left
\* waiting for it: recv() and try_send never fail on a dead backend.
NobodyAbandoned ==
    phase = "ended" => senders = {} /\ \A c \in Clients : asking[c] = NoKey

\* The backend's CacheDB never makes up an empty account for an address whose
\* slot arrives first: a slot is cached only after its account.
NoMadeUpAccount ==
    \A a \in Addrs :
        /\ cache[Basic(a)] # "default"
        /\ \A i \in Slots :
               cache[Storage(a, i)] # None => cache[Basic(a)] # None

\* Every simulation runs on the same chain: a value a fork or a factory took
\* from the backend is the one the backend holds, although the node may have
\* mined the fork block between two fetches.
Agrees(c) == \A k \in Keys : local[c][k] \in Value => local[c][k] = cache[k]
ForksAgree == \A c \in Clients : Agrees(c)

\* What the backend has answered once for a key it answers for ever.
CacheStable ==
    [][\A k \in Keys : cache[k] # None => cache'[k] = cache[k]]_allVars

\* Every blocking database call returns.
EveryCallReturns ==
    \A c \in Clients : (asking[c] # NoKey) ~> (asking[c] = NoKey)

\* Once the last Sender is gone the backend thread ends.
BackendEnds == (senders = {}) ~> (phase = "ended")

----------------------------------------------------------------------------
(* The inductive invariant behind the safety properties, in two halves:    *)
(* what the backend keeps, and what its clients keep.                      *)

\* an answer that waits in a oneshot channel is an error or the cached value
AnswersFromCache ==
    \A c \in Clients :
        reply[c] # None => /\ asking[c] # NoKey
                           /\ reply[c] # Failed => reply[c] = cache[asking[c]]

\* a slot is asked for only when the backend knows its account
AccountBeforeSlot ==
    \A c \in Clients, a \in Addrs, i \in Slots :
        asking[c] = Storage(a, i) => cache[Basic(a)] # None

\* nothing is lost between two polls: while a pass over the futures runs and
\* no waker has fired, the channel is empty and the futures already passed
\* are running
NothingMissed ==
    /\ phase = "poll" /\ ~notified =>
           /\ incoming = {}
           /\ senders # {}
           /\ \A k \in Keys \ topoll : fetch[k] \in {Idle, InFlight}
    /\ NoLostWakeup

\* the backend ends after its clients, and only a live client asks
EndsLast ==
    /\ phase = "ended" => senders = {}
    /\ \A c \in Clients : asking[c] # NoKey => c \in senders

BackendInv ==
    /\ BackendTypeOK
    /\ RequestHeldOnce
    /\ OneFetchPerKey
    /\ AnswersFromCache
    /\ AccountBeforeSlot
    /\ \A k \in Keys : cache[k] # "default"
    /\ NoMadeUpAccount
    /\ NothingMissed
    /\ EndsLast

\* what client c asks for is what the database call it is in needs, and the
\* call that stores a slot has the account
OpAsks(c) ==
    /\ op[c] \in {NoOp, <<"panic">>} => asking[c] = NoKey
    /\ \A a \in Addrs :
           op[c] = <<"basic", a>> => asking[c] = Basic(a) /\ tx[c] # "none"
    /\ \A n \in Numbers :
           op[c] = <<"hash", n>> => asking[c] = BlockHash(n) /\ tx[c] # "none"
    /\ \A a \in Addrs, i \in Slots :
           /\ op[c] = <<"insert", a, i>> => asking[c] = Basic(a) /\ a \notin Injected
           /\ op[c] = <<"slot_info", a, i>> =>
                  asking[c] = Basic(a) /\ a \notin Injected /\ tx[c] = "mut"
           /\ op[c] = <<"slot_next", a, i>> =>
                  /\ asking[c] = NoKey /\ a \notin Injected /\ tx[c] = "mut"
                  /\ local[c][Basic(a)] # None
           /\ op[c] = <<"slot", a, i>> =>
                  /\ asking[c] = Storage(a, i) /\ tx[c] # "none"
                  /\ tx[c] = "mut" => local[c][Basic(a)] # None

\* a client that is busy holds its Sender, and a journal belongs to a
\* transaction
Busy(c) ==
    /\ op[c] # NoOp \/ tx[c] # "none" => c \in senders
    /\ tx[c] = "none" => \A a \in Addrs : journal[c][a] = None

\* an account that client c knows, unless injected by hand, the backend knows;
\* in a transaction that records what it fetches, the fork knows it too
KnownAccounts(c) ==
    \A a \in Addrs :
        /\ a \notin Injected /\ local[c][Basic(a)] # None => cache[Basic(a)] # None
        /\ a \notin Injected /\ journal[c][a] # None => cache[Basic(a)] # None
        /\ tx[c] = "mut" /\ journal[c][a] # None => local[c][Basic(a)] # None
        /\ journal[c][a] \in Value => journal[c][a] = cache[Basic(a)]

ClientOK(c) == Agrees(c) /\ OpAsks(c) /\ Busy(c) /\ KnownAccounts(c)

ClientInv == ClientTypeOK /\ \A c \in Clients : ClientOK(c)

IInv == BackendInv /\ ClientInv

----------------------------------------------------------------------------
(* The abstract specification the clients rely on.                         *)
SV == INSTANCE SharedView WITH asked <- asking, answer <- reply, view <- cache

\* The backend and its clients implement SharedView: polling, queueing,
\* deduplication and caching together look like one growing view of the chain.
ImplementsSharedView == SV!Spec
=============================================================================
