------------------------------ MODULE Collector ------------------------------
(***************************************************************************)
(* internal/collect: one Collector (one type of snapshots), the store it   *)
(* writes to and the processor behind it.                                  *)
(*                                                                         *)
(* Every snapshot is collected and processed by a goroutine of its own,    *)
(* which goes through the steps of pc[id].  Requests for processed data    *)
(* (Get) run beside them and process a snapshot as well.  They meet in the *)
(* entries c.data, guarded by the RWMutex c.mu, and in the store.  The     *)
(* process may be killed at any time; what New then finds in the store is  *)
(* processed again.                                                        *)
(***************************************************************************)
EXTENDS Naturals, Sequences, FiniteSets

CONSTANTS
    Ids,            \* snapshot ids: the nanoseconds at which they were made
    Gets,           \* requests for processed data that may run at a time
    Typ,            \* Options.Type
    NoOne,          \* no writer holds the lock; no snapshot is being read
    Kind,           \* the processor: "command" (alp, slp), "memo" or "pprof"
    Eager,          \* bound: the snapshots, and the lives of the process, <<id, n>>, in
                    \* which clients ask for their data before they are ok
    Streams,        \* event streams (GET /api/event) that may be open at a time
    MaxRestarts     \* bound on the number of restarts

ASSUME CollectorAssumption ==
    /\ Ids \cap Gets = {}
    /\ Typ \notin Ids
    /\ NoOne \notin Ids
    /\ Kind \in {"command", "memo", "pprof"}
    /\ Eager \subseteq Ids \X Nat
    /\ MaxRestarts \in Nat

VARIABLES
    \* in memory
    pc,         \* pc[id]: the next step of the goroutine of snapshot id
    replayed,   \* replayed[id]: it was started by New, with notify = false
    data,       \* c.data: the status of the entry, "absent" if there is none
    published,  \* the status in the last event about the snapshot
    writer,     \* the writer that has announced itself at c.mu, or NoOne
    call,       \* call[c]: the next step of the call of Process by c
    output,     \* output[c]: what the command of call c has made of the body
    subject,    \* subject[g]: the snapshot Get g is about
    pruning,    \* the goroutines started by `go snapshot.Prune()`
    routes,     \* the snapshots whose pprof handlers are registered
    \* the event hub
    streams,    \* the event streams that are open
    owed,       \* those that have still to take the event that is being published
    \* on disk
    kv,         \* the (bucket, key) pairs of the bbolt database that hold meta data
    body,       \* body[id]: the file, "none", "partial" (maybe empty) or "full"
    cache,      \* cache[id]: the entry of bucket "cache": "none", or what the
                \* output it holds was made of
    \* history and bound
    peeked,     \* the snapshots whose file a Get has processed before all of it was there
    hooked,     \* hooked[id]: the statuses the hook has been called with
    restarts    \* how often the process has been restarted

memory == <<pc, replayed, data, published, writer, call, output, subject, pruning, routes>>
hub == <<streams, owed>>
disk == <<kv, body, cache, peeked>>
vars == <<memory, disk, hub, hooked, restarts>>

Callers == Ids \cup Gets

\* The file a call of Process is about.
Subject(c) == IF c \in Ids THEN c ELSE subject[c]

Cacheable == Kind = "command"

\* Get is holding the read lock until Process has returned.
Readers == {g \in Gets : call[g] # "none"}

Init ==
    /\ pc = [id \in Ids |-> "unused"]
    /\ replayed = [id \in Ids |-> FALSE]
    /\ data = [id \in Ids |-> "absent"]
    /\ published = [id \in Ids |-> "absent"]
    /\ writer = NoOne
    /\ call = [c \in Callers |-> "none"]
    /\ output = [c \in Callers |-> "none"]
    /\ subject = [g \in Gets |-> NoOne]
    /\ pruning = {}
    /\ routes = {}
    /\ streams = {} /\ owed = {}
    /\ kv = {}
    /\ body = [id \in Ids |-> "none"]
    /\ cache = [id \in Ids |-> "none"]
    /\ peeked = {}
    /\ hooked = [id \in Ids |-> <<>>]
    /\ restarts = 0

Goto(id, step) == pc' = [pc EXCEPT ![id] = step]

-----------------------------------------------------------------------------
(***************************************************************************)
(* updateStatus, with the write lock of c.mu.  A writer first announces    *)
(* itself, which keeps new readers out, and then waits for the readers.    *)
(* It publishes the event before it releases the lock: go-sse hands it to  *)
(* one stream after the other and waits until each has taken it.           *)
(***************************************************************************)

AboutToUpdate == {"collecting", "processing", "ok", "fail"}

Lock(id) ==
    /\ pc[id] \in AboutToUpdate
    /\ writer = NoOne
    /\ writer' = id
    /\ UNCHANGED <<pc, replayed, data, published, call, output, subject, pruning,
                   routes, disk, hooked, restarts, hub>>

\* The entry is replaced, and Publish is called.
UpdateStatus(id, status) ==
    /\ writer = id
    /\ Readers = {}
    /\ data' = [data EXCEPT ![id] = status]
    /\ published' = [published EXCEPT ![id] = status]
    /\ owed' = streams
    /\ UNCHANGED <<writer, streams>>

\* A mutant that publishes in the background.
MutUnlock(id) ==
    /\ writer = id
    /\ pc[id] \notin AboutToUpdate
    /\ writer' = NoOne
    /\ UNCHANGED <<pc, replayed, data, published, call, output, subject, pruning,
                   routes, disk, hooked, restarts, hub>>

\* Publish has returned; so does updateStatus.  Until then its goroutine is here.
Unlock(id) ==
    /\ writer = id
    /\ pc[id] \notin AboutToUpdate
    /\ owed = {}
    /\ writer' = NoOne
    /\ UNCHANGED <<pc, replayed, data, published, call, output, subject, pruning,
                   routes, disk, hooked, restarts, hub>>

\* A page opens the stream of events, reads an event, or goes away.
Subscribe(s) ==
    /\ s \notin streams
    /\ streams' = streams \cup {s}
    /\ UNCHANGED <<memory, owed, disk, hooked, restarts>>

Take(s) ==
    /\ s \in owed
    /\ owed' = owed \ {s}
    /\ UNCHANGED <<memory, streams, disk, hooked, restarts>>

Leave(s) ==
    /\ s \in streams
    /\ streams' = streams \ {s}
    /\ owed' = owed \ {s}
    /\ UNCHANGED <<memory, disk, hooked, restarts>>

-----------------------------------------------------------------------------
(***************************************************************************)
(* Collect and Add up to the processor.  Collect has a URL and a duration. *)
(***************************************************************************)

\* newSnapshot
Begin(id) ==
    /\ pc[id] = "unused"
    /\ Goto(id, "collecting")
    /\ UNCHANGED <<replayed, data, published, writer, call, output, subject,
                   pruning, routes, disk, hooked, restarts, hub>>

\* updateStatus(snapshot, StatusPending, "Collecting").  Add has its content.
Collecting(id) ==
    /\ pc[id] = "collecting"
    /\ UpdateStatus(id, "pending")
    /\ Goto(id, IF Kind = "memo" THEN "meta" ELSE "fetch")
    /\ UNCHANGED <<replayed, call, output, subject, pruning, routes, disk,
                   hooked, restarts>>

\* The request to the target: an error of any kind, or content.
Fetch(id) ==
    /\ pc[id] = "fetch" /\ writer # id
    /\ Goto(id, "meta") \/ Goto(id, "fail")
    /\ UNCHANGED <<replayed, data, published, writer, call, output, subject,
                   pruning, routes, disk, hooked, restarts, hub>>

\* The arguments of store.Put: Collect gives (type, id), Add gives (id, type).
MetaKey(id) == IF Kind = "memo" THEN <<id, Typ>> ELSE <<Typ, id>>

PutMeta(id) ==
    /\ pc[id] = "meta" /\ writer # id
    /\ \/ /\ kv' = kv \cup {MetaKey(id)}
          /\ Goto(id, "create")
       \/ /\ Goto(id, "fail")
          /\ UNCHANGED kv
    /\ UNCHANGED <<replayed, data, published, writer, call, output, subject,
                   pruning, routes, body, cache, peeked, hooked, restarts, hub>>

\* PutFile: os.Create, then file.Write.
CreateBody(id) ==
    /\ pc[id] = "create"
    /\ \/ /\ body' = [body EXCEPT ![id] = "partial"]
          /\ Goto(id, "write")
       \/ /\ Goto(id, "fail")
          /\ UNCHANGED body
    /\ UNCHANGED <<replayed, data, published, writer, call, output, subject,
                   pruning, routes, kv, cache, peeked, hooked, restarts, hub>>

\* A mutant that does not look at the error of file.Write.
MutWriteBody(id) ==
    /\ pc[id] = "write"
    /\ body' = [body EXCEPT ![id] = "full"] \/ UNCHANGED body
    /\ Goto(id, "processing")
    /\ UNCHANGED <<replayed, data, published, writer, call, output, subject,
                   pruning, routes, kv, cache, peeked, hooked, restarts, hub>>

\* It may fail, and the process may be killed before: what is there then stays.
WriteBody(id) ==
    /\ pc[id] = "write"
    /\ \/ /\ body' = [body EXCEPT ![id] = "full"]
          /\ Goto(id, "processing")
       \/ /\ Goto(id, "fail")
          /\ UNCHANGED body
    /\ UNCHANGED <<replayed, data, published, writer, call, output, subject,
                   pruning, routes, kv, cache, peeked, hooked, restarts, hub>>

-----------------------------------------------------------------------------
(***************************************************************************)
(* cachedProcessor.Process, called by runProcessor and by Get.  Serving    *)
(* the cache only reads the store and is part of the step before it.       *)
(***************************************************************************)

\* store.Exists(cacheTypeKey, id)
Exists(id) == cache[id] # "none"

\* The cached output is served if there is one; the store may fail.
CheckCache(c) ==
    /\ call[c] = "exists" /\ writer # c
    /\ \/ call' = [call EXCEPT ![c] = IF Exists(Subject(c)) THEN "ok" ELSE "generate"]
       \/ call' = [call EXCEPT ![c] = "failed"]
    /\ UNCHANGED <<pc, replayed, data, published, writer, output, subject, pruning,
                   routes, disk, hooked, restarts, hub>>

\* The internal processor can make something of what is in the file: memo of
\* every file, pprof of no truncated profile.
CanProcess(id) ==
    IF Kind = "pprof" THEN body[id] = "full" ELSE body[id] # "none"

\* internal.Process: the command may fail on any file.
Generate(c) ==
    /\ call[c] = "generate"
    /\ \/ /\ CanProcess(Subject(c))
          /\ call' = [call EXCEPT ![c] = IF Cacheable THEN "store" ELSE "ok"]
          /\ output' = IF Cacheable THEN [output EXCEPT ![c] = body[Subject(c)]] ELSE output
          /\ routes' = IF Kind = "pprof" THEN routes \cup {Subject(c)} ELSE routes
          /\ peeked' = IF c \in Gets /\ body[Subject(c)] = "partial"
                       THEN peeked \cup {Subject(c)} ELSE peeked
       \/ /\ Kind = "memo" => ~CanProcess(Subject(c))
          /\ call' = [call EXCEPT ![c] = "failed"]
          /\ UNCHANGED <<output, routes, peeked>>
    /\ UNCHANGED <<pc, replayed, data, published, writer, subject, pruning, kv, body,
                   cache, hooked, restarts, hub>>

\* A mutant that does not look at the error of store.Put.
MutStoreCache(c) ==
    /\ call[c] = "store"
    /\ cache' = [cache EXCEPT ![Subject(c)] = output[c]] \/ UNCHANGED cache
    /\ call' = [call EXCEPT ![c] = "ok"]
    /\ output' = [output EXCEPT ![c] = "none"]
    /\ UNCHANGED <<pc, replayed, data, published, writer, subject, pruning, routes,
                   kv, body, peeked, hooked, restarts, hub>>

\* store.Put(cacheTypeKey, snapshot.ID, cacheContent)
StoreCache(c) ==
    /\ call[c] = "store"
    /\ \/ /\ cache' = [cache EXCEPT ![Subject(c)] = output[c]]
          /\ call' = [call EXCEPT ![c] = "ok"]
       \/ /\ call' = [call EXCEPT ![c] = "failed"]
          /\ UNCHANGED cache
    /\ output' = [output EXCEPT ![c] = "none"]
    /\ UNCHANGED <<pc, replayed, data, published, writer, subject, pruning, routes,
                   kv, body, peeked, hooked, restarts, hub>>

Process(c) == CheckCache(c) \/ Generate(c) \/ StoreCache(c)

-----------------------------------------------------------------------------
(***************************************************************************)
(* runProcessor and finalize.                                              *)
(***************************************************************************)

\* updateStatus(snapshot, StatusPending, "Processing"); processor.Process
Processing(id) ==
    /\ pc[id] = "processing"
    /\ UpdateStatus(id, "pending")
    /\ Goto(id, "process")
    /\ call' = [call EXCEPT ![id] = "exists"]
    /\ UNCHANGED <<replayed, output, subject, pruning, routes, disk, hooked, restarts>>

\* A mutant that prunes what has been processed, whatever came of it.
MutProcessed(id) ==
    /\ pc[id] = "process"
    /\ call[id] \in {"ok", "failed"}
    /\ pruning' = pruning \cup {id}
    /\ Goto(id, IF call[id] = "ok" THEN "ok" ELSE "fail")
    /\ call' = [call EXCEPT ![id] = "none"]
    /\ UNCHANGED <<replayed, data, published, writer, output, subject, routes,
                   disk, hooked, restarts, hub>>

\* Process has returned; after an error the snapshot is pruned in the background.
Processed(id) ==
    /\ pc[id] = "process"
    /\ \/ /\ call[id] = "ok"
          /\ Goto(id, "ok")
          /\ UNCHANGED pruning
       \/ /\ call[id] = "failed"
          /\ pruning' = pruning \cup {id}
          /\ Goto(id, "fail")
    /\ call' = [call EXCEPT ![id] = "none"]
    /\ UNCHANGED <<replayed, data, published, writer, output, subject, routes,
                   disk, hooked, restarts, hub>>

\* A mutant that goes on to the processor after a failed collection.
MutFinalize(id) ==
    /\ pc[id] \in {"ok", "fail"}
    /\ UpdateStatus(id, pc[id])
    /\ Goto(id, IF pc[id] = "fail" /\ body[id] = "none" THEN "processing" ELSE "hook")
    /\ UNCHANGED <<replayed, call, output, subject, pruning, routes, disk,
                   hooked, restarts>>

\* finalize, up to the hook
Finalize(id) ==
    /\ pc[id] \in {"ok", "fail"}
    /\ UpdateStatus(id, pc[id])
    /\ Goto(id, "hook")
    /\ UNCHANGED <<replayed, call, output, subject, pruning, routes, disk,
                   hooked, restarts>>

\* A mutant that does not look at the parameter notify.
MutHook(id) ==
    /\ pc[id] = "hook" /\ writer # id
    /\ hooked' = [hooked EXCEPT ![id] = Append(@, data[id])]
    /\ Goto(id, "done")
    /\ UNCHANGED <<replayed, data, published, writer, call, output, subject,
                   pruning, routes, disk, restarts, hub>>

\* c.hook(entry) with the entry that finalize has stored.
Hook(id) ==
    /\ pc[id] = "hook" /\ writer # id
    /\ hooked' = IF replayed[id] THEN hooked ELSE [hooked EXCEPT ![id] = Append(@, data[id])]
    /\ Goto(id, "done")
    /\ UNCHANGED <<replayed, data, published, writer, call, output, subject,
                   pruning, routes, disk, restarts, hub>>

\* snapshot.Prune(), which always deletes under (type, id).
Prune(id) ==
    /\ id \in pruning
    /\ pruning' = pruning \ {id}
    /\ kv' = kv \ {<<Typ, id>>} \/ kv' = kv
    /\ UNCHANGED <<pc, replayed, data, published, writer, call, output, subject,
                   routes, body, cache, peeked, hooked, restarts, hub>>

-----------------------------------------------------------------------------
(***************************************************************************)
(* Get.  Nobody asks pprof for processed data.                             *)
(***************************************************************************)

GetBegin(g) ==
    /\ Kind # "pprof"
    /\ call[g] = "none"
    /\ writer = NoOne
    /\ \E id \in Ids :
          /\ data[id] # "absent"
          /\ data[id] = "ok" \/ <<id, restarts>> \in Eager
          /\ subject' = [subject EXCEPT ![g] = id]
    /\ call' = [call EXCEPT ![g] = "exists"]
    /\ UNCHANGED <<pc, replayed, data, published, writer, output, pruning, routes,
                   disk, hooked, restarts, hub>>

\* A mutant that does not release the read lock.
MutGetEnd(g) ==
    /\ call[g] \in {"ok", "failed"}
    /\ subject' = [subject EXCEPT ![g] = NoOne]
    /\ UNCHANGED <<pc, replayed, data, published, writer, call, output, pruning,
                   routes, disk, hooked, restarts, hub>>

GetEnd(g) ==
    /\ call[g] \in {"ok", "failed"}
    /\ call' = [call EXCEPT ![g] = "none"]
    /\ subject' = [subject EXCEPT ![g] = NoOne]
    /\ UNCHANGED <<pc, replayed, data, published, writer, output, pruning, routes,
                   disk, hooked, restarts, hub>>

-----------------------------------------------------------------------------
(***************************************************************************)
(* The process is killed and started again: New reads the snapshots of its *)
(* type and starts a goroutine for each, before any request is served.     *)
(***************************************************************************)

\* store.GetAll(c.typ): what is in the bucket of the type.
GetAll == {id \in Ids : <<Typ, id>> \in kv}

Restart ==
    /\ restarts < MaxRestarts
    /\ restarts' = restarts + 1
    /\ pc' = [id \in Ids |-> IF id \in GetAll THEN "processing"
                             ELSE IF pc[id] = "unused" THEN "unused" ELSE "gone"]
    /\ replayed' = [id \in Ids |-> id \in GetAll]
    /\ data' = [id \in Ids |-> "absent"]
    /\ published' = [id \in Ids |-> "absent"]
    /\ writer' = NoOne
    /\ call' = [c \in Callers |-> "none"]
    /\ output' = [c \in Callers |-> "none"]
    /\ subject' = [g \in Gets |-> NoOne]
    /\ pruning' = {}
    /\ routes' = {}
    /\ streams' = {} /\ owed' = {}
    /\ UNCHANGED <<disk, hooked>>

-----------------------------------------------------------------------------

Task(id) ==
    \/ Lock(id) \/ Unlock(id)
    \/ Begin(id) \/ Collecting(id) \/ Fetch(id)
    \/ PutMeta(id) \/ CreateBody(id) \/ WriteBody(id)
    \/ Processing(id) \/ Processed(id) \/ Finalize(id) \/ Hook(id)

\* No goroutine is left, and no snapshot is being requested.
Quiescent ==
    /\ \A id \in Ids : pc[id] \in {"done", "gone"}
    /\ pruning = {}
    /\ Readers = {}

Terminated == Quiescent /\ UNCHANGED vars

Next ==
    \/ \E id \in Ids : Task(id) \/ Prune(id)
    \/ \E c \in Callers : Process(c)
    \/ \E g \in Gets : GetBegin(g) \/ GetEnd(g)
    \/ \E s \in Streams : Subscribe(s) \/ Take(s) \/ Leave(s)
    \/ Restart
    \/ Terminated

Spec == Init /\ [][Next]_vars

(***************************************************************************)
(* Fairness: a goroutine that can go on does, a command ends.  A lock that *)
(* is free again and again is acquired (sync.Mutex and RWMutex do not let  *)
(* a waiter starve).  A page reads its stream, or its connection breaks.   *)
(* Nothing is assumed about the answer of a target: the client of          *)
(* snapshot.go:70 has no timeout.                                          *)
(***************************************************************************)
Running(id) ==
    \/ Unlock(id) \/ Collecting(id) \/ PutMeta(id) \/ CreateBody(id) \/ WriteBody(id)
    \/ Processing(id) \/ Process(id) \/ Processed(id) \/ Finalize(id) \/ Hook(id)

Fairness ==
    /\ \A id \in Ids : WF_vars(Running(id)) /\ SF_vars(Lock(id)) /\ WF_vars(Prune(id))
    /\ \A g \in Gets : WF_vars(Process(g) \/ GetEnd(g))
    /\ \A s \in Streams : WF_vars(Take(s) \/ (s \in owed /\ Leave(s)))

FairSpec == Spec /\ Fairness

-----------------------------------------------------------------------------
(***************************************************************************)
(* Properties.                                                             *)
(***************************************************************************)

Steps == {"unused", "collecting", "fetch", "meta", "create", "write", "processing",
          "process", "ok", "fail", "hook", "done", "gone"}

EntryStatuses == {"absent", "pending", "ok", "fail"}

Contents == {"none", "partial", "full"}

TypeOK ==
    /\ pc \in [Ids -> Steps]
    /\ replayed \in [Ids -> BOOLEAN]
    /\ data \in [Ids -> EntryStatuses]
    /\ published \in [Ids -> EntryStatuses]
    /\ writer \in Ids \cup {NoOne}
    /\ call \in [Callers -> {"none", "exists", "generate", "store", "ok", "failed"}]
    /\ output \in [Callers -> Contents]
    /\ subject \in [Gets -> Ids \cup {NoOne}]
    /\ \A g \in Gets : call[g] # "none" => subject[g] \in Ids
    /\ pruning \subseteq Ids
    /\ routes \subseteq Ids
    /\ streams \subseteq Streams /\ owed \subseteq streams
    /\ kv \subseteq {<<Typ, id>> : id \in Ids} \cup {<<id, Typ>> : id \in Ids}
    /\ body \in [Ids -> Contents]
    /\ cache \in [Ids -> Contents]
    /\ peeked \subseteq Ids
    /\ hooked \in [Ids -> Seq({"ok", "fail"})]
    /\ restarts \in 0 .. MaxRestarts

\* "Hook is called once per collection that reaches a terminal status. Snapshots
\* reprocessed at startup do not trigger it." (collector.go:22): never twice over
\* all the lives of the process, and never with a status other than the entry's.
HookedOnce ==
    \A id \in Ids :
        /\ Len(hooked[id]) <= 1
        /\ pc[id] = "done" /\ ~replayed[id] => hooked[id] = <<data[id]>>

\* A snapshot that is listed as ok is found again by the next start: its meta
\* data is in the store under its type, and no background prune is on its way.
OkIsDurable ==
    \A id \in Ids : data[id] = "ok" => <<Typ, id>> \in kv /\ id \notin pruning

\* "Ready" (collector.go:132) means that there is something to show, made of the
\* whole content that was collected: a cached output, a profile page, or a file.  A
\* command may have accepted less, of a file that was torn (snapshot.go:104) and is
\* processed again by a later start, or of one that a Get has read too early.
ReadyIsWhole ==
    \A id \in Ids : data[id] = "ok" =>
        CASE Kind = "command" -> \/ cache[id] = "full"
                                 \/ cache[id] = "partial" /\ id \in peeked
                                 \/ cache[id] = "partial" /\ body[id] = "partial" /\ replayed[id]
          [] Kind = "pprof"   -> id \in routes /\ body[id] = "full"
          [] Kind = "memo"    -> body[id] = "full"

\* What the hook has been told is ok was collected whole, and is cached as it was made of
\* the whole for as long as no Get has come too early: neither a failed write nor a kill
\* leads to a check mark for half a file, over all the lives of the process.
ToldIsWhole ==
    \A id \in Ids : hooked[id] = <<"ok">> =>
        /\ body[id] = "full"
        /\ Kind = "command" => cache[id] = "full" \/ (cache[id] = "partial" /\ id \in peeked)

\* A subscriber of the events knows the status of every entry (collector.go:97).
EventsFollowData == \A id \in Ids : published[id] = data[id]

\* Events do not overtake each other: within one life of the process an entry is
\* replaced by the goroutine that holds the lock, while no request reads the entries,
\* and not before every stream has taken, or lost, the previous event.  So a stream
\* that stays sees each status of each entry, in order (collector.go:97-104).
EventsInOrder ==
    [][\A id \in Ids : data'[id] # data[id] =>
          \/ writer = id /\ Readers = {} /\ owed = {} /\ owed' = streams /\ published'[id] = data'[id]
          \/ restarts' # restarts]_vars

\* A collection that does not wait for its target settles, and so does a snapshot
\* that is processed again, although requests hold the lock while commands run
\* (collector.go:137-145).
Settles ==
    \A id \in Ids :
        pc[id] \in {"collecting", "meta", "processing"} ~> pc[id] \in {"fetch", "done", "gone"}

\* The promise of SnapshotLifecycle: in particular, whatever was listed as ok
\* before a restart is processed again after it (collector.go:68-80).
Abstract == INSTANCE SnapshotLifecycle WITH
    entry    <- data,
    accepted <- {id \in Ids : pc[id] # "unused"},
    restored <- {id \in Ids : replayed[id]},
    told     <- hooked

ImplementsLifecycle == Abstract!Spec

=============================================================================
