------------------------------- MODULE Startup -------------------------------
(***************************************************************************)
(* The start of the program (cli/cbdprotein/main.go): storage, settings,   *)
(* collectors and routes are set up one after the other, by one goroutine, *)
(* while the collectors that are there already process the snapshots of    *)
(* earlier lives, each in a goroutine of its own.  They meet in            *)
(*                                                                         *)
(*  - the database: GetAll (kv.go:50) returns slices of the pages it has   *)
(*    read, and New (collector.go:73) decodes them after the transaction,  *)
(*    while outputs are cached and failures pruned.  bbolt copies a page   *)
(*    when it is written; the old copy is free from then on, and the next  *)
(*    transaction that writes may reuse it.  Small buckets lie in one page *)
(*    with the root, which every write copies;                             *)
(*  - the echo router: main.go adds routes without a lock, the pprof       *)
(*    processor adds those of a profile under a mutex of its own, and at   *)
(*    any time; two writes to a map of the router may end the process;     *)
(*  - the configuration files of alp and slp.                              *)
(*                                                                         *)
(* What a start finds is any store.  No collection begins before the       *)
(* server listens, nobody reads the entries, and the bucket of the memos   *)
(* is empty (snapshot.go:122).                                             *)
(***************************************************************************)
EXTENDS Naturals, Sequences, FiniteSets

CONSTANTS
    Snapshots,      \* the stored snapshots; ids are times, which order the keys
    TypeOf          \* TypeOf[s]: Options.Type of the collector s belongs to

Commands == {"httplog", "slowlog"}
Types == Commands \cup {"pprof"}

ASSUME StartupAssumption ==
    /\ Snapshots \subseteq Nat \ {0} /\ IsFiniteSet(Snapshots)
    /\ TypeOf \in [Snapshots -> Types]

VARIABLES
    at,         \* the step of Boot that start() is at; 0: the process is down
    slices,     \* the slices New has not decoded yet, by the snapshot they are of
    page,       \* what has become of the page they point into: "none" (there are
                \* no slices), "current", "freed" or "reused"
    task,       \* task[s]: the goroutine for the slice of s: the snapshot it
                \* has decoded, and the step it is at
    pruning,    \* the goroutines started by `go snapshot.Prune()`
    entry,      \* entry[s]: the status of s in the collector of its type
    router,     \* who is adding routes: snapshots, and 0 for main.go
    stored,     \* on disk: the snapshots with meta data
    cached,     \* on disk: those with an entry in bucket "cache"
    files,      \* on disk: the configuration files
    sound,      \* the bodies that can be processed
    unsaved,    \* history: the snapshots whose output could not be stored in this life
    blurred     \* history: the snapshots whose slice was decoded when its page had been
                \* reused in this life, and those that were decoded from such slices

memory == <<at, slices, page, task, pruning, entry, router>>
disk == <<stored, cached, files>>
others == <<sound, unsaved, blurred>>
vars == <<memory, disk, others>>

-----------------------------------------------------------------------------
(***************************************************************************)
(* start(), after storage.New, step by step: "routes" adds routes,         *)
(* "config" is persistent.New, "new" is collect.New.                       *)
(***************************************************************************)

\* A mutant that sets up the collector of the logs before its configuration.
MutBoot ==
    <<[do |-> "routes", of |-> "event"],
      [do |-> "new",    of |-> "pprof"],   [do |-> "routes", of |-> "pprof"],
      [do |-> "new",    of |-> "httplog"], [do |-> "routes", of |-> "httplog"],
      [do |-> "config", of |-> "httplog"], [do |-> "routes", of |-> "httplog"],
      [do |-> "config", of |-> "slowlog"], [do |-> "routes", of |-> "slowlog"],
      [do |-> "new",    of |-> "slowlog"], [do |-> "routes", of |-> "slowlog"],
      [do |-> "new",    of |-> "memo"],    [do |-> "routes", of |-> "memo"],
      [do |-> "config", of |-> "group"],   [do |-> "routes", of |-> "group"],
      [do |-> "listen", of |-> "port"]>>

Boot ==
    <<[do |-> "routes", of |-> "event"],
      [do |-> "new",    of |-> "pprof"],   [do |-> "routes", of |-> "pprof"],
      [do |-> "config", of |-> "httplog"], [do |-> "routes", of |-> "httplog"],
      [do |-> "new",    of |-> "httplog"], [do |-> "routes", of |-> "httplog"],
      [do |-> "config", of |-> "slowlog"], [do |-> "routes", of |-> "slowlog"],
      [do |-> "new",    of |-> "slowlog"], [do |-> "routes", of |-> "slowlog"],
      [do |-> "new",    of |-> "memo"],    [do |-> "routes", of |-> "memo"],
      [do |-> "config", of |-> "group"],   [do |-> "routes", of |-> "group"],
      [do |-> "listen", of |-> "port"]>>

At(what) == at # 0 /\ Boot[at].do = what
Serving == At("listen")

Idle == [s \in Snapshots |-> [doc |-> s, step |-> "none"]]

Init ==
    /\ at = 0 /\ unsaved = {} /\ blurred = {}
    /\ slices = {} /\ page = "none"
    /\ task = Idle
    /\ pruning = {} /\ router = {}
    /\ entry = [s \in Snapshots |-> "absent"]
    /\ stored = Snapshots
    /\ cached \in SUBSET {s \in Snapshots : TypeOf[s] \in Commands}
    /\ \E some \in SUBSET (Snapshots \ cached) : sound = cached \cup some
    /\ files \in {{}, Commands \cup {"group"}}

\* The process is started and has opened the database.
Start ==
    /\ at = 0
    /\ at' = 1
    /\ UNCHANGED <<slices, page, task, pruning, entry, router, disk, others>>

\* A step returns an error and main panics, the runtime finds two writers in a map of
\* the router, or the process is killed.
Die ==
    /\ at # 0
    /\ at' = 0
    /\ slices' = {} /\ page' = "none"
    /\ task' = Idle
    /\ pruning' = {} /\ router' = {}
    /\ entry' = [s \in Snapshots |-> "absent"]
    /\ unsaved' = {} /\ blurred' = {}
    /\ UNCHANGED <<disk, sound>>

\* persistent.New: the file is left alone if it is there.
Config ==
    /\ At("config")
    /\ files' = files \cup {Boot[at].of}
    /\ at' = at + 1
    /\ UNCHANGED <<slices, page, task, pruning, entry, router, stored, cached, others>>

\* Register and RegisterHandlers: main.go is in the router, and out of it again.
AddRoutes ==
    /\ At("routes")
    /\ \/ /\ 0 \notin router
          /\ router' = router \cup {0}
          /\ UNCHANGED at
       \/ /\ 0 \in router
          /\ router' = router \ {0}
          /\ at' = at + 1
    /\ UNCHANGED <<slices, page, task, pruning, entry, disk, others>>

\* A mutant whose walk through the bucket begins behind the first key.
MutGetAll ==
    /\ At("new")
    /\ page = "none"
    /\ slices' = {s \in stored : /\ TypeOf[s] = Boot[at].of
                                /\ \E u \in stored : TypeOf[u] = TypeOf[s] /\ u < s}
    /\ page' = "current"
    /\ UNCHANGED <<at, task, pruning, entry, router, disk, others>>

\* store.GetAll(c.typ): slices of what the bucket holds.
GetAll ==
    /\ At("new")
    /\ page = "none"
    /\ slices' = {s \in stored : TypeOf[s] = Boot[at].of}
    /\ page' = "current"
    /\ UNCHANGED <<at, task, pruning, entry, router, disk, others>>

\* The documents the bytes of a slice may be by now: if the page has been reused, any that
\* has ever been stored.
Readable(s) == IF page = "reused" THEN Snapshots ELSE {s}

\* Once the page has been reused nothing is certain of s, and of what it has been read as.
Blurs(docs) == blurred' = IF page = "reused" THEN blurred \cup docs ELSE blurred

\* unmarshal and `go c.runProcessor(snapshot, false)`, in the order of the keys;
\* what cannot be parsed is logged and skipped.
Decode(s) ==
    /\ s \in slices
    /\ \A u \in slices : s <= u
    /\ slices' = slices \ {s}
    /\ \/ \E d \in Readable(s) :
             /\ task' = [task EXCEPT ![s] = [doc |-> d, step |-> "begin"]]
             /\ Blurs({s, d})
       \/ page = "reused" /\ UNCHANGED task /\ Blurs({s})
    /\ UNCHANGED <<at, page, pruning, entry, router, disk, sound, unsaved>>

NewReturns ==
    /\ At("new")
    /\ page # "none" /\ slices = {}
    /\ page' = "none"
    /\ at' = at + 1
    /\ UNCHANGED <<slices, task, pruning, entry, router, disk, others>>

-----------------------------------------------------------------------------
(***************************************************************************)
(* The goroutines of runProcessor.                                         *)
(***************************************************************************)

\* A transaction that writes has been committed: it has copied the page, and it
\* has put its own pages where there was a free one.
Commit ==
    \/ page = "none" /\ page' = "none"
    \/ page = "current" /\ page' = "freed"
    \/ page \in {"freed", "reused"} /\ page' \in {page, "reused"}

Goto(s, step) == task' = [task EXCEPT ![s].step = step]
Ends(s) == task' = [task EXCEPT ![s] = [doc |-> s, step |-> "done"]]

\* updateStatus: the collector that runs task s has the entry, which is the one
\* that is modelled if the snapshot is of its type.
Update(s, status) ==
    LET d == task[s].doc IN
    entry' = IF TypeOf[d] = TypeOf[s] THEN [entry EXCEPT ![d] = status] ELSE entry

\* Process returns an error, and runProcessor starts Prune.
Fails(s) == Goto(s, "fail") /\ pruning' = pruning \cup {task[s].doc}

Begin(s) ==
    /\ task[s].step = "begin"
    /\ Update(s, "pending")
    /\ Goto(s, "exists")
    /\ UNCHANGED <<at, slices, page, pruning, router, disk, others>>

\* store.Exists: a cached output is served, and runProcessor closes it unread.
Exists(s) ==
    /\ task[s].step = "exists"
    /\ Goto(s, IF task[s].doc \in cached THEN "ok" ELSE "run")
    /\ UNCHANGED <<at, slices, page, pruning, entry, router, disk, others>>

\* What the processor of task s can make something of.  A body of another type
\* may be accepted or not, and so may one be without the configuration.
Accepted(s) == task[s].doc \in sound \/ TypeOf[task[s].doc] # TypeOf[s]
Refused(s) ==
    \/ task[s].doc \notin sound \/ TypeOf[task[s].doc] # TypeOf[s]
    \/ TypeOf[s] \in Commands /\ TypeOf[s] \notin files

\* internal.Process: the command, or the parsing of a profile.
Run(s) ==
    /\ task[s].step = "run"
    /\ \/ /\ Accepted(s)
          /\ Goto(s, IF TypeOf[s] \in Commands THEN "put" ELSE "route")
          /\ UNCHANGED pruning
       \/ Refused(s) /\ Fails(s)
    /\ UNCHANGED <<at, slices, page, entry, router, disk, others>>

\* store.Put(cacheTypeKey, ...)
PutCache(s) ==
    /\ task[s].step = "put"
    /\ \/ /\ cached' = cached \cup {task[s].doc}
          /\ Commit
          /\ Goto(s, "ok")
          /\ UNCHANGED <<pruning, unsaved>>
       \/ /\ Fails(s)
          /\ unsaved' = unsaved \cup {task[s].doc}
          /\ UNCHANGED <<cached, page>>
    /\ UNCHANGED <<at, slices, entry, router, stored, files, sound, blurred>>

\* registerProfileHandlers, under p.mu
EnterRouter(s) ==
    /\ task[s].step = "route"
    /\ router \subseteq {0}
    /\ router' = router \cup {s}
    /\ Goto(s, "routing")
    /\ UNCHANGED <<at, slices, page, pruning, entry, disk, others>>

LeaveRouter(s) ==
    /\ task[s].step = "routing"
    /\ router' = router \ {s}
    /\ Goto(s, "ok")
    /\ UNCHANGED <<at, slices, page, pruning, entry, disk, others>>

\* A mutant that has gone on when it sets the status.
MutFinalize(s) ==
    /\ task[s].step \in {"ok", "fail"}
    /\ Ends(s)
    /\ Update(s, task'[s].step)
    /\ UNCHANGED <<at, slices, page, pruning, router, disk, others>>

\* finalize, with notify = false
Finalize(s) ==
    /\ task[s].step \in {"ok", "fail"}
    /\ Update(s, task[s].step)
    /\ Ends(s)
    /\ UNCHANGED <<at, slices, page, pruning, router, disk, others>>

\* snapshot.Prune(): store.Delete under the type and the id that were decoded.
Prune(d) ==
    /\ d \in pruning
    /\ pruning' = pruning \ {d}
    /\ \/ stored' = stored \ {d} /\ Commit
       \/ UNCHANGED <<stored, page>>
    /\ UNCHANGED <<at, slices, task, entry, router, cached, files, others>>

-----------------------------------------------------------------------------

Boots == Config \/ AddRoutes \/ GetAll \/ (\E s \in Snapshots : Decode(s)) \/ NewReturns

Process(s) ==
    \/ Begin(s) \/ Exists(s) \/ Run(s) \/ PutCache(s)
    \/ EnterRouter(s) \/ LeaveRouter(s) \/ Finalize(s)

\* The server listens and every goroutine has ended.
Rests ==
    /\ Serving
    /\ \A s \in Snapshots : task[s].step \in {"none", "done"}
    /\ pruning = {}
    /\ UNCHANGED vars

Next ==
    \/ Start \/ Die \/ Boots \/ Rests
    \/ \E s \in Snapshots : Process(s) \/ Prune(s)

Spec == Init /\ [][Next]_vars

-----------------------------------------------------------------------------
(***************************************************************************)
(* Properties.                                                             *)
(***************************************************************************)

TaskSteps == {"none", "begin", "exists", "run", "put", "route", "routing", "ok", "fail", "done"}

TypeOK ==
    /\ at \in 0 .. Len(Boot)
    /\ slices \subseteq Snapshots
    /\ page \in {"none", "current", "freed", "reused"}
    /\ task \in [Snapshots -> [doc : Snapshots, step : TaskSteps]]
    /\ pruning \subseteq Snapshots
    /\ entry \in [Snapshots -> {"absent", "pending", "ok", "fail"}]
    /\ router \subseteq Snapshots \cup {0}
    /\ stored \subseteq Snapshots
    /\ cached \subseteq Snapshots
    /\ files \subseteq Commands \cup {"group"}
    /\ sound \subseteq Snapshots
    /\ unsaved \subseteq Snapshots
    /\ blurred \subseteq Snapshots

\* What is Ready, or would be if it were processed now.
Healthy == {s \in Snapshots : s \in cached \/ (s \in sound /\ s \notin unsaved)}

\* No start, wherever it is interrupted, takes such a snapshot out of the store: Prune
\* (collector.go:124) hits only what could not be processed, in none of its steps misled
\* by a configuration file that is not there yet (alp/handler.go:30) or by a goroutine for
\* another snapshot.  Excepted is what has been read from a page that is not what it was
\* (kv.go:60), which takes two transactions between GetAll and Decode.
HealthyIsKept == [][(stored \ stored') \cap Healthy \subseteq blurred]_vars

\* "Snapshots reprocessed at startup" (collector.go:23) are all that are stored, every
\* one at every restart (README.md:38): when the server listens and the goroutines have
\* ended, each is listed, as ok if it can be processed and its output could be stored.
\* Excepted are those of which this start has lost sight in the same way; the next one
\* lists them again.
RestartListsAll ==
    Serving /\ (\A s \in Snapshots : task[s].step \in {"none", "done"}) =>
        \A s \in stored \ blurred :
            entry[s] = "ok" \/ (entry[s] = "fail" /\ s \notin Healthy)

=============================================================================
