--------------------------- MODULE CollectorProofs ---------------------------
(***************************************************************************)
(* Theorems about Collector, for any number of snapshots, requests and     *)
(* restarts.                                                               *)
(***************************************************************************)
EXTENDS Collector, TLAPS

LEMMA SubjectType == ASSUME TypeOK, NEW c \in Callers, call[c] # "none", c \notin Ids
                     PROVE  Subject(c) \in Ids
BY DEF TypeOK, Callers, Subject

\* An entry has a terminal status exactly when finalize has stored it.
Settled == {"hook", "done"}

TerminalWhenSettled ==
    \A id \in Ids : data[id] \in {"ok", "fail"} <=> pc[id] \in Settled

TypeInv == TypeOK /\ TerminalWhenSettled

-----------------------------------------------------------------------------
(***************************************************************************)
(* Type correctness.  The hook is only called with a terminal status, so   *)
(* the invariant has to know when an entry has one.                        *)
(***************************************************************************)

LEMMA InitTypeInv == Init => TypeInv
BY CollectorAssumption
   DEF Init, TypeInv, TypeOK, TerminalWhenSettled, Settled, Steps, EntryStatuses, Contents, Callers

LEMMA StepTypeInv == TypeInv /\ [Next]_vars => TypeInv'
<1> SUFFICES ASSUME TypeInv, [Next]_vars PROVE TypeInv'
  OBVIOUS
<1> USE DEF TypeInv, TerminalWhenSettled, Settled, Goto, disk, hub
<1>1. ASSUME NEW id \in Ids, Lock(id) \/ Unlock(id) PROVE TypeInv'
  BY <1>1 DEF Lock, Unlock, TypeOK
<1>2. ASSUME NEW id \in Ids, Begin(id) \/ Fetch(id) PROVE TypeInv'
  BY <1>2 DEF Begin, Fetch, TypeOK, Steps
<1>3. ASSUME NEW id \in Ids, Collecting(id) PROVE TypeInv'
  BY <1>3 DEF Collecting, UpdateStatus, TypeOK, Steps, EntryStatuses
<1>4. ASSUME NEW id \in Ids, PutMeta(id) PROVE TypeInv'
  <2>1. pc[id] = "meta" /\ \E step \in {"create", "fail"} : pc' = [pc EXCEPT ![id] = step]
    BY <1>4 DEF PutMeta
  <2>2. kv' \subseteq {<<Typ, i>> : i \in Ids} \cup {<<i, Typ>> : i \in Ids}
    BY <1>4 DEF PutMeta, MetaKey, TypeOK
  <2>3. UNCHANGED <<replayed, data, published, writer, call, output, subject, pruning,
                    routes, body, cache, peeked, hooked, restarts, hub>>
    BY <1>4 DEF PutMeta
  <2> QED  BY <2>1, <2>2, <2>3 DEF TypeOK, Steps
<1>5. ASSUME NEW id \in Ids, CreateBody(id) \/ WriteBody(id) PROVE TypeInv'
  <2>1. pc[id] \in {"create", "write"}
        /\ \E step \in {"write", "processing", "fail"} : pc' = [pc EXCEPT ![id] = step]
    BY <1>5 DEF CreateBody, WriteBody
  <2>2. body' \in [Ids -> Contents]
    BY <1>5 DEF CreateBody, WriteBody, TypeOK, Contents
  <2>3. UNCHANGED <<replayed, data, published, writer, call, output, subject, pruning,
                    routes, kv, cache, peeked, hooked, restarts, hub>>
    BY <1>5 DEF CreateBody, WriteBody
  <2> QED
    BY <2>1, <2>2, <2>3 DEF TypeOK, Steps
<1>6. ASSUME NEW id \in Ids, Processing(id) PROVE TypeInv'
  <2>1. /\ pc' \in [Ids -> Steps]
        /\ data' \in [Ids -> EntryStatuses] /\ published' \in [Ids -> EntryStatuses]
        /\ call' \in [Callers -> {"none", "exists", "generate", "store", "ok", "failed"}]
        /\ writer' = writer /\ streams' = streams /\ owed' = streams
    BY <1>6 DEF Processing, UpdateStatus, TypeOK, Steps, EntryStatuses
  <2>2. \A g \in Gets : call'[g] = call[g]
    BY <1>6, CollectorAssumption DEF Processing, TypeOK, Callers
  <2>3. TerminalWhenSettled'
    BY <1>6 DEF Processing, UpdateStatus, TypeOK
  <2>4. UNCHANGED <<replayed, output, subject, pruning, routes, kv, body, cache, peeked, hooked,
                    restarts>>
    BY <1>6 DEF Processing
  <2> QED
    BY <2>1, <2>2, <2>3, <2>4 DEF TypeOK
<1>7. ASSUME NEW id \in Ids, Processed(id) PROVE TypeInv'
  BY <1>7, CollectorAssumption DEF Processed, TypeOK, Steps, Callers
<1>8. ASSUME NEW id \in Ids, Finalize(id) PROVE TypeInv'
  BY <1>8 DEF Finalize, UpdateStatus, TypeOK, Steps, EntryStatuses
<1>9. ASSUME NEW id \in Ids, Hook(id) PROVE TypeInv'
  <2>1. pc[id] = "hook" /\ data[id] \in {"ok", "fail"} /\ hooked[id] \in Seq({"ok", "fail"})
    BY <1>9 DEF Hook, TypeOK
  <2>2. Append(hooked[id], data[id]) \in Seq({"ok", "fail"})
    BY <2>1
  <2>3. hooked' \in [Ids -> Seq({"ok", "fail"})]
    BY <1>9, <2>2 DEF Hook, TypeOK
  <2>4. pc' = [pc EXCEPT ![id] = "done"]
    BY <1>9 DEF Hook
  <2> QED
    BY <1>9, <2>1, <2>3, <2>4 DEF Hook, TypeOK, Steps
<1>10. ASSUME NEW id \in Ids, Prune(id) PROVE TypeInv'
  BY <1>10 DEF Prune, TypeOK
<1>11. ASSUME NEW c \in Callers, CheckCache(c) PROVE TypeInv'
  <2>1. \E step \in {"ok", "generate", "failed"} : call' = [call EXCEPT ![c] = step]
    BY <1>11 DEF CheckCache, Exists
  <2> QED
    BY <1>11, <2>1 DEF CheckCache, Exists, TypeOK
<1>12. ASSUME NEW c \in Callers, Generate(c) PROVE TypeInv'
  <2>1. Subject(c) \in Ids
    BY <1>12, SubjectType DEF Generate, Subject
  <2>2. \E step \in {"store", "ok", "failed"} : call' = [call EXCEPT ![c] = step]
    BY <1>12 DEF Generate
  <2>3. output' \in [Callers -> Contents]
    BY <1>12, <2>1 DEF Generate, TypeOK
  <2>4. routes' \subseteq Ids /\ peeked' \subseteq Ids
    BY <1>12, <2>1 DEF Generate, TypeOK
  <2>5. call' \in [Callers -> {"none", "exists", "generate", "store", "ok", "failed"}]
    BY <2>2 DEF TypeOK
  <2>6. \A g \in Gets : call'[g] # "none" => call[g] # "none"
    BY <1>12, <2>2 DEF Generate, TypeOK, Callers
  <2>7. UNCHANGED <<pc, replayed, data, published, writer, subject, pruning, kv, body,
                    cache, hooked, restarts, hub>>
    BY <1>12 DEF Generate
  <2>8. TypeOK'
    BY <2>3, <2>4, <2>5, <2>6, <2>7 DEF TypeOK
  <2> QED
    BY <2>7, <2>8
<1>13. ASSUME NEW c \in Callers, StoreCache(c) PROVE TypeInv'
  <2>1. Subject(c) \in Ids
    BY <1>13, SubjectType DEF StoreCache, Subject
  <2>2. cache' \in [Ids -> Contents] /\ output' \in [Callers -> Contents]
    BY <1>13, <2>1 DEF StoreCache, TypeOK, Contents
  <2>3. \E step \in {"ok", "failed"} : call' = [call EXCEPT ![c] = step]
    BY <1>13 DEF StoreCache
  <2> QED
    BY <1>13, <2>2, <2>3 DEF StoreCache, TypeOK
<1>14. ASSUME NEW g \in Gets, GetBegin(g) PROVE TypeInv'
  BY <1>14, CollectorAssumption DEF GetBegin, TypeOK, Callers
<1>15. ASSUME NEW g \in Gets, GetEnd(g) PROVE TypeInv'
  BY <1>15, CollectorAssumption DEF GetEnd, TypeOK, Callers
<1>16. ASSUME Restart PROVE TypeInv'
  <2>1. pc' \in [Ids -> {"processing", "unused", "gone"}] /\ replayed' \in [Ids -> BOOLEAN]
    BY <1>16 DEF Restart, GetAll
  <2>2. restarts' \in 0 .. MaxRestarts
    BY <1>16, CollectorAssumption DEF Restart, GetAll, TypeOK
  <2>3. /\ data' \in [Ids -> {"absent"}] /\ published' \in [Ids -> {"absent"}]
        /\ call' \in [Callers -> {"none"}] /\ output' \in [Callers -> {"none"}]
        /\ subject' \in [Gets -> {NoOne}] /\ writer' = NoOne /\ streams' = {} /\ owed' = {}
        /\ pruning' = {} /\ routes' = {} /\ UNCHANGED <<kv, body, cache, peeked, hooked>>
    BY <1>16 DEF Restart, GetAll
  <2>4. \A g \in Gets : call'[g] = "none"
    BY <2>3 DEF Callers
  <2>5. TerminalWhenSettled'
    BY <2>1, <2>3
  <2>6. /\ pc' \in [Ids -> Steps]
        /\ data' \in [Ids -> EntryStatuses] /\ published' \in [Ids -> EntryStatuses]
    BY <2>1, <2>3 DEF Steps, EntryStatuses
  <2>7. /\ call' \in [Callers -> {"none", "exists", "generate", "store", "ok", "failed"}]
        /\ output' \in [Callers -> Contents]
        /\ subject' \in [Gets -> Ids \cup {NoOne}]
    BY <2>3 DEF Contents
  <2> QED
    BY <2>1, <2>2, <2>3, <2>4, <2>5, <2>6, <2>7 DEF TypeOK
<1>17. ASSUME NEW s \in Streams, Subscribe(s) \/ Take(s) \/ Leave(s) PROVE TypeInv'
  BY <1>17 DEF Subscribe, Take, Leave, memory, TypeOK
<1>18. CASE UNCHANGED vars
  BY <1>18 DEF vars, memory, TypeOK
<1> QED
  BY <1>1, <1>2, <1>3, <1>4, <1>5, <1>6, <1>7, <1>8, <1>9, <1>10, <1>11, <1>12,
     <1>13, <1>14, <1>15, <1>16, <1>17, <1>18
     DEF Next, Task, Process, Terminated

LEMMA TypeInvHolds == Spec => []TypeInv
BY InitTypeInv, StepTypeInv, PTL DEF Spec

\* TypeOK: the shape of the state of a collector and its store, in every reachable
\* state (collector.go:27-46).
THEOREM TypeCorrect == Spec => []TypeOK
BY TypeInvHolds, PTL DEF TypeInv

\* Within one life of the process a terminal status is final.
TerminalIsFinal ==
    [][\A id \in Ids :
          data[id] \in {"ok", "fail"} => data'[id] = data[id] \/ restarts' # restarts]_vars

\* TerminalIsFinal: until the process is restarted, an entry that is ok or fail
\* keeps its status; only finalize makes it so, as its goroutine's last but one
\* step (collector.go:111-117).
THEOREM TerminalStays == Spec => TerminalIsFinal
<1>1. TypeInv /\ [Next]_vars =>
        [\A id \in Ids :
            data[id] \in {"ok", "fail"} => data'[id] = data[id] \/ restarts' # restarts]_vars
  <2> SUFFICES ASSUME TypeInv, Next, NEW id \in Ids, data[id] \in {"ok", "fail"}
               PROVE  data'[id] = data[id] \/ restarts' # restarts
    OBVIOUS
  <2>1. pc[id] \in Settled
    BY DEF TypeInv, TerminalWhenSettled
  <2>2. ASSUME NEW x \in Ids, NEW s, UpdateStatus(x, s), pc[x] \notin Settled
        PROVE  data'[id] = data[id]
    BY <2>1, <2>2 DEF UpdateStatus, TypeInv, TypeOK
  <2>3. CASE \E x \in Ids : Collecting(x) \/ Processing(x) \/ Finalize(x)
    BY <2>2, <2>3 DEF Collecting, Processing, Finalize, Settled
  <2>4. CASE Restart
    BY <2>4 DEF Restart, GetAll, TypeInv, TypeOK
  <2>5. CASE UNCHANGED data
    BY <2>5
  <2> QED
    BY <2>3, <2>4, <2>5
       DEF Next, Task, Process, Terminated, Lock, Unlock, Subscribe, Take, Leave, Begin,
           Fetch, PutMeta, CreateBody,
           WriteBody, Processed, Hook, Prune, CheckCache, Exists, Generate,
           StoreCache, GetBegin, GetEnd, vars, memory
<1> QED
  BY <1>1, TypeInvHolds, PTL DEF Spec, TerminalIsFinal

-----------------------------------------------------------------------------
(***************************************************************************)
(* The lock.  A goroutine keeps it from the moment it replaces the entry   *)
(* until every stream has taken the event, and does nothing else until     *)
(* then; commands run without it.                                          *)
(***************************************************************************)

\* A goroutine is in Process exactly at its step "process".
CallsFollow == \A id \in Ids : call[id] # "none" <=> pc[id] = "process"

\* A goroutine that has replaced its entry and has not released the lock yet: it has
\* started nothing new, and no request is inside Get.
UpdateIsExclusive ==
    \A id \in Ids : writer = id /\ pc[id] \notin AboutToUpdate =>
        /\ pc[id] \in {"fetch", "meta", "process", "hook"}
        /\ call[id] \in {"none", "exists"}
        /\ Readers = {}

\* An event that is being handed out belongs to the goroutine with the lock.
OwedByWriter == owed # {} => writer \in Ids /\ pc[writer] \notin AboutToUpdate

LockInv == TypeInv /\ CallsFollow /\ UpdateIsExclusive /\ OwedByWriter

LEMMA StepLockInv == LockInv /\ [Next]_vars => LockInv'
<1> DEFINE Goal == CallsFollow' /\ UpdateIsExclusive' /\ OwedByWriter'
<1> SUFFICES ASSUME LockInv, [Next]_vars PROVE Goal
  BY StepTypeInv DEF LockInv
<1>0. TypeOK /\ CallsFollow /\ UpdateIsExclusive /\ OwedByWriter /\ NoOne \notin Ids
      /\ Ids \cap Gets = {} /\ Ids \subseteq Callers /\ Gets \subseteq Callers
  BY CollectorAssumption DEF LockInv, TypeInv, Callers
<1> USE DEF Goto, AboutToUpdate
<1>1. ASSUME NEW id \in Ids, Lock(id) \/ Unlock(id) PROVE Goal
  BY <1>0, <1>1 DEF Lock, Unlock, CallsFollow, UpdateIsExclusive, OwedByWriter, hub, Readers
<1>2. ASSUME NEW id \in Ids,
             \/ Begin(id) \/ Fetch(id) \/ PutMeta(id) \/ CreateBody(id) \/ WriteBody(id) \/ Hook(id)
      PROVE  Goal
  <2>1. /\ UNCHANGED <<writer, call, hub>>
        /\ pc[id] \in {"unused", "fetch", "meta", "create", "write", "hook"}
        /\ pc[id] \in {"fetch", "meta", "hook"} => writer # id
        /\ \E step \in Steps \ {"process"} : pc' = [pc EXCEPT ![id] = step]
    BY <1>2 DEF Begin, Fetch, PutMeta, CreateBody, WriteBody, Hook, Steps, hub
  <2>2. writer # id
    BY <1>0, <2>1 DEF UpdateIsExclusive
  <2>3. \A x \in Ids : x # id => pc'[x] = pc[x]
    BY <1>0, <2>1 DEF TypeOK
  <2>4. CallsFollow'
    BY <1>0, <2>1, <2>3 DEF CallsFollow, TypeOK
  <2>5. UpdateIsExclusive'
    BY <1>0, <2>1, <2>2, <2>3 DEF UpdateIsExclusive, Readers
  <2>6. OwedByWriter'
    BY <1>0, <2>1, <2>2, <2>3 DEF OwedByWriter, hub
  <2> QED
    BY <2>4, <2>5, <2>6
<1>3. ASSUME NEW id \in Ids, Collecting(id) \/ Processing(id) \/ Finalize(id) PROVE Goal
  <2>1. /\ writer = id /\ writer' = writer /\ Readers = {}
        /\ pc[id] \in AboutToUpdate
        /\ \/ pc' = [pc EXCEPT ![id] = "process"] /\ call' = [call EXCEPT ![id] = "exists"]
           \/ /\ \E step \in {"meta", "fetch", "hook"} : pc' = [pc EXCEPT ![id] = step]
              /\ call' = call
    BY <1>3 DEF Collecting, Processing, Finalize, UpdateStatus
  <2>2. call[id] = "none"
    BY <1>0, <2>1 DEF CallsFollow
  <2>3. /\ pc'[id] \in {"meta", "fetch", "hook", "process"}
        /\ call'[id] \in {"none", "exists"}
        /\ call'[id] # "none" <=> pc'[id] = "process"
        /\ \A x \in Ids : x # id => pc'[x] = pc[x] /\ call'[x] = call[x]
        /\ \A g \in Gets : call'[g] = call[g]
    BY <1>0, <2>1, <2>2 DEF TypeOK
  <2>4. Readers' = {}
    BY <2>1, <2>3 DEF Readers
  <2>5. CallsFollow'
    BY <1>0, <2>3 DEF CallsFollow
  <2>6. UpdateIsExclusive' /\ OwedByWriter'
    BY <1>0, <2>1, <2>3, <2>4 DEF UpdateIsExclusive, OwedByWriter
  <2> QED
    BY <2>5, <2>6
<1>4. ASSUME NEW id \in Ids, Processed(id) PROVE Goal
  <2>1. /\ pc[id] = "process" /\ call[id] \in {"ok", "failed"} /\ UNCHANGED <<writer, hub>>
        /\ \E step \in {"ok", "fail"} : pc' = [pc EXCEPT ![id] = step]
        /\ call' = [call EXCEPT ![id] = "none"]
    BY <1>4 DEF Processed
  <2>2. writer # id
    BY <1>0, <2>1 DEF UpdateIsExclusive
  <2>3. /\ pc'[id] \in {"ok", "fail"} /\ call'[id] = "none"
        /\ \A x \in Ids : x # id => pc'[x] = pc[x] /\ call'[x] = call[x]
        /\ \A g \in Gets : call'[g] = call[g]
    BY <1>0, <2>1 DEF TypeOK
  <2>4. CallsFollow' /\ UpdateIsExclusive'
    BY <1>0, <2>1, <2>2, <2>3 DEF CallsFollow, UpdateIsExclusive, Readers
  <2>5. OwedByWriter'
    BY <1>0, <2>1, <2>2, <2>3 DEF OwedByWriter, hub
  <2> QED
    BY <2>4, <2>5
<1>5. ASSUME NEW c \in Callers, Process(c) PROVE Goal
  <2>1. /\ UNCHANGED <<pc, writer, hub>>
        /\ call[c] # "none" /\ \E step : step # "none" /\ call' = [call EXCEPT ![c] = step]
        /\ writer # c \/ call[c] \in {"generate", "store"}
    BY <1>5 DEF Process, CheckCache, Generate, StoreCache, hub
  <2>2. c \in Ids => writer # c
    BY <1>0, <2>1 DEF UpdateIsExclusive, CallsFollow
  <2>3. call'[c] # "none" /\ \A x \in Callers : x # c => call'[x] = call[x]
    BY <1>0, <2>1 DEF TypeOK
  <2>4. Readers' = Readers
    BY <1>0, <2>1, <2>3 DEF Readers
  <2>5. CallsFollow'
    BY <1>0, <2>1, <2>3 DEF CallsFollow
  <2>6. UpdateIsExclusive'
    BY <1>0, <2>1, <2>2, <2>3, <2>4 DEF UpdateIsExclusive
  <2>7. OwedByWriter'
    BY <1>0, <2>1 DEF OwedByWriter, hub
  <2> QED
    BY <2>5, <2>6, <2>7
<1>6. ASSUME NEW g \in Gets, GetBegin(g) \/ GetEnd(g) PROVE Goal
  <2>1. /\ UNCHANGED <<pc, hub, writer>>
        /\ \A id \in Ids : call'[id] = call[id]
        /\ Readers' \subseteq Readers \/ writer = NoOne
    BY <1>0, <1>6 DEF GetBegin, GetEnd, hub, Readers, TypeOK
  <2>2. CallsFollow' /\ UpdateIsExclusive'
    BY <1>0, <2>1 DEF CallsFollow, UpdateIsExclusive
  <2>3. OwedByWriter'
    BY <1>0, <2>1 DEF OwedByWriter, hub
  <2> QED
    BY <2>2, <2>3
<1>7. ASSUME NEW s, Subscribe(s) \/ Take(s) \/ Leave(s) PROVE Goal
  BY <1>0, <1>7 DEF Subscribe, Take, Leave, CallsFollow, UpdateIsExclusive, OwedByWriter, memory, Readers
<1>8. CASE Restart
  <2>1. /\ writer' = NoOne /\ owed' = {}
        /\ \A id \in Ids : call'[id] = "none" /\ pc'[id] \in {"processing", "unused", "gone"}
    BY <1>0, <1>8 DEF Restart
  <2> QED
    BY <1>0, <2>1 DEF CallsFollow, UpdateIsExclusive, OwedByWriter
<1>9. CASE UNCHANGED <<pc, call, writer, owed>>
  BY <1>0, <1>9 DEF CallsFollow, UpdateIsExclusive, OwedByWriter, Readers
<1> HIDE DEF Goal
<1> QED
  BY <1>1, <1>2, <1>3, <1>4, <1>5, <1>6, <1>7, <1>8, <1>9
     DEF Next, Task, Terminated, Prune, vars, memory, hub

LEMMA LockInvHolds == Spec => []LockInv
<1>1. Init => LockInv
  <2> SUFFICES ASSUME Init PROVE LockInv
    OBVIOUS
  <2>1. /\ \A id \in Ids : id \in Callers /\ call[id] = "none" /\ pc[id] = "unused" /\ writer # id
        /\ owed = {}
    BY CollectorAssumption DEF Init, Callers
  <2> QED
    BY <2>1, InitTypeInv DEF LockInv, CallsFollow, UpdateIsExclusive, OwedByWriter
<1> QED
  BY <1>1, StepLockInv, PTL DEF Spec

\* EventsInOrder: the lock is only released when the event has been handed out, and
\* whoever holds it does nothing else until then (collector.go:97-104, event/hub.go:22).
THEOREM EventsDoNotOvertake == Spec => EventsInOrder
<1> DEFINE InOrder ==
        \A id \in Ids : data'[id] # data[id] =>
            \/ writer = id /\ Readers = {} /\ owed = {} /\ owed' = streams /\ published'[id] = data'[id]
            \/ restarts' # restarts
<1>1. LockInv /\ [Next]_vars => [InOrder]_vars
  <2> SUFFICES ASSUME LockInv, Next, NEW id \in Ids, data'[id] # data[id]
               PROVE  \/ /\ writer = id /\ Readers = {} /\ owed = {} /\ owed' = streams
                         /\ published'[id] = data'[id]
                      \/ restarts' # restarts
    OBVIOUS
  <2>1. ASSUME NEW x \in Ids, NEW s, UpdateStatus(x, s), pc[x] \in AboutToUpdate
        PROVE  /\ writer = id /\ Readers = {} /\ owed = {} /\ owed' = streams
               /\ published'[id] = data'[id]
    BY <2>1 DEF UpdateStatus, LockInv, OwedByWriter, TypeInv, TypeOK
  <2>2. CASE \E x \in Ids : Collecting(x) \/ Processing(x) \/ Finalize(x)
    BY <2>1, <2>2 DEF Collecting, Processing, Finalize, AboutToUpdate
  <2>3. CASE Restart
    BY <2>3 DEF Restart, LockInv, TypeInv, TypeOK
  <2>4. CASE UNCHANGED data
    BY <2>4
  <2> QED
    BY <2>2, <2>3, <2>4
       DEF Next, Task, Process, Terminated, Lock, Unlock, Subscribe, Take, Leave, Begin,
           Fetch, PutMeta, CreateBody, WriteBody, Processed, Hook, Prune, CheckCache, Generate,
           StoreCache, GetBegin, GetEnd, vars, memory
<1> QED
  BY <1>1, LockInvHolds, PTL DEF Spec, EventsInOrder

-----------------------------------------------------------------------------
(***************************************************************************)
(* The hook.  It is called by the goroutine that collects a snapshot, and  *)
(* by no goroutine that New has started: so not again after a restart.     *)
(***************************************************************************)

NotHookedYet ==
    \A id \in Ids :
        /\ pc[id] = "unused" => ~replayed[id]
        /\ ~replayed[id] /\ pc[id] \notin {"done", "gone"} => hooked[id] = << >>

HookedWithStatus ==
    \A id \in Ids :
        /\ ~replayed[id] /\ pc[id] = "done" => hooked[id] = << data[id] >>
        /\ hooked[id] # << >> => \E s \in {"ok", "fail"} : hooked[id] = << s >>

HookInv == TypeInv /\ NotHookedYet /\ HookedWithStatus

\* A step that calls no hook: it leaves hooked alone, and a goroutine it moves is
\* neither past its hook nor back at its start.
LEMMA QuietStep ==
    ASSUME HookInv, UNCHANGED <<hooked, replayed>>, TypeOK',
           \A id \in Ids :
              \/ pc'[id] = pc[id] /\ (pc[id] = "done" => data'[id] = data[id])
              \/ /\ pc[id] \notin {"done", "gone"}
                 /\ pc'[id] \notin {"unused", "done", "gone"}
    PROVE  NotHookedYet' /\ HookedWithStatus'
BY DEF HookInv, NotHookedYet, HookedWithStatus

LEMMA StepHookInv == HookInv /\ [Next]_vars => HookInv'
<1> DEFINE Goal == NotHookedYet' /\ HookedWithStatus'
<1> SUFFICES ASSUME HookInv, [Next]_vars PROVE Goal
  BY StepTypeInv DEF HookInv
<1>0. TypeInv' /\ TypeOK' /\ TypeInv /\ TypeOK
  BY StepTypeInv DEF HookInv, TypeInv
<1>1. ASSUME NEW id \in Ids,
             \/ Begin(id) \/ Collecting(id) \/ Fetch(id) \/ PutMeta(id)
             \/ CreateBody(id) \/ WriteBody(id) \/ Processing(id) \/ Processed(id)
             \/ Finalize(id)
      PROVE  Goal
  <2>1. /\ UNCHANGED <<hooked, replayed>>
        /\ pc[id] \notin {"done", "gone"}
        /\ \E step \in Steps \ {"unused", "done", "gone"} :
              pc' = [pc EXCEPT ![id] = step]
    BY <1>1 DEF Begin, Collecting, Fetch, PutMeta, CreateBody, WriteBody, Processing,
                Processed, Finalize, Goto, Steps
  <2>2. \A x \in Ids : x # id => data'[x] = data[x]
    BY <1>0, <1>1 DEF Begin, Collecting, Fetch, PutMeta, CreateBody, WriteBody,
                Processing, Processed, Finalize, UpdateStatus, TypeOK
  <2> QED
    BY <1>0, <2>1, <2>2, QuietStep DEF TypeOK
<1>2. ASSUME NEW id \in Ids, Hook(id) PROVE Goal
  <2>1. /\ pc[id] = "hook" /\ UNCHANGED <<data, replayed>>
        /\ pc' = [pc EXCEPT ![id] = "done"]
    BY <1>2 DEF Hook, Goto
  <2>2. data[id] \in {"ok", "fail"}
    BY <1>0, <2>1 DEF TypeInv, TerminalWhenSettled, Settled
  <2>3. CASE replayed[id]
    <3>1. UNCHANGED hooked
      BY <1>2, <2>3 DEF Hook
    <3> QED
      BY <1>0, <2>1, <2>3, <3>1 DEF HookInv, NotHookedYet, HookedWithStatus, TypeOK
  <2>4. CASE ~replayed[id]
    <3>1. hooked' = [hooked EXCEPT ![id] = Append(hooked[id], data[id])] /\ hooked[id] = << >>
      BY <1>2, <2>1, <2>4 DEF Hook, HookInv, NotHookedYet
    <3>2. hooked'[id] = << data[id] >> /\ \A x \in Ids : x # id => hooked'[x] = hooked[x]
      BY <1>0, <3>1 DEF TypeOK
    <3>3. \A x \in Ids : x # id => pc'[x] = pc[x]
      BY <1>0, <2>1 DEF TypeOK
    <3>4. pc'[id] = "done"
      BY <1>0, <2>1 DEF TypeOK
    <3>5. NotHookedYet'
      BY <2>1, <3>2, <3>3, <3>4 DEF HookInv, NotHookedYet
    <3>6. HookedWithStatus'
      BY <2>1, <2>2, <3>2, <3>3, <3>4 DEF HookInv, HookedWithStatus
    <3> QED
      BY <3>5, <3>6
  <2> QED
    BY <2>3, <2>4
<1>3. CASE Restart
  <2>1. /\ UNCHANGED hooked
        /\ \A id \in Ids :
              /\ pc'[id] \in {"processing", "unused", "gone"}
              /\ pc'[id] = "processing" => replayed'[id]
              /\ pc'[id] # "processing" => ~replayed'[id]
              /\ pc'[id] = "unused" => pc[id] = "unused"
    BY <1>3 DEF Restart, GetAll
  <2>2. NotHookedYet'
    BY <2>1 DEF HookInv, NotHookedYet
  <2>3. HookedWithStatus'
    BY <2>1 DEF HookInv, HookedWithStatus
  <2> QED
    BY <2>2, <2>3
<1>4. CASE UNCHANGED <<pc, data, hooked, replayed>>
  BY <1>0, <1>4, QuietStep
<1> HIDE DEF Goal
<1> QED
  BY <1>1, <1>2, <1>3, <1>4
     DEF Next, Task, Process, Terminated, Lock, Unlock, Subscribe, Take, Leave, Prune,
         CheckCache, Exists, Generate, StoreCache,
         GetBegin, GetEnd, vars, memory

LEMMA InitHookInv == Init => HookInv
BY InitTypeInv DEF Init, HookInv, NotHookedYet, HookedWithStatus

LEMMA HookInvHolds == Spec => []HookInv
BY InitHookInv, StepHookInv, PTL DEF Spec

\* HookedOnce: over any number of restarts the hook is called at most once for a
\* snapshot, with the status its entry has (collector.go:22-24, 79, 114).
THEOREM HookedAtMostOnce == Spec => []HookedOnce
<1>1. HookInv => HookedOnce
  <2> SUFFICES ASSUME HookInv, NEW id \in Ids
               PROVE  /\ Len(hooked[id]) <= 1
                      /\ pc[id] = "done" /\ ~replayed[id] => hooked[id] = << data[id] >>
    BY DEF HookedOnce
  <2>1. hooked[id] = << >> \/ \E s \in {"ok", "fail"} : hooked[id] = << s >>
    BY DEF HookInv, HookedWithStatus
  <2>2. Len(hooked[id]) <= 1
    <3>1. CASE hooked[id] = << >>
      <4>1. Len(<< >>) = 0
        OBVIOUS
      <4> QED
        BY <3>1, <4>1
    <3>2. ASSUME NEW s, hooked[id] = << s >> PROVE Len(hooked[id]) <= 1
      <4>1. Len(<< s >>) = 1
        OBVIOUS
      <4> QED
        BY <3>2, <4>1
    <3> QED
      BY <2>1, <3>1, <3>2
  <2>3. pc[id] = "done" /\ ~replayed[id] => hooked[id] = << data[id] >>
    BY DEF HookInv, HookedWithStatus
  <2> QED
    BY <2>2, <2>3
<1> QED
  BY <1>1, HookInvHolds, PTL

-----------------------------------------------------------------------------
(***************************************************************************)
(* Durability.  Between the store of the meta data and the end of the      *)
(* processing nothing prunes a snapshot; so what is ok is in the store.    *)
(* For memos it is not: their meta data is stored under (id, type).        *)
(***************************************************************************)

\* The steps at which a snapshot is not pruned yet, and those of them at which
\* its meta data is in the store.
BeforePrune == {"unused", "collecting", "fetch", "meta", "create", "write", "processing",
                "process", "ok"}
Stored == {"create", "write", "processing", "process", "ok"}

NotPruned == \A id \in Ids : pc[id] \in BeforePrune => id \notin pruning
InStore == \A id \in Ids : pc[id] \in Stored => <<Typ, id>> \in kv

DurableInv == TypeInv /\ NotPruned /\ InStore /\ OkIsDurable

LEMMA StepDurableInv ==
    ASSUME Kind # "memo"
    PROVE  DurableInv /\ [Next]_vars => DurableInv'
<1> DEFINE Goal == NotPruned' /\ InStore' /\ OkIsDurable'
<1> SUFFICES ASSUME DurableInv, [Next]_vars PROVE Goal
  BY StepTypeInv DEF DurableInv
<1>0. TypeInv /\ TypeOK /\ NotPruned /\ InStore /\ OkIsDurable
  BY DEF DurableInv, TypeInv
<1>1. ASSUME NEW id \in Ids,
             Begin(id) \/ Fetch(id) \/ CreateBody(id) \/ WriteBody(id) \/ Hook(id)
      PROVE  Goal
  <2>1. /\ UNCHANGED <<data, kv, pruning>>
        /\ \E step \in Steps :
              /\ pc' = [pc EXCEPT ![id] = step]
              /\ step \in BeforePrune => pc[id] \in BeforePrune
              /\ step \in Stored => pc[id] \in Stored
    BY <1>1 DEF Begin, Fetch, CreateBody, WriteBody, Hook, Goto, Steps,
                BeforePrune, Stored, disk
  <2> QED
    BY <1>0, <2>1 DEF NotPruned, InStore, OkIsDurable, TypeOK
<1>2. ASSUME NEW id \in Ids, Collecting(id) \/ Processing(id) PROVE Goal
  <2>1. /\ UNCHANGED <<kv, pruning>>
        /\ data' = [data EXCEPT ![id] = "pending"]
        /\ \E step \in Steps :
              /\ pc' = [pc EXCEPT ![id] = step]
              /\ step \in BeforePrune => pc[id] \in BeforePrune
              /\ step \in Stored => pc[id] \in Stored
    BY <1>2 DEF Collecting, Processing, UpdateStatus, Goto, Steps, BeforePrune, Stored, disk
  <2> QED
    BY <1>0, <2>1 DEF NotPruned, InStore, OkIsDurable, TypeOK
<1>3. ASSUME NEW id \in Ids, PutMeta(id) PROVE Goal
  <2>1. /\ UNCHANGED <<data, pruning>> /\ kv \subseteq kv' /\ pc[id] = "meta"
        /\ \E step \in {"create", "fail"} :
              /\ pc' = [pc EXCEPT ![id] = step]
              /\ step = "create" => <<Typ, id>> \in kv'
    BY <1>3 DEF PutMeta, MetaKey, Goto
  <2>2. pc[id] \in BeforePrune
    BY <2>1 DEF BeforePrune
  <2>3. InStore'
    BY <1>0, <2>1 DEF InStore, Stored, TypeOK
  <2>4. NotPruned'
    BY <1>0, <2>1, <2>2 DEF NotPruned, TypeOK
  <2> QED
    BY <1>0, <2>1, <2>3, <2>4 DEF OkIsDurable
<1>4. ASSUME NEW id \in Ids, Processed(id) PROVE Goal
  <2>1. /\ UNCHANGED <<data, kv>> /\ pc[id] = "process"
        /\ \/ pc' = [pc EXCEPT ![id] = "ok"] /\ UNCHANGED pruning
           \/ pc' = [pc EXCEPT ![id] = "fail"] /\ pruning' = pruning \cup {id}
    BY <1>4 DEF Processed, Goto, disk
  <2>2. data[id] # "ok"
    BY <1>0, <2>1 DEF TypeInv, TerminalWhenSettled, Settled
  <2>3. pc[id] \in BeforePrune /\ pc[id] \in Stored /\ "fail" \notin BeforePrune
    BY <2>1 DEF BeforePrune, Stored
  <2>4. NotPruned'
    <3>1. ASSUME NEW x \in Ids, x # id, pc'[x] \in BeforePrune PROVE x \notin pruning'
      BY <1>0, <2>1, <3>1 DEF NotPruned, TypeOK
    <3>2. ASSUME pc'[id] \in BeforePrune PROVE id \notin pruning'
      BY <1>0, <2>1, <2>3, <3>2 DEF NotPruned, TypeOK
    <3> QED
      BY <3>1, <3>2 DEF NotPruned
  <2>5. InStore'
    BY <1>0, <2>1, <2>3 DEF InStore, Stored, TypeOK
  <2> QED
    BY <1>0, <2>1, <2>2, <2>4, <2>5 DEF OkIsDurable
<1>5. ASSUME NEW id \in Ids, Finalize(id) PROVE Goal
  <2>1. /\ UNCHANGED <<kv, pruning>> /\ pc[id] \in {"ok", "fail"}
        /\ data' = [data EXCEPT ![id] = pc[id]]
        /\ pc' = [pc EXCEPT ![id] = "hook"]
    BY <1>5 DEF Finalize, UpdateStatus, Goto, disk
  <2>2. pc[id] = "ok" => <<Typ, id>> \in kv /\ id \notin pruning
    BY <1>0, <2>1 DEF NotPruned, InStore, BeforePrune, Stored
  <2>3. OkIsDurable'
    BY <1>0, <2>1, <2>2 DEF OkIsDurable, TypeOK
  <2> QED
    BY <1>0, <2>1, <2>3 DEF NotPruned, InStore, BeforePrune, Stored, TypeOK
<1>6. ASSUME NEW id \in Ids, Prune(id) PROVE Goal
  <2>1. /\ UNCHANGED <<data, pc>> /\ id \in pruning /\ pruning' = pruning \ {id}
        /\ \A x \in Ids : x # id /\ <<Typ, x>> \in kv => <<Typ, x>> \in kv'
    BY <1>6 DEF Prune
  <2>2. pc[id] \notin Stored /\ data[id] # "ok"
    BY <1>0, <2>1 DEF NotPruned, OkIsDurable, BeforePrune, Stored
  <2> QED
    BY <1>0, <2>1, <2>2 DEF NotPruned, InStore, OkIsDurable
<1>7. CASE Restart
  <2>1. /\ UNCHANGED kv /\ pruning' = {}
        /\ \A id \in Ids : /\ data'[id] = "absent"
                           /\ pc'[id] \in Stored => <<Typ, id>> \in kv
    BY <1>7 DEF Restart, GetAll, Stored, disk
  <2> QED
    BY <2>1 DEF NotPruned, InStore, OkIsDurable
<1>8. CASE UNCHANGED <<pc, data, kv, pruning>>
  BY <1>0, <1>8 DEF NotPruned, InStore, OkIsDurable
<1> HIDE DEF Goal
<1> QED
  BY <1>1, <1>2, <1>3, <1>4, <1>5, <1>6, <1>7, <1>8
     DEF Next, Task, Process, Terminated, Lock, Unlock, Subscribe, Take, Leave, CheckCache,
         Exists, Generate, StoreCache, GetBegin, GetEnd, vars, memory, disk

\* OkIsDurable: what a collector of profiles or logs lists as ok is found by the
\* next start, and no prune of it is on its way (snapshot.go:108, collector.go:124).
THEOREM OkStaysDurable == Kind # "memo" => (Spec => []OkIsDurable)
<1> SUFFICES ASSUME Kind # "memo" PROVE Spec => []OkIsDurable
  OBVIOUS
<1>1. Init => DurableInv
  BY InitTypeInv DEF Init, DurableInv, NotPruned, InStore, OkIsDurable, Stored
<1>2. DurableInv /\ [Next]_vars => DurableInv'
  BY StepDurableInv
<1>3. DurableInv => OkIsDurable
  BY DEF DurableInv
<1> QED
  BY <1>1, <1>2, <1>3, PTL DEF Spec

-----------------------------------------------------------------------------
(***************************************************************************)
(* Refinement.  Every step of a collector of profiles or logs is a step of *)
(* SnapshotLifecycle, or changes nothing that module speaks of.  So is     *)
(* every step of a collector of memos, but for a restart.                  *)
(***************************************************************************)

Pending == {"fetch", "meta", "create", "write", "process", "ok", "fail"}

PendingWhileRunning == \A id \in Ids : pc[id] \in Pending => data[id] = "pending"

\* The store knows no snapshot that has not begun.
StoredHasBegun == \A id \in Ids : <<Typ, id>> \in kv => pc[id] # "unused"

LifecycleInv ==
    /\ HookInv /\ PendingWhileRunning
    /\ Kind # "memo" => DurableInv /\ StoredHasBegun

\* What a collector of memos forgets, it forgets in a restart.
RestartsAreKind == Kind # "memo" \/ MaxRestarts = 0

LEMMA StepPending == LifecycleInv /\ [Next]_vars => PendingWhileRunning'
<1> SUFFICES ASSUME LifecycleInv, [Next]_vars PROVE PendingWhileRunning'
  OBVIOUS
<1>0. TypeOK /\ PendingWhileRunning
  BY DEF LifecycleInv, HookInv, TypeInv
<1>1. ASSUME NEW id \in Ids,
             \/ Begin(id) \/ Fetch(id) \/ PutMeta(id) \/ CreateBody(id) \/ WriteBody(id)
             \/ Processed(id) \/ Hook(id)
      PROVE  PendingWhileRunning'
  <2>1. /\ UNCHANGED data
        /\ \E step \in Steps :
              pc' = [pc EXCEPT ![id] = step] /\ (step \in Pending => pc[id] \in Pending)
    BY <1>1 DEF Begin, Fetch, PutMeta, CreateBody, WriteBody, Processed, Hook,
                Goto, Steps, Pending
  <2> QED
    BY <1>0, <2>1 DEF PendingWhileRunning, TypeOK
<1>2. ASSUME NEW id \in Ids, Collecting(id) \/ Processing(id) PROVE PendingWhileRunning'
  BY <1>0, <1>2 DEF Collecting, Processing, UpdateStatus, Goto, PendingWhileRunning, TypeOK
<1>3. ASSUME NEW id \in Ids, Finalize(id) PROVE PendingWhileRunning'
  BY <1>0, <1>3 DEF Finalize, UpdateStatus, Goto, PendingWhileRunning, Pending, TypeOK
<1>4. CASE Restart
  BY <1>4 DEF Restart, GetAll, PendingWhileRunning, Pending
<1>5. CASE UNCHANGED <<pc, data>>
  BY <1>0, <1>5 DEF PendingWhileRunning
<1> QED
  BY <1>1, <1>2, <1>3, <1>4, <1>5
     DEF Next, Task, Process, Terminated, Lock, Unlock, Subscribe, Take, Leave, Prune,
         CheckCache, Exists, Generate, StoreCache,
         GetBegin, GetEnd, vars, memory

LEMMA StepStoredHasBegun ==
    ASSUME Kind # "memo"
    PROVE  LifecycleInv /\ [Next]_vars => StoredHasBegun'
<1> SUFFICES ASSUME LifecycleInv, [Next]_vars PROVE StoredHasBegun'
  OBVIOUS
<1>0. TypeOK /\ StoredHasBegun
  BY DEF LifecycleInv, HookInv, TypeInv
<1>1. ASSUME NEW id \in Ids,
             \/ Begin(id) \/ Collecting(id) \/ Fetch(id) \/ CreateBody(id) \/ WriteBody(id)
             \/ Processing(id) \/ Processed(id) \/ Finalize(id) \/ Hook(id)
      PROVE  StoredHasBegun'
  <2>1. /\ UNCHANGED kv
        /\ \E step \in Steps \ {"unused"} : pc' = [pc EXCEPT ![id] = step]
    BY <1>1 DEF Begin, Collecting, Fetch, CreateBody, WriteBody, Processing, Processed,
                Finalize, Hook, Goto, Steps, disk
  <2> QED
    BY <1>0, <2>1 DEF StoredHasBegun, TypeOK
<1>2. ASSUME NEW id \in Ids, PutMeta(id) PROVE StoredHasBegun'
  <2>1. /\ kv' \subseteq kv \cup {<<Typ, id>>}
        /\ \E step \in {"create", "fail"} : pc' = [pc EXCEPT ![id] = step]
    BY <1>2 DEF PutMeta, MetaKey, Goto
  <2>2. ASSUME NEW x \in Ids, <<Typ, x>> \in kv' PROVE pc'[x] # "unused"
    <3>1. CASE x = id
      BY <1>0, <2>1, <3>1 DEF TypeOK
    <3>2. CASE x # id
      <4>1. <<Typ, x>> \in kv
        BY <2>1, <2>2, <3>2
      <4> QED
        BY <1>0, <2>1, <3>2, <4>1 DEF StoredHasBegun, TypeOK
    <3> QED
      BY <3>1, <3>2
  <2> QED
    BY <2>2 DEF StoredHasBegun
<1>3. CASE Restart
  BY <1>3 DEF Restart, GetAll, StoredHasBegun, disk
<1>4. CASE UNCHANGED pc /\ kv' \subseteq kv
  BY <1>0, <1>4 DEF StoredHasBegun
<1> QED
  BY <1>1, <1>2, <1>3, <1>4
     DEF Next, Task, Process, Terminated, Lock, Unlock, Subscribe, Take, Leave, Prune,
         CheckCache, Exists, Generate, StoreCache,
         GetBegin, GetEnd, vars, memory, disk

\* A step that leaves the entries, the hook and the past of all goroutines alone.
LEMMA StutterStep ==
    ASSUME UNCHANGED <<data, hooked, replayed>>,
           \A id \in Ids : pc'[id] # "unused" <=> pc[id] # "unused"
    PROVE  UNCHANGED Abstract!lvars
BY DEF Abstract!lvars

LEMMA StepRefines ==
    ASSUME RestartsAreKind
    PROVE  LifecycleInv /\ [Next]_vars => [Abstract!Next]_(Abstract!lvars)
<1> SUFFICES ASSUME LifecycleInv, [Next]_vars PROVE [Abstract!Next]_(Abstract!lvars)
  OBVIOUS
<1>0. TypeOK /\ PendingWhileRunning /\ TerminalWhenSettled /\ HookInv
  BY DEF LifecycleInv, HookInv, TypeInv
<1>1. ASSUME NEW id \in Ids, Begin(id) PROVE Abstract!Accept(id)
  <2>1. pc[id] = "unused" /\ pc' = [pc EXCEPT ![id] = "collecting"]
        /\ UNCHANGED <<data, hooked, replayed>>
    BY <1>1 DEF Begin, Goto
  <2>2. \A x \in Ids : pc'[x] # "unused" <=> pc[x] # "unused" \/ x = id
    BY <1>0, <2>1 DEF TypeOK
  <2>3. {x \in Ids : pc'[x] # "unused"} = {x \in Ids : pc[x] # "unused"} \cup {id}
    BY <2>2
  <2> QED
    BY <2>1, <2>3 DEF Abstract!Accept
<1>2. ASSUME NEW id \in Ids, Collecting(id) \/ Processing(id)
      PROVE  Abstract!Enter(id) \/ UNCHANGED Abstract!lvars
  <2>1. /\ UNCHANGED <<hooked, replayed>> /\ pc[id] \in {"collecting", "processing"}
        /\ data' = [data EXCEPT ![id] = "pending"]
        /\ \E step \in {"meta", "fetch", "process"} : pc' = [pc EXCEPT ![id] = step]
    BY <1>2 DEF Collecting, Processing, UpdateStatus, Goto
  <2>2. \A x \in Ids : pc'[x] # "unused" <=> pc[x] # "unused"
    BY <1>0, <2>1 DEF TypeOK
  <2>3. data[id] \in {"absent", "pending"}
    BY <1>0, <2>1 DEF TypeOK, EntryStatuses, TerminalWhenSettled, Settled
  <2>4. CASE data[id] = "absent"
    BY <2>1, <2>2, <2>4 DEF Abstract!Enter
  <2>5. CASE data[id] = "pending"
    <3>1. UNCHANGED data
      BY <1>0, <2>1, <2>5 DEF TypeOK
    <3> QED
      BY <2>1, <2>2, <3>1, StutterStep
  <2> QED
    BY <2>3, <2>4, <2>5
<1>3. ASSUME NEW id \in Ids, Finalize(id)
      PROVE  \E outcome \in {"ok", "fail"} : Abstract!Settle(id, outcome)
  <2>1. /\ UNCHANGED <<hooked, replayed>> /\ pc[id] \in {"ok", "fail"}
        /\ data' = [data EXCEPT ![id] = pc[id]]
        /\ pc' = [pc EXCEPT ![id] = "hook"]
    BY <1>3 DEF Finalize, UpdateStatus, Goto
  <2>2. \A x \in Ids : pc'[x] # "unused" <=> pc[x] # "unused"
    BY <1>0, <2>1 DEF TypeOK
  <2>3. data[id] = "pending"
    BY <1>0, <2>1 DEF PendingWhileRunning, Pending
  <2> QED
    BY <2>1, <2>2, <2>3 DEF Abstract!Settle
<1>4. ASSUME NEW id \in Ids, Hook(id)
      PROVE  Abstract!Tell(id) \/ UNCHANGED Abstract!lvars
  <2>1. /\ pc[id] = "hook" /\ UNCHANGED <<data, replayed>>
        /\ pc' = [pc EXCEPT ![id] = "done"]
    BY <1>4 DEF Hook, Goto
  <2>2. \A x \in Ids : pc'[x] # "unused" <=> pc[x] # "unused"
    BY <1>0, <2>1 DEF TypeOK
  <2>3. CASE replayed[id]
    <3>1. UNCHANGED hooked
      BY <1>4, <2>3 DEF Hook
    <3> QED
      BY <2>1, <2>2, <3>1, StutterStep
  <2>4. CASE ~replayed[id]
    <3>1. hooked' = [hooked EXCEPT ![id] = Append(hooked[id], data[id])] /\ hooked[id] = << >>
      BY <1>0, <1>4, <2>1, <2>4 DEF Hook, HookInv, NotHookedYet
    <3>2. Append(<< >>, data[id]) = << data[id] >>
      OBVIOUS
    <3>3. hooked' = [hooked EXCEPT ![id] = << data[id] >>]
      BY <3>1, <3>2
    <3>4. data[id] \in {"ok", "fail"}
      BY <1>0, <2>1 DEF TerminalWhenSettled, Settled
    <3> QED
      BY <2>1, <2>2, <2>4, <3>1, <3>3, <3>4 DEF Abstract!Tell
  <2> QED
    BY <2>3, <2>4
<1>5. ASSUME Restart PROVE Abstract!Restart
  <2>1. /\ data' = [id \in Ids |-> "absent"] /\ UNCHANGED <<hooked, kv>>
        /\ replayed' = [id \in Ids |-> <<Typ, id>> \in kv]
        /\ \A id \in Ids : pc'[id] = IF <<Typ, id>> \in kv THEN "processing"
                                   ELSE IF pc[id] = "unused" THEN "unused" ELSE "gone"
    BY <1>5 DEF Restart, GetAll, disk
  <2>0. OkIsDurable /\ StoredHasBegun
    <3>1. MaxRestarts # 0
      BY <1>0, <1>5, CollectorAssumption DEF Restart, TypeOK
    <3> QED
      BY <3>1 DEF RestartsAreKind, LifecycleInv, DurableInv
  <2>2. \A id \in Ids : data[id] = "ok" => replayed'[id]
    BY <2>0, <2>1 DEF OkIsDurable
  <2>3. \A id \in Ids : <<Typ, id>> \in kv => pc[id] # "unused"
    BY <2>0 DEF StoredHasBegun
  <2>4. \A id \in Ids : pc'[id] # "unused" <=> pc[id] # "unused"
    BY <2>1, <2>3
  <2>5. \A id \in Ids : replayed'[id] => pc[id] # "unused"
    BY <2>1, <2>3
  <2> QED
    BY <2>1, <2>2, <2>4, <2>5 DEF Abstract!Restart
<1>6. ASSUME NEW id \in Ids,
             \/ Lock(id) \/ Unlock(id) \/ Fetch(id) \/ PutMeta(id) \/ CreateBody(id)
             \/ WriteBody(id) \/ Processed(id) \/ Prune(id)
      PROVE  UNCHANGED Abstract!lvars
  <2>1. /\ UNCHANGED <<data, hooked, replayed>>
        /\ \/ UNCHANGED pc
           \/ /\ pc[id] # "unused"
              /\ \E step \in Steps \ {"unused"} : pc' = [pc EXCEPT ![id] = step]
    BY <1>6 DEF Lock, Unlock, Fetch, PutMeta, CreateBody, WriteBody, Processed, Prune,
                Goto, Steps
  <2>2. \A x \in Ids : pc'[x] # "unused" <=> pc[x] # "unused"
    BY <1>0, <2>1 DEF TypeOK
  <2> QED
    BY <2>1, <2>2, StutterStep
<1>7. CASE UNCHANGED <<pc, data, hooked, replayed>>
  BY <1>7, StutterStep
<1> QED
  BY <1>1, <1>2, <1>3, <1>4, <1>5, <1>6, <1>7
     DEF Next, Task, Process, Terminated, Subscribe, Take, Leave, CheckCache, Exists,
         Generate, StoreCache, GetBegin, GetEnd, vars, memory, Abstract!Next

\* ImplementsLifecycle: a collector of profiles or logs keeps the promise of
\* SnapshotLifecycle, for any number of snapshots, requests and restarts, whatever
\* is torn and whoever asks for what; a collector of memos keeps it until the
\* process is restarted (collector.go, snapshot.go:63-115).
THEOREM CollectorRefinesLifecycle == RestartsAreKind => (Spec => ImplementsLifecycle)
<1> SUFFICES ASSUME RestartsAreKind PROVE Spec => ImplementsLifecycle
  OBVIOUS
<1>1. Init => LifecycleInv
  BY InitHookInv, InitTypeInv
     DEF Init, LifecycleInv, DurableInv, NotPruned, InStore, OkIsDurable, Stored,
         PendingWhileRunning, Pending, StoredHasBegun
<1>2. LifecycleInv /\ [Next]_vars => LifecycleInv'
  BY StepHookInv, StepDurableInv, StepPending, StepStoredHasBegun DEF LifecycleInv
<1>3. Init => Abstract!Init
  <2> SUFFICES ASSUME Init PROVE Abstract!Init
    OBVIOUS
  <2>1. \A id \in Ids : pc[id] = "unused" /\ ~replayed[id]
    BY DEF Init
  <2> QED
    BY <2>1 DEF Init, Abstract!Init
<1>4. LifecycleInv /\ [Next]_vars => [Abstract!Next]_(Abstract!lvars)
  BY StepRefines
<1> QED
  BY <1>1, <1>2, <1>3, <1>4, PTL DEF Spec, ImplementsLifecycle, Abstract!Spec

\* A restart brings no memo back, whatever became of it: its meta data is stored
\* under (id, type), where GetAll does not look (snapshot.go:122, collector.go:68).
MemoIsForgotten == \A id \in Ids : id \notin GetAll /\ ~replayed[id]

THEOREM MemosAreForgotten == Kind = "memo" => (Spec => []MemoIsForgotten)
<1> SUFFICES ASSUME Kind = "memo" PROVE Spec => []MemoIsForgotten
  OBVIOUS
<1>1. Init => MemoIsForgotten
  BY DEF Init, MemoIsForgotten, GetAll
<1>2. MemoIsForgotten /\ [Next]_vars => MemoIsForgotten'
  <2> SUFFICES ASSUME MemoIsForgotten, [Next]_vars PROVE MemoIsForgotten'
    OBVIOUS
  <2>1. ASSUME NEW id \in Ids, PutMeta(id) PROVE MemoIsForgotten'
    <3>1. kv' \subseteq kv \cup {<<id, Typ>>} /\ replayed' = replayed
      BY <2>1 DEF PutMeta, MetaKey
    <3>2. \A x \in Ids : <<Typ, x>> # <<id, Typ>>
      BY CollectorAssumption
    <3> QED
      BY <3>1, <3>2 DEF MemoIsForgotten, GetAll
  <2>2. CASE Restart
    BY <2>2 DEF Restart, MemoIsForgotten, GetAll, disk
  <2>3. CASE replayed' = replayed /\ kv' \subseteq kv
    BY <2>3 DEF MemoIsForgotten, GetAll
  <2> QED
    BY <2>1, <2>2, <2>3
       DEF Next, Task, Process, Terminated, Lock, Unlock, Subscribe, Take, Leave, Begin,
           Collecting, UpdateStatus, Fetch, CreateBody, WriteBody, Processing, Processed,
           Finalize, Hook, Prune, CheckCache, Generate, StoreCache, GetBegin, GetEnd,
           vars, memory, disk
<1> QED
  BY <1>1, <1>2, PTL DEF Spec

-----------------------------------------------------------------------------
(***************************************************************************)
(* What is Ready is whole.                                                 *)
(***************************************************************************)

\* A goroutine processes its snapshot at one of its steps only.
TaskCalls == \A id \in Ids : call[id] # "none" => pc[id] = "process"

\* Only the output of a command is cached.
OnlyCommandsCache ==
    Kind # "command" =>
        /\ \A id \in Ids : cache[id] = "none"
        /\ \A c \in Callers : call[c] # "store"

Unwritten == {"unused", "collecting", "fetch", "meta", "create", "write"}

\* The file of a snapshot that is processed is whole, or New has found it as it is.
FileIsWhole ==
    \A id \in Ids :
        /\ replayed[id] => pc[id] \notin Unwritten
        /\ pc[id] \in {"processing", "process", "ok"} \/ data[id] = "ok" =>
              body[id] = "full" \/ replayed[id]

\* What a command has made of a part is known to be that: a Get has read too early, or
\* the file is a part for good.
CommandIsWhole ==
    Kind = "command" =>
        /\ \A c \in Callers : call[c] = "store" => output[c] \in {"partial", "full"}
        /\ \A g \in Gets : call[g] = "store" /\ output[g] = "partial" => subject[g] \in peeked
        /\ \A id \in Ids : call[id] = "store" /\ output[id] = "partial" => body[id] = "partial"
        /\ \A id \in Ids :
              cache[id] = "partial" =>
                  id \in peeked \/ (body[id] = "partial" /\ pc[id] \notin Unwritten)
        /\ \A id \in Ids :
              call[id] = "ok" \/ pc[id] = "ok" \/ data[id] = "ok" => cache[id] # "none"

\* A profile that could be parsed was complete, and its routes stay.
ProfileIsWhole ==
    Kind = "pprof" =>
        /\ \A g \in Gets : call[g] = "none"
        /\ \A id \in Ids :
              call[id] = "ok" \/ pc[id] = "ok" \/ data[id] = "ok" =>
                  id \in routes /\ body[id] = "full"

\* A memo is processed in the life in which it was written.
MemoIsWhole ==
    Kind = "memo" =>
        /\ \A id \in Ids : <<Typ, id>> \notin kv
        /\ \A id \in Ids :
              pc[id] \in {"processing", "process", "ok"} \/ data[id] = "ok" => body[id] = "full"

Whole ==
    /\ TaskCalls /\ OnlyCommandsCache /\ FileIsWhole
    /\ CommandIsWhole /\ ProfileIsWhole /\ MemoIsWhole

WholeInv == TypeInv /\ Whole

LEMMA InitWhole == Init => Whole
BY DEF Init, Whole, TaskCalls, OnlyCommandsCache, FileIsWhole, CommandIsWhole, Unwritten,
       ProfileIsWhole, MemoIsWhole, Callers

LEMMA StepWhole ==
    ASSUME WholeInv, [Next]_vars
    PROVE  Whole'
<1>0. TypeOK /\ TerminalWhenSettled /\ Whole
  BY DEF WholeInv, TypeInv
<1> USE DEF Whole
<1>1. ASSUME NEW id \in Ids, Begin(id) \/ Fetch(id) \/ Hook(id) PROVE Whole'
  <2>1. /\ UNCHANGED <<data, call, output, subject, routes, disk, replayed>>
        /\ \E step \in {"collecting", "meta", "fail", "done"} :
              pc' = [pc EXCEPT ![id] = step] /\ (step \in Unwritten => pc[id] # "hook")
        /\ pc[id] \in {"unused", "fetch", "hook"}
    BY <1>1 DEF Begin, Fetch, Hook, Goto, Unwritten
  <2> QED
    BY <1>0, <2>1 DEF TaskCalls, OnlyCommandsCache, FileIsWhole, CommandIsWhole, Unwritten,
                      ProfileIsWhole, MemoIsWhole, TypeOK, disk
<1>2. ASSUME NEW id \in Ids, Collecting(id) PROVE Whole'
  <2>1. /\ UNCHANGED <<call, output, subject, routes, disk, replayed>> /\ Readers = {}
        /\ data' = [data EXCEPT ![id] = "pending"]
        /\ \E step \in {"meta", "fetch"} : pc' = [pc EXCEPT ![id] = step]
        /\ pc[id] = "collecting"
    BY <1>2 DEF Collecting, UpdateStatus, Goto
  <2>2. \A g \in Gets : call[g] = "none"
    BY <2>1 DEF Readers
  <2> QED
    BY <1>0, <2>1, <2>2 DEF TaskCalls, OnlyCommandsCache, FileIsWhole, CommandIsWhole, Unwritten,
                      ProfileIsWhole, MemoIsWhole, TypeOK, disk
<1>3. ASSUME NEW id \in Ids, PutMeta(id) PROVE Whole'
  <2>1. /\ UNCHANGED <<data, call, output, subject, routes, body, cache, peeked, replayed>>
        /\ \E step \in {"create", "fail"} : pc' = [pc EXCEPT ![id] = step]
        /\ pc[id] = "meta"
        /\ kv' \subseteq kv \cup {MetaKey(id)}
    BY <1>3 DEF PutMeta, Goto
  <2>2. Kind = "memo" => \A x \in Ids : <<Typ, x>> # MetaKey(id)
    BY CollectorAssumption DEF MetaKey
  <2>3. Kind = "memo" => \A x \in Ids : <<Typ, x>> \notin kv'
    BY <1>0, <2>1, <2>2 DEF MemoIsWhole
  <2>4. \A x \in Ids : pc'[x] \in {"process", "processing", "ok", "write"} => pc[x] = pc'[x]
    BY <1>0, <2>1 DEF TypeOK
  <2>5. \A x \in Ids : pc[x] \in {"process", "write"} => pc'[x] = pc[x]
    BY <1>0, <2>1 DEF TypeOK
  <2>6. \A x \in Ids : pc'[x] \in Unwritten => pc[x] \in Unwritten
    BY <1>0, <2>1 DEF TypeOK, Unwritten
  <2> QED
    BY <1>0, <2>1, <2>3, <2>4, <2>5, <2>6 DEF TaskCalls, OnlyCommandsCache, FileIsWhole,
                                        CommandIsWhole, ProfileIsWhole, MemoIsWhole
<1>4. ASSUME NEW id \in Ids, CreateBody(id) \/ WriteBody(id) PROVE Whole'
  <2>1. /\ UNCHANGED <<data, call, output, subject, routes, kv, cache, peeked, replayed>>
        /\ \/ pc' = [pc EXCEPT ![id] = "write"] /\ body' = [body EXCEPT ![id] = "partial"]
           \/ pc' = [pc EXCEPT ![id] = "processing"] /\ body' = [body EXCEPT ![id] = "full"]
           \/ pc' = [pc EXCEPT ![id] = "fail"] /\ body' = body
        /\ pc[id] \in {"create", "write"}
    BY <1>4 DEF CreateBody, WriteBody, Goto
  <2>2. data[id] # "ok" /\ call[id] = "none"
    BY <1>0, <2>1 DEF TerminalWhenSettled, Settled, TaskCalls
  <2>3. \A x \in Ids \ {id} : pc'[x] = pc[x] /\ body'[x] = body[x]
    BY <1>0, <2>1 DEF TypeOK
  <2>4. /\ pc'[id] \in {"write", "processing", "fail"}
        /\ pc'[id] = "processing" => body'[id] = "full"
    BY <1>0, <2>1 DEF TypeOK
  <2>5. TaskCalls' /\ OnlyCommandsCache'
    BY <1>0, <2>1, <2>2, <2>3 DEF TaskCalls, OnlyCommandsCache
  <2>6. pc[id] \in Unwritten
    BY <2>1 DEF Unwritten
  <2>7. FileIsWhole'
    BY <1>0, <2>1, <2>2, <2>3, <2>4, <2>6 DEF FileIsWhole, Unwritten
  <2>8. CommandIsWhole'
    BY <1>0, <2>1, <2>2, <2>3, <2>4, <2>6 DEF CommandIsWhole, Callers
  <2>9. ProfileIsWhole' /\ MemoIsWhole'
    BY <1>0, <2>1, <2>2, <2>3, <2>4 DEF ProfileIsWhole, MemoIsWhole
  <2> QED
    BY <2>5, <2>7, <2>8, <2>9
<1>5. ASSUME NEW id \in Ids, Processing(id) PROVE Whole'
  <2>1. /\ UNCHANGED <<output, subject, routes, disk, replayed>> /\ Readers = {}
        /\ data' = [data EXCEPT ![id] = "pending"]
        /\ pc' = [pc EXCEPT ![id] = "process"] /\ pc[id] = "processing"
        /\ call' = [call EXCEPT ![id] = "exists"]
    BY <1>5 DEF Processing, UpdateStatus, Goto
  <2>2. \A g \in Gets : call[g] = "none" /\ call'[g] = "none"
    BY <1>0, <2>1, CollectorAssumption DEF Readers, TypeOK, Callers
  <2> QED
    BY <1>0, <2>1, <2>2 DEF TaskCalls, OnlyCommandsCache, FileIsWhole, CommandIsWhole, Unwritten,
                            ProfileIsWhole, MemoIsWhole, TypeOK, disk, Callers
<1>6. ASSUME NEW id \in Ids, Processed(id) PROVE Whole'
  <2>1. /\ UNCHANGED <<data, output, subject, routes, disk, replayed>>
        /\ pc[id] = "process" /\ call' = [call EXCEPT ![id] = "none"]
        /\ \/ call[id] = "ok" /\ pc' = [pc EXCEPT ![id] = "ok"]
           \/ pc' = [pc EXCEPT ![id] = "fail"]
    BY <1>6 DEF Processed, Goto
  <2> QED
    BY <1>0, <2>1, CollectorAssumption
    DEF TaskCalls, OnlyCommandsCache, FileIsWhole, CommandIsWhole, Unwritten, ProfileIsWhole,
        MemoIsWhole, TypeOK, disk, Callers
<1>7. ASSUME NEW id \in Ids, Finalize(id) PROVE Whole'
  <2>1. /\ UNCHANGED <<call, output, subject, routes, disk, replayed>> /\ Readers = {}
        /\ data' = [data EXCEPT ![id] = pc[id]] /\ pc[id] \in {"ok", "fail"}
        /\ pc' = [pc EXCEPT ![id] = "hook"]
    BY <1>7 DEF Finalize, UpdateStatus, Goto
  <2>2. \A g \in Gets : call[g] = "none"
    BY <2>1 DEF Readers
  <2> QED
    BY <1>0, <2>1, <2>2 DEF TaskCalls, OnlyCommandsCache, FileIsWhole, CommandIsWhole, Unwritten,
                            ProfileIsWhole, MemoIsWhole, TypeOK, disk
<1>8. ASSUME NEW id \in Ids, Prune(id) PROVE Whole'
  <2>1. /\ UNCHANGED <<pc, data, call, output, subject, routes, body, cache, peeked, replayed>>
        /\ kv' \subseteq kv
    BY <1>8 DEF Prune
  <2> QED
    BY <1>0, <2>1 DEF TaskCalls, OnlyCommandsCache, FileIsWhole, CommandIsWhole, ProfileIsWhole,
                      MemoIsWhole
<1>9. ASSUME NEW c \in Callers, CheckCache(c) PROVE Whole'
  <2>1. /\ UNCHANGED <<pc, data, output, subject, routes, disk, replayed>> /\ call[c] = "exists"
        /\ \/ call' = [call EXCEPT ![c] = IF cache[Subject(c)] # "none" THEN "ok" ELSE "generate"]
           \/ call' = [call EXCEPT ![c] = "failed"]
    BY <1>9 DEF CheckCache, Exists
  <2>2. Subject(c) \in Ids
    BY <1>0, <2>1, SubjectType DEF Subject
  <2>3. Kind = "pprof" => c \in Ids
    BY <1>0, <2>1 DEF ProfileIsWhole, Callers
  <2>4. c \in Gets => Subject(c) = subject[c]
    BY CollectorAssumption DEF Subject
  <2>5. c \in Ids => Subject(c) = c
    BY DEF Subject
  <2>6. /\ call'[c] \in {"ok", "generate", "failed"} /\ call[c] # "none"
        /\ call'[c] = "ok" => cache[Subject(c)] # "none"
        /\ call'[c] = "generate" => cache[Subject(c)] = "none"
        /\ \A x \in Callers : x # c => call'[x] = call[x]
    BY <1>0, <2>1 DEF TypeOK
  <2>7. TaskCalls' /\ OnlyCommandsCache' /\ FileIsWhole'
    BY <1>0, <2>1, <2>6 DEF TaskCalls, OnlyCommandsCache, FileIsWhole, disk, Callers
  <2>8. CommandIsWhole'
    BY <1>0, <2>1, <2>2, <2>4, <2>5, <2>6 DEF CommandIsWhole, disk, Callers
  <2>9. ProfileIsWhole' /\ MemoIsWhole'
    BY <1>0, <2>1, <2>2, <2>3, <2>5, <2>6, CollectorAssumption
    DEF OnlyCommandsCache, ProfileIsWhole, MemoIsWhole, disk, Callers
  <2> QED
    BY <2>7, <2>8, <2>9
<1>10. ASSUME NEW c \in Callers, Generate(c) PROVE Whole'
  <2>1. /\ UNCHANGED <<pc, data, subject, kv, body, cache, replayed>> /\ call[c] = "generate"
        /\ \/ /\ CanProcess(Subject(c))
              /\ call' = [call EXCEPT ![c] = IF Kind = "command" THEN "store" ELSE "ok"]
              /\ output' = IF Kind = "command" THEN [output EXCEPT ![c] = body[Subject(c)]]
                                               ELSE output
              /\ routes' = IF Kind = "pprof" THEN routes \cup {Subject(c)} ELSE routes
           \/ call' = [call EXCEPT ![c] = "failed"] /\ UNCHANGED <<output, routes>>
        /\ peeked \subseteq peeked'
    BY <1>10 DEF Generate, Cacheable
  <2>2. Subject(c) \in Ids
    BY <1>0, <2>1, SubjectType DEF Subject
  <2>3. /\ c \in Gets => Subject(c) = subject[c]
        /\ c \in Ids => Subject(c) = c
    BY CollectorAssumption DEF Subject
  <2>4. Kind = "pprof" => c \in Ids
    BY <1>0, <2>1 DEF ProfileIsWhole, Callers
  <2>5. Kind = "pprof" /\ CanProcess(Subject(c)) => body[Subject(c)] = "full"
    BY DEF CanProcess
  <2>6. Kind = "command" /\ CanProcess(Subject(c)) => body[Subject(c)] \in {"partial", "full"}
    BY <1>0, <2>2 DEF CanProcess, TypeOK, Contents
  <2>7. /\ \A x \in Callers : x # c => call'[x] = call[x] /\ output'[x] = output[x]
        /\ call'[c] = "store" => Kind = "command" /\ output'[c] = body[Subject(c)]
        /\ call'[c] \in {"store", "ok", "failed"}
        /\ call'[c] \in {"store", "ok"} => CanProcess(Subject(c))
        /\ Kind = "command" => call'[c] # "ok"
        /\ Kind = "pprof" /\ call'[c] = "ok" => routes' = routes \cup {Subject(c)}
        /\ routes \subseteq routes'
    BY <1>0, <2>1 DEF TypeOK
  <2>8. call'[c] = "store" /\ c \in Gets /\ body[Subject(c)] = "partial" => subject[c] \in peeked'
    <3>1. call' = [call EXCEPT ![c] = "failed"] => call'[c] = "failed"
      BY <1>0 DEF TypeOK
    <3> QED
      BY <1>10, <2>3, <3>1 DEF Generate
  <2>9. TaskCalls' /\ OnlyCommandsCache' /\ FileIsWhole'
    BY <1>0, <2>1, <2>7 DEF TaskCalls, OnlyCommandsCache, FileIsWhole, Callers
  <2>10. CommandIsWhole'
    <3> SUFFICES ASSUME Kind = "command" PROVE CommandIsWhole'
      BY DEF CommandIsWhole
    <3>1. \A x \in Callers : call'[x] = "store" => output'[x] \in {"partial", "full"}
      BY <1>0, <2>6, <2>7 DEF CommandIsWhole
    <3>2. \A g \in Gets : call'[g] = "store" /\ output'[g] = "partial" => subject'[g] \in peeked'
      BY <1>0, <2>1, <2>7, <2>8 DEF CommandIsWhole, Callers
    <3>3. \A id \in Ids : call'[id] = "store" /\ output'[id] = "partial" => body'[id] = "partial"
      BY <1>0, <2>1, <2>3, <2>7 DEF CommandIsWhole, Callers
    <3>4. \A id \in Ids :
             call'[id] = "ok" \/ pc'[id] = "ok" \/ data'[id] = "ok" => cache'[id] # "none"
      BY <1>0, <2>1, <2>7 DEF CommandIsWhole, Callers
    <3>5. \A id \in Ids :
             cache'[id] = "partial" =>
                 id \in peeked' \/ (body'[id] = "partial" /\ pc'[id] \notin Unwritten)
      BY <1>0, <2>1 DEF CommandIsWhole
    <3> QED
      BY <3>1, <3>2, <3>3, <3>4, <3>5 DEF CommandIsWhole
  <2>11. ProfileIsWhole' /\ MemoIsWhole'
    BY <1>0, <2>1, <2>3, <2>4, <2>5, <2>7, CollectorAssumption
    DEF ProfileIsWhole, MemoIsWhole, Callers
  <2> QED
    BY <2>9, <2>10, <2>11
<1>11. ASSUME NEW c \in Callers, StoreCache(c) PROVE Whole'
  <2>1. /\ UNCHANGED <<pc, data, subject, routes, kv, body, peeked, replayed>>
        /\ call[c] = "store"
        /\ \/ call' = [call EXCEPT ![c] = "ok"] /\ cache' = [cache EXCEPT ![Subject(c)] = output[c]]
           \/ call' = [call EXCEPT ![c] = "failed"] /\ cache' = cache
        /\ output' = [output EXCEPT ![c] = "none"]
    BY <1>11 DEF StoreCache
  <2>2. Kind = "command" /\ output[c] \in {"partial", "full"}
    BY <1>0, <2>1, CollectorAssumption DEF OnlyCommandsCache, CommandIsWhole
  <2>3. Subject(c) \in Ids
    BY <1>0, <2>1, SubjectType DEF Subject
  <2>4. /\ c \in Gets => Subject(c) = subject[c]
        /\ c \in Ids => Subject(c) = c /\ pc[c] = "process"
    BY <1>0, <2>1, CollectorAssumption DEF Subject, TaskCalls
  <2>5. /\ \A x \in Callers : x # c => call'[x] = call[x] /\ output'[x] = output[x]
        /\ call'[c] \in {"ok", "failed"}
        /\ call'[c] = "ok" => cache'[Subject(c)] # "none"
        /\ \A x \in Ids : cache'[x] = cache[x] \/ (x = Subject(c) /\ cache'[x] = output[c])
    BY <1>0, <2>1, <2>2, <2>3 DEF TypeOK
  <2>6. TaskCalls' /\ OnlyCommandsCache' /\ FileIsWhole'
    BY <1>0, <2>1, <2>2, <2>5 DEF TaskCalls, OnlyCommandsCache, FileIsWhole, Callers
  <2>7. CommandIsWhole'
    <3>1. \A x \in Callers : call'[x] = "store" => x # c /\ call[x] = "store" /\ output'[x] = output[x]
      BY <2>5
    <3>2. /\ \A x \in Callers : call'[x] = "store" => output'[x] \in {"partial", "full"}
          /\ \A g \in Gets : call'[g] = "store" /\ output'[g] = "partial" => subject'[g] \in peeked'
          /\ \A id \in Ids : call'[id] = "store" /\ output'[id] = "partial" => body'[id] = "partial"
      BY <1>0, <2>1, <2>2, <3>1 DEF CommandIsWhole, Callers
    <3>3. \A id \in Ids :
             call'[id] = "ok" \/ pc'[id] = "ok" \/ data'[id] = "ok" => cache'[id] # "none"
      BY <1>0, <2>1, <2>2, <2>4, <2>5 DEF CommandIsWhole, Callers
    <3>4. ASSUME NEW id \in Ids, cache'[id] = "partial"
          PROVE  id \in peeked' \/ (body'[id] = "partial" /\ pc'[id] \notin Unwritten)
      <4>1. CASE cache[id] = "partial"
        BY <1>0, <2>1, <2>2, <4>1 DEF CommandIsWhole
      <4>2. CASE cache[id] # "partial"
        <5>1. id = Subject(c) /\ output[c] = "partial"
          BY <2>5, <3>4, <4>2
        <5>2. c \in Gets => id \in peeked
          BY <1>0, <2>1, <2>2, <2>4, <5>1 DEF CommandIsWhole
        <5>3. c \in Ids => body[id] = "partial" /\ pc[id] = "process"
          BY <1>0, <2>1, <2>2, <2>4, <5>1 DEF CommandIsWhole
        <5> QED
          BY <2>1, <5>2, <5>3 DEF Callers, Unwritten
      <4> QED
        BY <4>1, <4>2
    <3> QED
      BY <3>2, <3>3, <3>4 DEF CommandIsWhole
  <2> QED
    BY <2>2, <2>6, <2>7 DEF ProfileIsWhole, MemoIsWhole
<1>12. ASSUME NEW g \in Gets, GetBegin(g) PROVE Whole'
  <2>1. /\ UNCHANGED <<pc, data, output, routes, disk, replayed>> /\ Kind # "pprof"
        /\ call' = [call EXCEPT ![g] = "exists"] /\ call[g] = "none"
        /\ \E id \in Ids : subject' = [subject EXCEPT ![g] = id]
    BY <1>12 DEF GetBegin
  <2> QED
    BY <1>0, <2>1, CollectorAssumption
    DEF TaskCalls, OnlyCommandsCache, FileIsWhole, CommandIsWhole, ProfileIsWhole, MemoIsWhole,
        TypeOK, disk, Callers
<1>13. ASSUME NEW g \in Gets, GetEnd(g) PROVE Whole'
  <2>1. /\ UNCHANGED <<pc, data, output, routes, disk, replayed>>
        /\ call' = [call EXCEPT ![g] = "none"]
        /\ subject' = [subject EXCEPT ![g] = NoOne]
    BY <1>13 DEF GetEnd
  <2> QED
    BY <1>0, <2>1, CollectorAssumption
    DEF TaskCalls, OnlyCommandsCache, FileIsWhole, CommandIsWhole, ProfileIsWhole, MemoIsWhole,
        TypeOK, disk, Callers
<1>14. CASE Restart
  <2>1. /\ UNCHANGED disk
        /\ \A c \in Callers : call'[c] = "none"
        /\ \A id \in Ids : /\ data'[id] = "absent"
                           /\ pc'[id] \in {"processing", "unused", "gone"}
                           /\ pc'[id] = "unused" => pc[id] = "unused"
                           /\ pc'[id] = "processing" <=> replayed'[id]
                           /\ pc'[id] = "processing" => <<Typ, id>> \in kv
    BY <1>14 DEF Restart, GetAll
  <2> QED
    BY <1>0, <2>1
    DEF TaskCalls, OnlyCommandsCache, FileIsWhole, CommandIsWhole, Unwritten, ProfileIsWhole,
        MemoIsWhole, disk, Callers
<1>15. CASE UNCHANGED <<pc, data, call, output, subject, routes, disk, replayed>>
  BY <1>0, <1>15
  DEF TaskCalls, OnlyCommandsCache, FileIsWhole, CommandIsWhole, ProfileIsWhole, MemoIsWhole, disk
<1> QED
  BY <1>1, <1>2, <1>3, <1>4, <1>5, <1>6, <1>7, <1>8, <1>9, <1>10, <1>11, <1>12, <1>13,
     <1>14, <1>15
  DEF Next, Task, Process, Terminated, Lock, Unlock, Subscribe, Take, Leave, vars, memory, disk

LEMMA WholeInvHolds == Spec => []WholeInv
<1>1. Init => WholeInv
  BY InitTypeInv, InitWhole DEF WholeInv
<1>2. WholeInv /\ [Next]_vars => WholeInv'
  BY StepTypeInv, StepWhole DEF WholeInv
<1> QED
  BY <1>1, <1>2, PTL DEF Spec

LEMMA ReadyFollows == WholeInv => ReadyIsWhole
<1> SUFFICES ASSUME WholeInv, NEW id \in Ids, data[id] = "ok"
             PROVE  /\ Kind = "command" =>
                          \/ cache[id] = "full"
                          \/ cache[id] = "partial" /\ id \in peeked
                          \/ cache[id] = "partial" /\ body[id] = "partial" /\ replayed[id]
                    /\ Kind = "pprof" => id \in routes /\ body[id] = "full"
                    /\ Kind = "memo" => body[id] = "full"
  BY CollectorAssumption DEF ReadyIsWhole
<1>1. cache[id] \in {"none", "partial", "full"}
  BY DEF WholeInv, TypeInv, TypeOK, Contents
<1>2. body[id] = "full" \/ replayed[id]
  BY DEF WholeInv, Whole, FileIsWhole
<1> QED
  BY <1>1, <1>2 DEF WholeInv, Whole, CommandIsWhole, ProfileIsWhole, MemoIsWhole

\* ReadyIsWhole: what is listed as Ready has its output, its page or its text, made of
\* the whole content, whenever the process is killed, a write fails or a client asks: but
\* for a command that a later start, or a Get that came too early, has given a part.
THEOREM ReadyHasItAll == Spec => []ReadyIsWhole
BY WholeInvHolds, ReadyFollows, PTL

-----------------------------------------------------------------------------
(***************************************************************************)
(* What the hook is told.                                                  *)
(***************************************************************************)

\* The file of which the hook was told that it is ok, and its output, are there.
ToldHasOutput ==
    \A id \in Ids : hooked[id] = <<"ok">> =>
        body[id] = "full" /\ (Kind = "command" => cache[id] # "none")

ToldInv == HookInv /\ WholeInv /\ ToldHasOutput

\* A file is written before the hook, an output stays, and the hook is called with the
\* status of the entry.
LEMMA ToldFrame ==
    ASSUME HookInv, WholeInv, [Next]_vars, NEW id \in Ids
    PROVE  /\ body'[id] = body[id] \/ pc[id] \in {"create", "write"}
           /\ cache[id] # "none" => cache'[id] # "none"
           /\ \/ hooked'[id] = hooked[id]
              \/ /\ pc[id] = "hook" /\ ~replayed[id]
                 /\ hooked'[id] = Append(hooked[id], data[id])
<1>0. TypeOK
  BY DEF WholeInv, TypeInv
<1>1. ASSUME NEW x \in Ids, CreateBody(x) \/ WriteBody(x)
      PROVE  (body'[id] = body[id] \/ pc[id] \in {"create", "write"}) /\ UNCHANGED <<cache, hooked>>
  BY <1>0, <1>1 DEF CreateBody, WriteBody, TypeOK
<1>2. ASSUME NEW c \in Callers, StoreCache(c)
      PROVE  (cache[id] # "none" => cache'[id] # "none") /\ UNCHANGED <<body, hooked>>
  <2>1. output[c] # "none"
    BY <1>2, CollectorAssumption
    DEF StoreCache, WholeInv, Whole, OnlyCommandsCache, CommandIsWhole
  <2> QED
    BY <1>0, <1>2, <2>1 DEF StoreCache, TypeOK
<1>3. ASSUME NEW x \in Ids, Hook(x)
      PROVE  /\ UNCHANGED <<body, cache>>
             /\ \/ hooked'[id] = hooked[id]
                \/ /\ pc[id] = "hook" /\ ~replayed[id]
                   /\ hooked'[id] = Append(hooked[id], data[id])
  BY <1>0, <1>3 DEF Hook, TypeOK, disk
<1>4. CASE UNCHANGED <<body, cache, hooked>>
  BY <1>4
<1> QED
  BY <1>1, <1>2, <1>3, <1>4
  DEF Next, Task, Process, Terminated, Lock, Unlock, Begin, Collecting, UpdateStatus, Fetch,
      PutMeta, Processing, Processed, Finalize, Prune, CheckCache, Generate, GetBegin, GetEnd,
      Subscribe, Take, Leave, Restart, vars, disk

LEMMA StepTold == ToldInv /\ [Next]_vars => ToldInv'
<1> SUFFICES ASSUME ToldInv, [Next]_vars, NEW id \in Ids, hooked'[id] = <<"ok">>
             PROVE  body'[id] = "full" /\ (Kind = "command" => cache'[id] # "none")
  BY StepHookInv, StepTypeInv, StepWhole DEF ToldInv, ToldHasOutput, WholeInv
<1>1. /\ body'[id] = body[id] \/ pc[id] \in {"create", "write"}
      /\ cache[id] # "none" => cache'[id] # "none"
      /\ \/ hooked'[id] = hooked[id]
         \/ /\ pc[id] = "hook" /\ ~replayed[id]
            /\ hooked'[id] = Append(hooked[id], data[id])
  BY ToldFrame DEF ToldInv
<1>2. CASE hooked'[id] = hooked[id]
  <2>1. hooked[id] # << >>
    <3>1. <<"ok">> # << >>
      OBVIOUS
    <3> QED
      BY ONLY <1>2, <3>1, hooked'[id] = <<"ok">>
  <2>2. pc[id] \notin {"create", "write"}
    BY <2>1 DEF ToldInv, HookInv, NotHookedYet, WholeInv, Whole, FileIsWhole, Unwritten
  <2> QED
    BY <1>1, <1>2, <2>2 DEF ToldInv, ToldHasOutput
<1>3. CASE /\ pc[id] = "hook" /\ ~replayed[id]
           /\ hooked'[id] = Append(hooked[id], data[id])
  <2>1. hooked[id] = << >>
    BY <1>3 DEF ToldInv, HookInv, NotHookedYet
  <2>2. Append(<< >>, data[id]) = <<data[id]>>
    OBVIOUS
  <2>3. data[id] = "ok"
    BY <1>3, <2>1, <2>2
  <2> QED
    BY <1>1, <1>3, <2>3 DEF ToldInv, WholeInv, Whole, FileIsWhole, CommandIsWhole
<1> QED
  BY <1>1, <1>2, <1>3

\* ToldIsWhole: a check mark stands for a file that was collected whole, however often the
\* process is killed and restarted, and for an output that was made of it unless a Get came
\* too early.
THEOREM ToldHasItAll == Spec => []ToldIsWhole
<1>1. Init => ToldInv
  BY InitHookInv, InitTypeInv, InitWhole DEF ToldInv, WholeInv, ToldHasOutput, Init
<1>2. ToldInv => ToldIsWhole
  <2> SUFFICES ASSUME ToldInv, NEW id \in Ids, hooked[id] = <<"ok">>
               PROVE  /\ body[id] = "full"
                      /\ Kind = "command" =>
                            cache[id] = "full" \/ (cache[id] = "partial" /\ id \in peeked)
    BY DEF ToldIsWhole
  <2>1. body[id] = "full" /\ (Kind = "command" => cache[id] # "none")
    BY DEF ToldInv, ToldHasOutput
  <2>2. cache[id] \in {"none", "partial", "full"}
    BY DEF ToldInv, WholeInv, TypeInv, TypeOK, Contents
  <2> QED
    BY <2>1, <2>2 DEF ToldInv, WholeInv, Whole, CommandIsWhole
<1> QED
  BY <1>1, <1>2, StepTold, PTL DEF Spec

=============================================================================
