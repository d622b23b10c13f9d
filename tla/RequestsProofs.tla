---------------------------- MODULE RequestsProofs ----------------------------
(***************************************************************************)
(* Theorems about Requests, for any number of snapshots, queries, indexes  *)
(* and restarts: the handlers leave the collector to its own steps, so     *)
(* that the theorems of CollectorProofs hold beside them as well, and what *)
(* they answer is whole and fresh.                                         *)
(***************************************************************************)
EXTENDS Requests, CollectorProofs

-----------------------------------------------------------------------------
(***************************************************************************)
(* What a step of the collector does to entries and bodies.                *)
(***************************************************************************)

\* updateStatus, by the goroutine of a snapshot that is not settled.
Updates(id) ==
    /\ writer = id /\ pc[id] \in AboutToUpdate /\ Readers = {}
    /\ \E status \in {"pending", "ok", "fail"} :
          /\ data' = [data EXCEPT ![id] = status]
          /\ published' = [published EXCEPT ![id] = status]
    /\ \E step \in Steps \ {"done"} : pc' = [pc EXCEPT ![id] = step]
    /\ UNCHANGED body

\* Another step of such a goroutine.
Proceeds(id) ==
    /\ pc[id] \notin Settled
    /\ \E step \in Steps \ {"done"} : pc' = [pc EXCEPT ![id] = step]
    /\ \A x \in Ids \ {id} : body'[x] = body[x]
    /\ UNCHANGED <<data, published>>

\* Its last step.
Ends(id) ==
    /\ Hook(id)
    /\ pc[id] = "hook" /\ pc' = [pc EXCEPT ![id] = "done"]
    /\ UNCHANGED <<data, published, body>>

LEMMA StepsOfCollector ==
    ASSUME TypeOK, [Next]_vars
    PROVE  \/ \E id \in Ids : Updates(id) \/ Proceeds(id) \/ Ends(id)
           \/ Restart
           \/ UNCHANGED <<pc, data, published, body>>
<1>1. ASSUME NEW id \in Ids, Collecting(id) \/ Processing(id) \/ Finalize(id) PROVE Updates(id)
  BY <1>1 DEF Collecting, Processing, Finalize, UpdateStatus, Updates, AboutToUpdate, Goto,
              Steps, disk
<1>2. ASSUME NEW id \in Ids,
             \/ Begin(id) \/ Fetch(id) \/ PutMeta(id) \/ CreateBody(id) \/ WriteBody(id)
             \/ Processed(id)
      PROVE  Proceeds(id)
  <2>1. CASE CreateBody(id) \/ WriteBody(id)
    <3>1. /\ pc[id] \in {"create", "write"}
          /\ \E step \in {"write", "processing", "fail"} : pc' = [pc EXCEPT ![id] = step]
      BY <2>1 DEF CreateBody, WriteBody, Goto
    <3>2. UNCHANGED <<data, published>>
      BY <2>1 DEF CreateBody, WriteBody
    <3>3. \A x \in Ids \ {id} : body'[x] = body[x]
      BY <2>1 DEF CreateBody, WriteBody, TypeOK
    <3> QED
      BY <3>1, <3>2, <3>3 DEF Proceeds, Settled, Steps
  <2>2. CASE Begin(id) \/ Fetch(id) \/ PutMeta(id) \/ Processed(id)
    <3>1. /\ pc[id] \in {"unused", "fetch", "meta", "process"} /\ UNCHANGED <<data, published, body>>
          /\ \E step \in {"collecting", "meta", "create", "ok", "fail"} :
                pc' = [pc EXCEPT ![id] = step]
      BY <2>2 DEF Begin, Fetch, PutMeta, Processed, Goto, disk
    <3> QED
      BY <3>1 DEF Proceeds, Settled, Steps
  <2> QED
    BY <1>2, <2>1, <2>2
<1>3. ASSUME NEW id \in Ids, Hook(id) PROVE Ends(id)
  BY <1>3 DEF Hook, Ends, Goto, disk
<1> QED
  BY <1>1, <1>2, <1>3
  DEF Next, Task, Process, Terminated, Lock, Unlock, Subscribe, Take, Leave, Prune, CheckCache,
      Exists, Generate, StoreCache, GetBegin, GetEnd, vars, memory, disk

\* A snapshot that is ok stays as it is until the next restart.
LEMMA OkStays ==
    ASSUME TypeInv, [Next]_vars, ~Restart, NEW id \in Ids, data[id] = "ok"
    PROVE  /\ data'[id] = "ok" /\ body'[id] = body[id]
           /\ pc[id] = "done" => pc'[id] = "done"
<1>1. pc[id] \in Settled /\ TypeOK
  BY DEF TypeInv, TerminalWhenSettled
<1>2. ASSUME NEW x \in Ids, Updates(x) \/ Proceeds(x) \/ Ends(x) PROVE x # id \/ Ends(x)
  BY <1>1, <1>2 DEF Updates, Proceeds, Settled, AboutToUpdate
<1> QED
  BY <1>1, <1>2, StepsOfCollector DEF Updates, Proceeds, Ends, TypeOK

-----------------------------------------------------------------------------
(***************************************************************************)
(* The collector beside its handlers.                                      *)
(***************************************************************************)

\* What postIndex announces is what everybody has been told.
AnnouncedIsOk ==
    announcing \subseteq {id \in Ids : data[id] = "ok" /\ pc[id] = "done"}

FollowInv == TypeInv /\ EventsFollowData /\ AnnouncedIsOk

\* Every step of the handlers is one of the collector, or none.
LEMMA StepIsStep ==
    ASSUME FollowInv, [RequestsNext]_rvars
    PROVE  [Next]_vars
<1>1. CASE CollectorStep
  BY <1>1 DEF CollectorStep, Next, Callers
<1>2. CASE RestartAll
  BY <1>2 DEF RestartAll, Next
<1>3. ASSUME NEW id \in Ids, Announce(id) PROVE UNCHANGED vars
  <2>1. data[id] = "ok" /\ published[id] = "ok" /\ TypeOK
    BY <1>3 DEF FollowInv, TypeInv, EventsFollowData, AnnouncedIsOk, Announce
  <2>2. published' = published
    BY <1>3, <2>1 DEF Announce, TypeOK
  <2> QED
    BY <1>3, <2>2 DEF Announce, vars, memory, disk
<1>4. ASSUME NEW q \in Queries, Ask(q) \/ FindLatest(q) \/ FindById(q) \/ ServeFile(q)
      PROVE  UNCHANGED vars
  BY <1>4 DEF Ask, FindLatest, FindById, ServeFile
<1>5. ASSUME NEW g \in Gets, AskIndex(g) \/ ListEntries(g) \/ ListAgain(g)
      PROVE  UNCHANGED vars
  BY <1>5 DEF AskIndex, ListEntries, ListAgain
<1>6. ASSUME NEW g \in Gets, GetEntry(g) \/ ReadEntry(g) \/ GotEntry(g) PROVE Next
  BY <1>6 DEF GetEntry, ReadEntry, GotEntry, Next, Callers
<1> QED
  BY <1>1, <1>2, <1>3, <1>4, <1>5, <1>6 DEF RequestsNext, Terminated, rvars

LEMMA NoRestart ==
    ASSUME TypeOK, [RequestsNext]_rvars, ~RestartAll
    PROVE  ~Restart
<1>1. UNCHANGED restarts
  <2>1. CASE CollectorStep
    BY <2>1 DEF CollectorStep, Task, Process, Prune, Lock, Unlock, Begin, Collecting, Fetch,
                PutMeta, CreateBody, WriteBody, Processing, Processed, Finalize, Hook,
                CheckCache, Generate, StoreCache, UpdateStatus
  <2> QED
    BY <2>1 DEF RequestsNext, Announce, Ask, FindLatest, FindById, ServeFile, AskIndex,
                ListEntries, ListAgain, GetEntry, ReadEntry, GotEntry, Terminated, rvars, vars,
                memory, GetBegin, GetEnd, Process, CheckCache, Generate, StoreCache
<1> QED
  BY <1>1 DEF Restart, TypeOK

LEMMA FollowStep ==
    ASSUME FollowInv, [RequestsNext]_rvars
    PROVE  FollowInv'
<1>0. TypeInv /\ TypeOK /\ [Next]_vars
  BY StepIsStep DEF FollowInv, TypeInv
<1>1. TypeInv'
  BY <1>0, StepTypeInv
<1>2. EventsFollowData'
  <2>1. CASE Restart
    BY <2>1 DEF Restart, EventsFollowData
  <2>2. ASSUME NEW id \in Ids, Updates(id) PROVE EventsFollowData'
    BY <1>0, <2>2 DEF Updates, FollowInv, EventsFollowData, TypeOK
  <2>3. CASE UNCHANGED <<data, published>>
    BY <2>3 DEF FollowInv, EventsFollowData
  <2> QED
    BY <1>0, <2>1, <2>2, <2>3, StepsOfCollector DEF Proceeds, Ends
<1>3. AnnouncedIsOk'
  <2>1. CASE RestartAll
    BY <2>1 DEF RestartAll, AnnouncedIsOk
  <2>2. CASE CollectorStep /\ ~RestartAll
    <3>1. ~Restart
      BY <1>0, <2>2, NoRestart
    <3>2. ASSUME NEW id \in announcing PROVE data'[id] = "ok" /\ pc'[id] = "done" /\ id \in Ids
      BY <1>0, <3>1, OkStays DEF FollowInv, AnnouncedIsOk
    <3>3. ASSUME NEW id \in Ids, Added(id) PROVE data'[id] = "ok" /\ pc'[id] = "done"
      BY <1>0, <3>1, <3>3, OkStays DEF Added
    <3> QED
      BY <2>2, <3>2, <3>3 DEF CollectorStep, AnnouncedIsOk
  <2>3. CASE ~RestartAll /\ ~CollectorStep
    <3>1. announcing' \subseteq announcing /\ UNCHANGED <<pc, data>>
      BY <2>3 DEF RequestsNext, Announce, Ask, FindLatest, FindById, ServeFile, AskIndex,
                  ListEntries, ListAgain, GetEntry, ReadEntry, GotEntry, Terminated, rvars, vars,
                  memory, GetBegin, GetEnd, Process, CheckCache, Generate, StoreCache
    <3> QED
      BY <3>1 DEF FollowInv, AnnouncedIsOk
  <2> QED
    BY <2>1, <2>2, <2>3
<1> QED
  BY <1>1, <1>2, <1>3 DEF FollowInv

LEMMA FollowInit == RequestsInit => FollowInv
<1> SUFFICES ASSUME RequestsInit PROVE FollowInv
  OBVIOUS
<1>1. TypeInv
  BY InitTypeInv DEF RequestsInit
<1> QED
  BY <1>1 DEF RequestsInit, Init, FollowInv, EventsFollowData, AnnouncedIsOk

LEMMA FollowHolds == RequestsSpec => []FollowInv
BY FollowInit, FollowStep, PTL DEF RequestsSpec

\* The handlers leave the collector to its own steps: what CollectorProofs says of it
\* holds beside them.
THEOREM CollectorIsUndisturbed == RequestsSpec => Spec
<1>1. FollowInv /\ [RequestsNext]_rvars => [Next]_vars
  BY StepIsStep
<1>2. RequestsInit => Init
  BY DEF RequestsInit
<1> QED
  BY <1>1, <1>2, FollowHolds, PTL DEF RequestsSpec, Spec

\* EventsFollowData: a subscriber knows the status of every entry, although postIndex
\* publishes one event without the lock (memo/handler.go:101).
THEOREM EventsAreRight == RequestsSpec => []EventsFollowData
BY FollowHolds, PTL DEF FollowInv

\* ImplementsLifecycle: a collector keeps the promise of SnapshotLifecycle also while
\* queries and indexes take its lock, run its processor and write into its entries, and
\* postIndex publishes without the lock (extproc/handler.go:93, memo/handler.go:49-101).
THEOREM LifecycleWithRequests == RestartsAreKind => (RequestsSpec => ImplementsLifecycle)
BY CollectorIsUndisturbed, CollectorRefinesLifecycle

-----------------------------------------------------------------------------
(***************************************************************************)
(* The queries.                                                            *)
(***************************************************************************)

QueryRecords ==
    [kind : {"latest", "data"}, step : {"idle", "list", "file", "404", "200"},
     label : Labels \cup {AnyLabel}, id : Ids \cup {NoOne}, body : Contents]

QueryType ==
    /\ query \in [Queries -> QueryRecords]
    /\ settled \in [Queries \cup Gets -> SUBSET Ids]

\* What was ok when a request arrived is ok until the process ends.
SettledIsOk == \A r \in Queries \cup Gets : \A id \in settled[r] : data[id] = "ok"

\* What a query for the latest has found is ok, and newer than what it could have found.
FoundIsOk ==
    \A q \in Queries :
       /\ query[q].step \in {"idle", "list"} => query[q].id = NoOne
       /\ query[q].step = "file" => query[q].id \in Ids
       /\ query[q].kind = "latest" /\ query[q].step = "file" => data[query[q].id] = "ok"

\* What a command has made an output of is there.
OutputHasFile ==
    /\ \A g \in Gets : call[g] = "store" => body[subject[g]] # "none"
    /\ \A id \in Ids : call[id] = "store" \/ cache[id] # "none" => body[id] # "none"

LEMMA StepOutputHasFile ==
    ASSUME WholeInv, OutputHasFile, [Next]_vars
    PROVE  OutputHasFile'
<1>0. TypeOK
  BY DEF WholeInv, TypeInv
<1>1. ASSUME NEW x \in Ids, CreateBody(x) \/ WriteBody(x) PROVE OutputHasFile'
  <2>1. UNCHANGED <<call, subject, cache>> /\ \A id \in Ids : body'[id] = "none" => body[id] = "none"
    BY <1>0, <1>1 DEF CreateBody, WriteBody, TypeOK
  <2>2. \A g \in Gets : call[g] = "store" => subject[g] \in Ids
    BY <1>0 DEF TypeOK
  <2> QED
    BY <2>1, <2>2 DEF OutputHasFile
<1>2. ASSUME NEW c \in Callers, Generate(c) PROVE OutputHasFile'
  <2>1. UNCHANGED <<subject, cache, body>>
    BY <1>2 DEF Generate
  <2>2. \A x \in Callers : call'[x] = "store" => call[x] = "store" \/ x = c
    BY <1>0, <1>2 DEF Generate, TypeOK
  <2>3. call'[c] = "store" => body[Subject(c)] # "none"
    BY <1>0, <1>2 DEF Generate, Cacheable, CanProcess, TypeOK
  <2>4. c \in Gets => Subject(c) = subject[c]
    BY CollectorAssumption DEF Subject
  <2> QED
    BY <2>1, <2>2, <2>3, <2>4 DEF OutputHasFile, Subject, Callers
<1>3. ASSUME NEW c \in Callers, StoreCache(c) PROVE OutputHasFile'
  <2>1. /\ UNCHANGED <<subject, body>> /\ call[c] = "store"
        /\ \A x \in Callers : call'[x] = "store" => call[x] = "store"
        /\ \A id \in Ids : cache'[id] = cache[id] \/ id = Subject(c)
    BY <1>0, <1>3 DEF StoreCache, TypeOK
  <2>2. body[Subject(c)] # "none"
    <3>1. CASE c \in Ids
      BY <2>1, <3>1 DEF OutputHasFile, Subject
    <3>2. CASE c \in Gets /\ c \notin Ids
      BY <2>1, <3>2 DEF OutputHasFile, Subject
    <3> QED
      BY <3>1, <3>2 DEF Callers
  <2> QED
    BY <2>1, <2>2 DEF OutputHasFile, Callers
<1>4. CASE Restart
  BY <1>4 DEF Restart, OutputHasFile, Callers, disk
<1>5. ASSUME UNCHANGED <<body, cache>>,
             \A c \in Callers : call'[c] = "store" => call[c] = "store",
             \A g \in Gets : call'[g] = "store" => subject'[g] = subject[g]
      PROVE  OutputHasFile'
  BY <1>5 DEF OutputHasFile, Callers
<1>6. ASSUME NEW x \in Ids, Processing(x) \/ Processed(x) PROVE OutputHasFile'
  <2>1. /\ UNCHANGED <<body, cache, subject>>
        /\ \E step \in {"exists", "none"} : call' = [call EXCEPT ![x] = step]
    BY <1>6 DEF Processing, Processed, disk
  <2> QED
    BY <1>0, <1>5, <2>1 DEF TypeOK
<1>7. ASSUME NEW c \in Callers, CheckCache(c) PROVE OutputHasFile'
  <2>1. /\ UNCHANGED <<body, cache, subject>>
        /\ \E step \in {"ok", "generate", "failed"} : call' = [call EXCEPT ![c] = step]
    BY <1>7 DEF CheckCache, disk
  <2> QED
    BY <1>0, <1>5, <2>1 DEF TypeOK
<1>8. ASSUME NEW g \in Gets, GetBegin(g) \/ GetEnd(g) PROVE OutputHasFile'
  <2>1. /\ UNCHANGED <<body, cache>>
        /\ \E step \in {"exists", "none"} : call' = [call EXCEPT ![g] = step]
        /\ \E x \in Ids \cup {NoOne} : subject' = [subject EXCEPT ![g] = x]
    BY <1>8 DEF GetBegin, GetEnd, disk
  <2>2. \A c \in Callers : call'[c] = "store" => call[c] = "store" /\ c # g
    BY <1>0, <2>1 DEF TypeOK
  <2>3. \A h \in Gets : h # g => subject'[h] = subject[h]
    BY <1>0, <2>1 DEF TypeOK
  <2> QED
    BY <1>5, <2>1, <2>2, <2>3 DEF Callers
<1>9. CASE UNCHANGED <<body, cache, call, subject>>
  BY <1>5, <1>9
<1> QED
  BY <1>1, <1>2, <1>3, <1>4, <1>6, <1>7, <1>8, <1>9
  DEF Next, Task, Process, Terminated, Lock, Unlock, Begin, Collecting, Fetch, PutMeta, Finalize,
      Hook, Prune, Subscribe, Take, Leave, vars, memory, disk

QueryInv ==
    /\ FollowInv /\ Whole /\ OutputHasFile /\ QueryType /\ SettledIsOk /\ FoundIsOk
    /\ LatestIsWhole /\ LatestIsFresh

\* Whatever is ok has its whole body on the disk, whoever collects it; a command may have
\* accepted at the start what a kill has left.
LEMMA OkHasBody ==
    ASSUME TypeInv, Whole, NEW id \in Ids, data[id] = "ok"
    PROVE  body[id] = "full" \/ (Kind = "command" /\ replayed[id])
BY CollectorAssumption DEF Whole, FileIsWhole, ProfileIsWhole, MemoIsWhole

\* What New has found it has found until the process ends.
LEMMA ReplayedStays == ASSUME [Next]_vars, ~Restart PROVE UNCHANGED replayed
BY DEF Next, Task, Process, Terminated, Prune, Lock, Unlock, Begin, Collecting, Fetch, PutMeta,
       CreateBody, WriteBody, Processing, Processed, Finalize, Hook, CheckCache, Generate,
       StoreCache, GetBegin, GetEnd, Subscribe, Take, Leave, vars, memory

LEMMA QueryInit == RequestsInit => QueryInv
<1> SUFFICES ASSUME RequestsInit PROVE QueryInv
  OBVIOUS
<1>1. FollowInv /\ Whole /\ OutputHasFile
  BY FollowInit, InitWhole DEF RequestsInit, Init, OutputHasFile, Callers
<1>2. QueryType /\ SettledIsOk /\ FoundIsOk /\ LatestIsWhole /\ LatestIsFresh
  BY DEF RequestsInit, NoQuery, QueryType, QueryRecords, SettledIsOk, FoundIsOk, LatestIsWhole,
         LatestIsFresh, Contents
<1> QED
  BY <1>1, <1>2 DEF QueryInv

\* Whoever is not asking is not disturbed, either.
LEMMA QueryFrame ==
    ASSUME QueryInv, [Next]_vars, ~Restart, UNCHANGED <<query, settled>>
    PROVE  QueryType' /\ SettledIsOk' /\ FoundIsOk' /\ LatestIsWhole' /\ LatestIsFresh'
<1>1. \A id \in Ids : data[id] = "ok" => data'[id] = "ok"
  BY OkStays DEF QueryInv, FollowInv
<1>2. UNCHANGED replayed
  BY ReplayedStays
<1> QED
  BY <1>1, <1>2 DEF QueryInv, QueryType, SettledIsOk, FoundIsOk, LatestIsWhole, LatestIsFresh

LEMMA QueryStep ==
    ASSUME QueryInv, [RequestsNext]_rvars
    PROVE  QueryInv'
<1>0. TypeInv /\ TypeOK /\ [Next]_vars /\ FollowInv
  BY StepIsStep DEF QueryInv, FollowInv, TypeInv
<1>1. FollowInv' /\ Whole' /\ OutputHasFile'
  BY <1>0, FollowStep, StepWhole, StepOutputHasFile DEF QueryInv, WholeInv
<1> DEFINE Goal == QueryType' /\ SettledIsOk' /\ FoundIsOk' /\ LatestIsWhole' /\ LatestIsFresh'
<1>2. ASSUME RestartAll PROVE Goal
  <2>1. /\ query' = [q \in Queries |-> NoQuery]
        /\ settled' = [r \in Queries \cup Gets |-> {}]
    BY <1>2 DEF RestartAll
  <2>2. NoQuery \in QueryRecords
    BY DEF NoQuery, QueryRecords, Contents
  <2>3. QueryType' /\ SettledIsOk' /\ LatestIsFresh'
    BY <2>1, <2>2 DEF QueryType, SettledIsOk, LatestIsFresh
  <2>4. FoundIsOk' /\ LatestIsWhole'
    BY <2>1 DEF FoundIsOk, LatestIsWhole, NoQuery
  <2> QED
    BY <2>3, <2>4
<1>3. ASSUME NEW q \in Queries, Ask(q) PROVE Goal
  <2>1. UNCHANGED <<data, replayed>> /\ query[q].step = "idle" /\ settled' = [settled EXCEPT ![q] = Oks]
    BY <1>3 DEF Ask, vars, memory
  <2>2. query[q].id = NoOne
    BY <2>1 DEF QueryInv, FoundIsOk
  <2>3. PICK r \in QueryRecords : r.step = "list" /\ r.id = NoOne /\ query' = [query EXCEPT ![q] = r]
    <3> DEFINE asked(label) == [query[q] EXCEPT !.step = "list", !.label = label]
               data0 == [query[q] EXCEPT !.step = "list", !.kind = "data"]
    <3>1. query[q] \in QueryRecords
      BY DEF QueryInv, QueryType
    <3>2. \A label \in Labels \cup {AnyLabel} :
             asked(label) \in QueryRecords /\ asked(label).step = "list" /\ asked(label).id = NoOne
      BY <2>2, <3>1 DEF QueryRecords
    <3>3. data0 \in QueryRecords /\ data0.step = "list" /\ data0.id = NoOne
      BY <2>2, <3>1 DEF QueryRecords
    <3>4. \/ \E label \in Labels \cup {AnyLabel} : query' = [query EXCEPT ![q] = asked(label)]
          \/ query' = [query EXCEPT ![q] = data0]
      BY <1>3 DEF Ask
    <3> HIDE DEF asked, data0
    <3> QED
      BY <3>2, <3>3, <3>4
  <2>4. /\ query'[q] = r /\ settled'[q] = Oks
        /\ \A x \in Queries \ {q} : query'[x] = query[x] /\ settled'[x] = settled[x]
        /\ \A x \in Gets \ {q} : settled'[x] = settled[x]
    BY <2>1, <2>3 DEF QueryInv, QueryType
  <2>5. QueryType'
    <3>1. Oks \subseteq Ids
      BY DEF Oks
    <3> QED
      BY <2>1, <2>3, <3>1 DEF QueryInv, QueryType
  <2>6. SettledIsOk'
    BY <2>1, <2>4 DEF QueryInv, SettledIsOk, Oks
  <2>7. FoundIsOk' /\ LatestIsWhole'
    BY <2>1, <2>3, <2>4 DEF QueryInv, FoundIsOk, LatestIsWhole
  <2>8. LatestIsFresh'
    BY <2>3, <2>4 DEF QueryInv, LatestIsFresh
  <2> QED
    BY <2>5, <2>6, <2>7, <2>8
<1>4. ASSUME NEW q \in Queries, FindLatest(q) PROVE Goal
  <2> DEFINE matching == {id \in Listed : Matches(id, query[q].label)}
  <2>1. /\ UNCHANGED <<data, replayed, settled>> /\ query[q].kind = "latest" /\ query[q].step = "list"
        /\ query[q].id = NoOne
    BY <1>4 DEF FindLatest, QueryInv, FoundIsOk, vars, memory
  <2>2. \A id \in settled[q] :
           query[q].label \in {AnyLabel, LabelOf[id]} => id \in matching /\ id \in Ids
    BY DEF QueryInv, SettledIsOk, QueryType, Listed, Matches
  <2>3. ASSUME NEW id \in matching, \A j \in matching : ~Before(j, id), Found(q, id) PROVE Goal
    <3>1. id \in Ids /\ data[id] = "ok"
      BY DEF Listed, Matches
    <3>0. query[q] \in QueryRecords
      BY DEF QueryInv, QueryType
    <3>2. /\ query'[q].step = "file" /\ query'[q].id = id /\ query'[q].kind = "latest"
          /\ query'[q].label = query[q].label /\ query'[q] \in QueryRecords
          /\ \A x \in Queries \ {q} : query'[x] = query[x]
      BY <2>1, <2>3, <3>0, <3>1 DEF Found, QueryInv, QueryType, QueryRecords
    <3>3. QueryType'
      BY <2>1, <2>3, <3>2 DEF Found, QueryInv, QueryType
    <3>4. SettledIsOk' /\ FoundIsOk' /\ LatestIsWhole'
      BY <2>1, <3>1, <3>2 DEF QueryInv, SettledIsOk, FoundIsOk, LatestIsWhole
    <3>5. \A j \in settled[q] :
             query[q].label \in {AnyLabel, LabelOf[j]} => DatetimeOf[id] >= DatetimeOf[j]
      <4> SUFFICES ASSUME NEW j \in settled[q], query[q].label \in {AnyLabel, LabelOf[j]}
                   PROVE  DatetimeOf[id] >= DatetimeOf[j]
        OBVIOUS
      <4>1. ~(DatetimeOf[j] > DatetimeOf[id]) /\ j \in Ids
        BY <2>2, <2>3 DEF Before
      <4>2. DatetimeOf[j] \in Nat /\ DatetimeOf[id] \in Nat
        BY <3>1, <4>1, RequestsAssumption
      <4> QED
        BY <4>1, <4>2
    <3>6. LatestIsFresh'
      BY <2>1, <3>2, <3>5 DEF QueryInv, LatestIsFresh
    <3> QED
      BY <3>3, <3>4, <3>6
  <2>4. ASSUME matching = {}, Goes(q, "404") PROVE Goal
    <3>1. /\ query'[q].step = "404" /\ query'[q].label = query[q].label
          /\ \A x \in Queries \ {q} : query'[x] = query[x]
      BY <2>4 DEF Goes, QueryInv, QueryType
    <3>2. QueryType'
      BY <2>1, <2>4 DEF Goes, QueryInv, QueryType, QueryRecords
    <3>3. SettledIsOk' /\ FoundIsOk' /\ LatestIsWhole'
      BY <2>1, <3>1 DEF QueryInv, SettledIsOk, FoundIsOk, LatestIsWhole
    <3>4. LatestIsFresh'
      BY <2>1, <2>2, <2>4, <3>1 DEF QueryInv, LatestIsFresh
    <3> QED
      BY <3>2, <3>3, <3>4
  <2> QED
    BY <1>4, <2>3, <2>4 DEF FindLatest
<1>5. ASSUME NEW q \in Queries, FindById(q) PROVE Goal
  <2>1. /\ UNCHANGED <<data, replayed, settled>> /\ query[q].kind = "data" /\ query[q] \in QueryRecords
        /\ (\E id \in Ids : Found(q, id)) \/ Goes(q, "404")
    BY <1>5 DEF FindById, Listed, vars, memory, QueryInv, QueryType
  <2>2. PICK r \in QueryRecords : /\ r.kind = "data" /\ r.step \in {"file", "404"}
                                  /\ r.step = "file" => r.id \in Ids
                                  /\ query' = [query EXCEPT ![q] = r]
    <3>1. ASSUME NEW id \in Ids, Found(q, id)
          PROVE  \E r \in QueryRecords : /\ r.kind = "data" /\ r.step \in {"file", "404"}
                                         /\ r.step = "file" => r.id \in Ids
                                         /\ query' = [query EXCEPT ![q] = r]
      <4> DEFINE r == [query[q] EXCEPT !.step = "file", !.id = id]
      <4>1. r \in QueryRecords /\ r.kind = "data" /\ r.step = "file" /\ r.id = id
        BY <2>1 DEF QueryRecords
      <4>2. query' = [query EXCEPT ![q] = r]
        BY <3>1 DEF Found
      <4> HIDE DEF r
      <4> QED
        BY <4>1, <4>2
    <3>2. ASSUME Goes(q, "404")
          PROVE  \E r \in QueryRecords : /\ r.kind = "data" /\ r.step \in {"file", "404"}
                                         /\ r.step = "file" => r.id \in Ids
                                         /\ query' = [query EXCEPT ![q] = r]
      <4> DEFINE r == [query[q] EXCEPT !.step = "404"]
      <4>1. r \in QueryRecords /\ r.kind = "data" /\ r.step = "404"
        BY <2>1 DEF QueryRecords
      <4>2. query' = [query EXCEPT ![q] = r]
        BY <3>2 DEF Goes
      <4> HIDE DEF r
      <4> QED
        BY <4>1, <4>2
    <3> QED
      BY <2>1, <3>1, <3>2
  <2>3. query'[q] = r /\ \A x \in Queries \ {q} : query'[x] = query[x]
    BY <2>2 DEF QueryInv, QueryType
  <2>4. QueryType'
    BY <2>1, <2>2 DEF QueryInv, QueryType
  <2> QED
    BY <2>1, <2>2, <2>3, <2>4 DEF QueryInv, SettledIsOk, FoundIsOk, LatestIsWhole, LatestIsFresh
<1>6. ASSUME NEW q \in Queries, ServeFile(q) PROVE Goal
  <2> DEFINE served == body[query[q].id]
             r == [query[q] EXCEPT !.step = IF served = "none" THEN "404" ELSE "200", !.body = served]
  <2>1. /\ UNCHANGED <<data, replayed, settled>> /\ query[q].step = "file" /\ query[q].id \in Ids
        /\ query' = [query EXCEPT ![q] = r]
    BY <1>6 DEF ServeFile, QueryInv, FoundIsOk, vars, memory
  <2>2. query[q].kind = "latest" =>
           served = "full" \/ (Kind = "command" /\ served = "partial" /\ replayed[query[q].id])
    <3> SUFFICES ASSUME query[q].kind = "latest"
                 PROVE  served = "full"
                        \/ (Kind = "command" /\ served = "partial" /\ replayed[query[q].id])
      OBVIOUS
    <3>1. data[query[q].id] = "ok"
      BY <2>1 DEF QueryInv, FoundIsOk
    <3>2. served = "full" \/ (Kind = "command" /\ replayed[query[q].id])
      BY <1>0, <2>1, <3>1, OkHasBody DEF QueryInv
    <3>3. Kind = "command" => served # "none"
      BY <2>1, <3>1 DEF QueryInv, Whole, CommandIsWhole, OutputHasFile
    <3>4. served \in {"none", "partial", "full"}
      BY <1>0, <2>1 DEF TypeOK, Contents
    <3> QED
      BY <3>2, <3>3, <3>4
  <2>3. /\ r \in QueryRecords /\ r.id = query[q].id /\ r.kind = query[q].kind
        /\ r.label = query[q].label /\ r.step \in {"404", "200"}
        /\ r.kind = "latest" => /\ r.step = "200"
                                /\ \/ r.body = "full"
                                   \/ /\ Kind = "command" /\ r.body = "partial"
                                      /\ replayed[r.id]
    <3>1. query[q] \in QueryRecords /\ served \in Contents
      BY <1>0, <2>1 DEF QueryInv, QueryType, TypeOK
    <3> QED
      BY <2>2, <3>1 DEF QueryRecords
  <2> HIDE DEF r, served
  <2>4. query'[q] = r /\ \A x \in Queries \ {q} : query'[x] = query[x]
    BY <2>1 DEF QueryInv, QueryType
  <2>5. QueryType'
    BY <2>1, <2>3 DEF QueryInv, QueryType
  <2>6. SettledIsOk' /\ FoundIsOk' /\ LatestIsWhole'
    BY <2>1, <2>3, <2>4 DEF QueryInv, SettledIsOk, FoundIsOk, LatestIsWhole
  <2>7. LatestIsFresh'
    BY <2>1, <2>3, <2>4 DEF QueryInv, LatestIsFresh
  <2> QED
    BY <2>5, <2>6, <2>7
<1>7. ASSUME NEW g \in Gets, AskIndex(g) PROVE Goal
  <2>1. UNCHANGED <<data, replayed, query>> /\ settled' = [settled EXCEPT ![g] = Oks]
    BY <1>7 DEF AskIndex, vars, memory
  <2>2. Oks \subseteq Ids /\ \A q \in Queries : q # g
    BY RequestsAssumption DEF Oks
  <2>3. QueryType' /\ SettledIsOk'
    BY <2>1, <2>2 DEF QueryInv, QueryType, SettledIsOk, Oks
  <2>4. FoundIsOk' /\ LatestIsWhole' /\ LatestIsFresh'
    BY <2>1, <2>2 DEF QueryInv, QueryType, FoundIsOk, LatestIsWhole, LatestIsFresh
  <2> QED
    BY <2>3, <2>4
<1>8. ASSUME UNCHANGED <<query, settled>> /\ ~RestartAll PROVE Goal
  <2>1. ~Restart
    BY <1>0, <1>8, NoRestart
  <2> QED
    BY <1>0, <1>8, <2>1, QueryFrame
<1> HIDE DEF Goal
<1>9. CASE UNCHANGED <<query, settled>> \/ RestartAll
      \/ (\E q \in Queries : Ask(q) \/ FindLatest(q) \/ FindById(q) \/ ServeFile(q))
      \/ (\E g \in Gets : AskIndex(g))
  <2>1. Goal
    BY <1>2, <1>3, <1>4, <1>5, <1>6, <1>7, <1>8, <1>9
  <2> QED
    BY <1>1, <2>1 DEF QueryInv, Goal
<1> QED
  BY <1>9 DEF RequestsNext, CollectorStep, Announce, ListEntries, GetEntry, ReadEntry, GotEntry,
              ListAgain, Terminated, rvars, indexVars

LEMMA QueryHolds == RequestsSpec => []QueryInv
BY QueryInit, QueryStep, PTL DEF RequestsSpec

\* LatestIsWhole: what getLatestData serves is a whole body, although it opens the file
\* after it has released the lock (extproc/handler.go:102-110) and bodies are written and
\* torn meanwhile, but for a torn log that a command has accepted at the start.
THEOREM LatestHasItAll == RequestsSpec => []LatestIsWhole
BY QueryHolds, PTL DEF QueryInv

\* LatestIsFresh: whoever knows of a snapshot that is ok gets it or a newer one.
THEOREM LatestIsNoOlder == RequestsSpec => []LatestIsFresh
BY QueryHolds, PTL DEF QueryInv

-----------------------------------------------------------------------------
(***************************************************************************)
(* The index of memos.                                                     *)
(***************************************************************************)

IndexType ==
    /\ index \in [Gets -> {"idle", "list", "loop", "get", "ok", "failed"}]
    /\ left \in [Gets -> SUBSET Ids]
    /\ held \in [Gets -> SUBSET Ids]
    /\ content \in [Gets -> Contents]
    /\ message \in [Ids -> Contents \cup {"status"}]
    /\ shown \in [Gets -> [Ids -> Contents \cup {"status", "absent"}]]
    /\ settled \in [Queries \cup Gets -> SUBSET Ids]

Looping == {"loop", "get"}

\* An index that has listed what was settled has its entries, for nobody replaces them,
\* and writes the text into one after the other.
LoopIsSound ==
    \A g \in Gets :
       /\ index[g] = "get" <=> call[g] # "none"
       /\ call[g] = "ok" /\ data[subject[g]] = "ok" => content[g] = "full"
       /\ index[g] \in Looping =>
             \A id \in settled[g] :
                /\ id \in held[g]
                /\ \/ id \in left[g] \/ message[id] = "full"
                   \/ index[g] = "get" /\ subject[g] = id

IndexInv ==
    /\ FollowInv /\ Whole /\ IndexType /\ SettledIsOk /\ LoopIsSound /\ IndexShowsTexts

LEMMA IndexInit == RequestsInit => IndexInv
<1> SUFFICES ASSUME RequestsInit PROVE IndexInv
  OBVIOUS
<1>1. FollowInv /\ Whole
  BY FollowInit, InitWhole DEF RequestsInit
<1>2. IndexType
  BY DEF RequestsInit, IndexType, Contents
<1>3. SettledIsOk /\ LoopIsSound /\ IndexShowsTexts
  BY DEF RequestsInit, Init, Callers, SettledIsOk, LoopIsSound, IndexShowsTexts, Looping
<1> QED
  BY <1>1, <1>2, <1>3 DEF IndexInv

\* A step of the collector leaves the calls of the indexes alone, and replaces no entry
\* that is ok and none while an index reads.
LEMMA StepBesideIndex ==
    ASSUME TypeInv, CollectorStep
    PROVE  /\ \A g \in Gets : call'[g] = call[g] /\ subject'[g] = subject[g]
           /\ \A g \in Gets : call[g] # "none" => data' = data
           /\ \A id \in Ids : data[id] = "ok" => ~Replaces(id)
<1>0. TypeOK /\ TerminalWhenSettled
  BY DEF TypeInv
<1>1. \A g \in Gets : g \notin Ids /\ g \in Callers
  BY CollectorAssumption DEF Callers
<1>2. UNCHANGED subject
  BY DEF CollectorStep, Task, Process, Prune, Lock, Unlock, Begin, Collecting, Fetch, PutMeta,
         CreateBody, WriteBody, Processing, Processed, Finalize, Hook, CheckCache, Generate,
         StoreCache
<1>3. \A g \in Gets : call'[g] = call[g]
  <2>1. UNCHANGED call \/ \E id \in Ids : \E step : call' = [call EXCEPT ![id] = step]
    BY DEF CollectorStep, Task, Process, Prune, Lock, Unlock, Begin, Collecting, Fetch, PutMeta,
           CreateBody, WriteBody, Processing, Processed, Finalize, Hook, CheckCache, Generate,
           StoreCache
  <2> QED
    BY <1>0, <1>1, <2>1 DEF TypeOK
<1>4. data' = data \/ Readers = {}
  BY DEF CollectorStep, Task, Process, Prune, Lock, Unlock, Begin, Collecting, Fetch, PutMeta,
         CreateBody, WriteBody, Processing, Processed, Finalize, Hook, CheckCache, Generate,
         StoreCache, UpdateStatus
<1>5. \A id \in Ids : data[id] = "ok" => ~Replaces(id)
  BY <1>0 DEF TerminalWhenSettled, Settled, Replaces, AboutToUpdate
<1> QED
  BY <1>2, <1>3, <1>4, <1>5 DEF Readers

LEMMA IndexStep ==
    ASSUME Kind = "memo", IndexInv, [RequestsNext]_rvars
    PROVE  IndexInv'
<1>0. TypeInv /\ TypeOK /\ [Next]_vars /\ FollowInv /\ Whole
  BY StepIsStep DEF IndexInv, FollowInv, TypeInv
<1>1. FollowInv' /\ Whole'
  BY <1>0, FollowStep, StepWhole DEF WholeInv
<1>2. ~RestartAll => \A id \in Ids : data[id] = "ok" => data'[id] = "ok"
  BY <1>0, NoRestart, OkStays
<1> DEFINE Goal == IndexType' /\ SettledIsOk' /\ LoopIsSound' /\ IndexShowsTexts'
<1>3. ASSUME RestartAll PROVE Goal
  <2>1. \A g \in Gets : call'[g] = "none" /\ index'[g] = "idle"
    BY <1>3 DEF RestartAll, Restart, Callers
  <2>2. IndexType' /\ SettledIsOk'
    BY <1>3 DEF RestartAll, IndexType, SettledIsOk, Contents
  <2> QED
    BY <2>1, <2>2 DEF LoopIsSound, IndexShowsTexts, Looping
<1>4. ASSUME CollectorStep, ~RestartAll PROVE Goal
  <2>1. /\ UNCHANGED <<index, left, content, shown, settled>>
        /\ message' = [id \in Ids |-> IF Replaces(id) THEN "status" ELSE message[id]]
        /\ held' = [g \in Gets |-> {id \in held[g] : ~Replaces(id)}]
    BY <1>4 DEF CollectorStep
  <2>2. IndexType'
    BY <2>1 DEF IndexInv, IndexType
  <2>3. SettledIsOk'
    BY <1>2, <1>4, <2>1 DEF IndexInv, SettledIsOk, IndexType
  <2>4. \A g \in Gets : \A id \in settled[g] :
           id \in Ids /\ data[id] = "ok" /\ ~Replaces(id) /\ message'[id] = message[id]
    BY <1>0, <1>4, <2>1, StepBesideIndex DEF IndexInv, SettledIsOk, IndexType
  <2>5. LoopIsSound'
    <3> SUFFICES ASSUME NEW g \in Gets
                 PROVE  /\ index'[g] = "get" <=> call'[g] # "none"
                        /\ call'[g] = "ok" /\ data'[subject'[g]] = "ok" => content'[g] = "full"
                        /\ index'[g] \in Looping =>
                              \A id \in settled'[g] :
                                 /\ id \in held'[g]
                                 /\ \/ id \in left'[g] \/ message'[id] = "full"
                                    \/ index'[g] = "get" /\ subject'[g] = id
      BY DEF LoopIsSound
    <3>1. call'[g] = call[g] /\ subject'[g] = subject[g] /\ (call[g] # "none" => data' = data)
      BY <1>0, <1>4, StepBesideIndex
    <3>2. held'[g] = {id \in held[g] : ~Replaces(id)}
      BY <2>1
    <3> QED
      BY <2>1, <2>4, <3>1, <3>2 DEF IndexInv, LoopIsSound
  <2> QED
    BY <2>1, <2>2, <2>3, <2>5 DEF IndexInv, IndexShowsTexts
<1>5. ASSUME NEW g \in Gets, AskIndex(g) PROVE Goal
  <2>1. /\ UNCHANGED <<data, call, subject, left, held, content, message, shown>>
        /\ index[g] = "idle" /\ index' = [index EXCEPT ![g] = "list"]
        /\ settled' = [settled EXCEPT ![g] = Oks]
    BY <1>5 DEF AskIndex, vars, memory
  <2>2. Oks \subseteq Ids
    BY DEF Oks
  <2>3. IndexType' /\ SettledIsOk'
    BY <2>1, <2>2 DEF IndexInv, IndexType, SettledIsOk, Oks
  <2>4. \A x \in Gets \ {g} : index'[x] = index[x] /\ settled'[x] = settled[x]
    BY <2>1 DEF IndexInv, IndexType
  <2>5. index'[g] = "list" /\ call[g] = "none"
    BY <2>1 DEF IndexInv, IndexType, LoopIsSound
  <2>6. LoopIsSound' /\ IndexShowsTexts'
    BY <2>1, <2>4, <2>5 DEF IndexInv, LoopIsSound, IndexShowsTexts, Looping
  <2> QED
    BY <2>3, <2>6
<1>6. ASSUME NEW g \in Gets, ListEntries(g) PROVE Goal
  <2>1. /\ UNCHANGED <<data, call, subject, content, message, shown, settled>>
        /\ index[g] = "list" /\ index' = [index EXCEPT ![g] = "loop"]
        /\ left' = [left EXCEPT ![g] = Listed] /\ held' = [held EXCEPT ![g] = Listed]
    BY <1>6 DEF ListEntries, vars, memory
  <2>2. Listed \subseteq Ids /\ settled[g] \subseteq Listed
    BY DEF IndexInv, IndexType, SettledIsOk, Listed
  <2>3. IndexType' /\ SettledIsOk'
    BY <2>1, <2>2 DEF IndexInv, IndexType, SettledIsOk
  <2>4. \A x \in Gets \ {g} : index'[x] = index[x] /\ left'[x] = left[x] /\ held'[x] = held[x]
    BY <2>1 DEF IndexInv, IndexType
  <2>5. index'[g] = "loop" /\ left'[g] = Listed /\ held'[g] = Listed /\ call[g] = "none"
    BY <2>1 DEF IndexInv, IndexType, LoopIsSound
  <2>6. LoopIsSound' /\ IndexShowsTexts'
    BY <2>1, <2>2, <2>4, <2>5 DEF IndexInv, LoopIsSound, IndexShowsTexts, Looping
  <2> QED
    BY <2>3, <2>6
<1>7. ASSUME NEW g \in Gets, GetEntry(g) PROVE Goal
  <2>1. /\ UNCHANGED <<data, held, content, message, shown, settled>>
        /\ index[g] = "loop" /\ index' = [index EXCEPT ![g] = "get"]
        /\ call' = [call EXCEPT ![g] = "exists"]
        /\ \E id \in Ids : subject' = [subject EXCEPT ![g] = id]
        /\ left' = [left EXCEPT ![g] = left[g] \ {subject'[g]}]
    BY <1>7 DEF GetEntry, GetBegin
  <2>2. IndexType' /\ SettledIsOk'
    BY <2>1 DEF IndexInv, IndexType, SettledIsOk
  <2>3. \A x \in Gets \ {g} : /\ index'[x] = index[x] /\ left'[x] = left[x]
                              /\ call'[x] = call[x] /\ subject'[x] = subject[x]
    BY <1>0, <2>1 DEF IndexInv, IndexType, TypeOK, Callers
  <2>4. index'[g] = "get" /\ left'[g] = left[g] \ {subject'[g]} /\ call'[g] = "exists"
    BY <1>0, <2>1 DEF IndexInv, IndexType, TypeOK, Callers
  <2>5. LoopIsSound' /\ IndexShowsTexts'
    BY <2>1, <2>3, <2>4 DEF IndexInv, LoopIsSound, IndexShowsTexts, Looping
  <2> QED
    BY <2>2, <2>5
<1>8. ASSUME NEW g \in Gets, ReadEntry(g) PROVE Goal
  <2>1. /\ UNCHANGED <<data, subject, index, left, held, message, shown, settled>>
        /\ content' = [content EXCEPT ![g] = IF call[g] = "generate" THEN body[subject[g]] ELSE content[g]]
        /\ Process(g)
    BY <1>8 DEF ReadEntry, Process, CheckCache, Generate, StoreCache
  <2>2. g \in Callers /\ g \notin Ids /\ call[g] # "none" /\ subject[g] \in Ids
    <3>1. g \in Callers /\ g \notin Ids
      BY CollectorAssumption DEF Callers
    <3>2. call[g] # "none"
      BY <2>1 DEF Process, CheckCache, Generate, StoreCache
    <3> QED
      BY <1>0, <3>1, <3>2 DEF TypeOK
  <2>3. /\ call[g] \in {"exists", "generate"} /\ Subject(g) = subject[g]
        /\ cache[subject[g]] = "none"
    BY <1>0, <2>1, <2>2
    DEF Whole, OnlyCommandsCache, Subject, Process, CheckCache, Generate, StoreCache
  <2>4. /\ \E step \in {"generate", "ok", "failed"} : call' = [call EXCEPT ![g] = step]
        /\ call[g] = "exists" => call'[g] # "ok"
    <3>1. CASE call[g] = "exists"
      <4>1. call' = [call EXCEPT ![g] = "generate"] \/ call' = [call EXCEPT ![g] = "failed"]
        BY <2>1, <2>3, <3>1 DEF Process, CheckCache, Generate, StoreCache, Exists
      <4> QED
        BY <1>0, <2>2, <4>1 DEF TypeOK
    <3>2. CASE call[g] = "generate"
      BY <2>1, <2>3, <3>2 DEF Process, CheckCache, Generate, StoreCache, Cacheable
    <3> QED
      BY <2>3, <3>1, <3>2
  <2>5. /\ \A x \in Gets \ {g} : call'[x] = call[x] /\ content'[x] = content[x]
        /\ call'[g] \in {"generate", "ok", "failed"}
        /\ call[g] = "generate" => content'[g] = body[subject[g]]
    BY <1>0, <2>1, <2>2, <2>4 DEF IndexInv, IndexType, TypeOK, Callers
  <2>6. IndexType' /\ SettledIsOk'
    BY <1>0, <2>1, <2>2 DEF IndexInv, IndexType, SettledIsOk, TypeOK
  <2>7. call'[g] = "ok" /\ data[subject[g]] = "ok" => content'[g] = "full"
    BY <1>0, <2>2, <2>3, <2>4, <2>5, OkHasBody
  <2>8. LoopIsSound' /\ IndexShowsTexts'
    BY <2>1, <2>2, <2>5, <2>7 DEF IndexInv, LoopIsSound, IndexShowsTexts, Looping
  <2> QED
    BY <2>6, <2>8
<1>9. ASSUME NEW g \in Gets, GotEntry(g) PROVE Goal
  <2>1. /\ UNCHANGED <<data, left, held, shown, settled>>
        /\ call[g] \in {"ok", "failed"} /\ call' = [call EXCEPT ![g] = "none"]
        /\ subject' = [subject EXCEPT ![g] = NoOne]
        /\ index' = [index EXCEPT ![g] = IF call[g] = "ok" THEN "loop" ELSE "failed"]
        /\ message' = IF call[g] = "ok" /\ subject[g] \in held[g]
                      THEN [message EXCEPT ![subject[g]] = content[g]] ELSE message
        /\ content' = [content EXCEPT ![g] = "none"]
    BY <1>9 DEF GotEntry, GetEnd
  <2>2. subject[g] \in Ids
    BY <1>0, <2>1 DEF TypeOK
  <2>3. IndexType' /\ SettledIsOk'
    <3>1. message' \in [Ids -> Contents \cup {"status"}]
      BY <2>1, <2>2 DEF IndexInv, IndexType
    <3> QED
      BY <2>1, <3>1 DEF IndexInv, IndexType, SettledIsOk, Contents
  <2>4. /\ \A x \in Gets \ {g} : /\ index'[x] = index[x] /\ content'[x] = content[x]
                                 /\ call'[x] = call[x] /\ subject'[x] = subject[x]
        /\ index'[g] = (IF call[g] = "ok" THEN "loop" ELSE "failed") /\ call'[g] = "none"
    BY <1>0, <2>1 DEF IndexInv, IndexType, TypeOK, Callers
  <2>5. call[g] = "ok" /\ data[subject[g]] = "ok" => content[g] = "full"
    BY DEF IndexInv, LoopIsSound
  <2>6. \A id \in Ids : data[id] = "ok" /\ message[id] = "full" => message'[id] = "full"
    BY <2>1, <2>2, <2>5 DEF IndexInv, IndexType
  <2>7. ASSUME call[g] = "ok", NEW id \in settled[g]
        PROVE  id \in held[g] /\ (id \in left[g] \/ message'[id] = "full")
    <3>1. id \in Ids /\ data[id] = "ok" /\ index[g] = "get"
      BY <2>7 DEF IndexInv, IndexType, SettledIsOk, LoopIsSound
    <3>2. id \in held[g] /\ (id \in left[g] \/ message[id] = "full" \/ subject[g] = id)
      BY <3>1 DEF IndexInv, LoopIsSound, Looping
    <3> QED
      BY <2>1, <2>5, <2>6, <2>7, <3>1, <3>2 DEF IndexInv, IndexType
  <2>8. \A x \in Gets : \A id \in settled[x] : id \in Ids /\ data[id] = "ok"
    BY DEF IndexInv, IndexType, SettledIsOk
  <2>9. LoopIsSound'
    BY <2>1, <2>4, <2>6, <2>7, <2>8 DEF IndexInv, LoopIsSound, Looping
  <2>10. IndexShowsTexts'
    BY <2>1, <2>4 DEF IndexInv, IndexShowsTexts
  <2> QED
    BY <2>3, <2>9, <2>10
<1>10. ASSUME NEW g \in Gets, ListAgain(g) PROVE Goal
  <2>1. /\ UNCHANGED <<data, call, subject, left, held, content, message, settled>>
        /\ index[g] = "loop" /\ left[g] = {} /\ index' = [index EXCEPT ![g] = "ok"]
        /\ shown' = [shown EXCEPT ![g] = [id \in Ids |-> IF id \in Listed THEN message[id]
                                                         ELSE "absent"]]
    BY <1>10 DEF ListAgain, vars, memory
  <2>2. IndexType' /\ SettledIsOk'
    BY <2>1 DEF IndexInv, IndexType, SettledIsOk
  <2>3. /\ \A x \in Gets \ {g} : index'[x] = index[x] /\ shown'[x] = shown[x]
        /\ index'[g] = "ok" /\ call[g] = "none"
        /\ \A id \in Ids : id \in Listed => shown'[g][id] = message[id]
    BY <2>1 DEF IndexInv, IndexType, LoopIsSound
  <2>4. \A id \in settled[g] : id \in Ids /\ id \in Listed /\ message[id] = "full"
    BY <2>1 DEF IndexInv, IndexType, SettledIsOk, LoopIsSound, Looping, Listed
  <2>5. LoopIsSound' /\ IndexShowsTexts'
    BY <2>1, <2>3, <2>4 DEF IndexInv, LoopIsSound, IndexShowsTexts, Looping
  <2> QED
    BY <2>2, <2>5
<1>11. ASSUME UNCHANGED <<data, call, subject, indexVars>>, settled' = settled \/ Kind # "memo"
       PROVE  Goal
  BY <1>11 DEF IndexInv, IndexType, SettledIsOk, LoopIsSound, IndexShowsTexts, indexVars
<1> HIDE DEF Goal
<1>12. Goal
  <2>1. CASE \/ \E id \in Ids : Announce(id)
             \/ \E q \in Queries : FindLatest(q) \/ FindById(q) \/ ServeFile(q)
             \/ Terminated /\ UNCHANGED rvars
             \/ UNCHANGED rvars
    <3>1. UNCHANGED <<data, call, subject, indexVars, settled>>
      BY <2>1 DEF Announce, FindLatest, FindById, ServeFile, rvars, vars, memory
    <3> QED
      BY <1>11, <3>1
  <2>2. ASSUME NEW q \in Queries, Ask(q) PROVE FALSE
    BY <2>2 DEF Ask
  <2> QED
    BY <1>3, <1>4, <1>5, <1>6, <1>7, <1>8, <1>9, <1>10, <2>1, <2>2 DEF RequestsNext
<1> QED
  BY <1>1, <1>12 DEF IndexInv, Goal

\* IndexShowsTexts: an index that is answered has written the text of every memo that was
\* ok when it arrived, beside other indexes and memos that are being added
\* (memo/handler.go:65).
THEOREM IndexHasTheTexts ==
    ASSUME Kind = "memo" PROVE RequestsSpec => []IndexShowsTexts
<1>1. IndexInv /\ [RequestsNext]_rvars => IndexInv'
  BY IndexStep
<1>2. IndexInv => IndexShowsTexts
  BY DEF IndexInv
<1> QED
  BY <1>1, <1>2, IndexInit, PTL DEF RequestsSpec

=============================================================================
