----------------------------- MODULE StartupProofs -----------------------------
(***************************************************************************)
(* Theorems about Startup, for any number of stored snapshots and of       *)
(* starts, and with the page under the slices of GetAll reused: a start    *)
(* neither loses nor hides a snapshot, but for those it had not decoded    *)
(* yet when the page was reused, and those it has decoded from it.         *)
(***************************************************************************)
EXTENDS Startup, TLAPS

\* The step of Boot at which the snapshots of a type are read, and the one that
\* makes sure of its configuration.
NewAt == [pprof |-> 2, httplog |-> 6, slowlog |-> 10]
ConfigAt == [httplog |-> 4, slowlog |-> 8]

\* The steps of start() that the proofs are about.
LEMMA BootText ==
    /\ DOMAIN Boot = 1 .. 16 /\ Len(Boot) = 16
    /\ Boot[1]  = [do |-> "routes", of |-> "event"]
    /\ Boot[2]  = [do |-> "new",    of |-> "pprof"]
    /\ Boot[3]  = [do |-> "routes", of |-> "pprof"]
    /\ Boot[4]  = [do |-> "config", of |-> "httplog"]
    /\ Boot[5]  = [do |-> "routes", of |-> "httplog"]
    /\ Boot[6]  = [do |-> "new",    of |-> "httplog"]
    /\ Boot[7]  = [do |-> "routes", of |-> "httplog"]
    /\ Boot[8]  = [do |-> "config", of |-> "slowlog"]
    /\ Boot[9]  = [do |-> "routes", of |-> "slowlog"]
    /\ Boot[10] = [do |-> "new",    of |-> "slowlog"]
    /\ Boot[11] = [do |-> "routes", of |-> "slowlog"]
    /\ Boot[12] = [do |-> "new",    of |-> "memo"]
    /\ Boot[13] = [do |-> "routes", of |-> "memo"]
    /\ Boot[14] = [do |-> "config", of |-> "group"]
    /\ Boot[15] = [do |-> "routes", of |-> "group"]
    /\ Boot[16] = [do |-> "listen", of |-> "port"]
BY DEF Boot

LEMMA StepNumbers ==
    /\ NewAt["pprof"] = 2 /\ NewAt["httplog"] = 6 /\ NewAt["slowlog"] = 10
    /\ ConfigAt["httplog"] = 4 /\ ConfigAt["slowlog"] = 8
BY DEF NewAt, ConfigAt

\* The last step listens, and no other; a file of settings is one of three.
LEMMA BootSteps ==
    /\ Len(Boot) = 16
    /\ Boot[16].do = "listen"
    /\ \A i \in 1 .. 15 :
          /\ Boot[i].do # "listen"
          /\ Boot[i].do = "config" => Boot[i].of \in Commands \cup {"group"}
<1>1. ASSUME NEW i \in 1 .. 15
      PROVE  /\ Boot[i].do # "listen"
             /\ Boot[i].do = "config" => Boot[i].of \in Commands \cup {"group"}
  BY BootText DEF Commands
<1> QED
  BY <1>1, BootText

\* The snapshots of a type are read at a step of their own.
LEMMA NewSteps ==
    \A t \in Types :
       /\ NewAt[t] \in 2 .. 10
       /\ Boot[NewAt[t]].do = "new" /\ Boot[NewAt[t]].of = t
       /\ \A i \in 1 .. 15 : Boot[i].do = "new" /\ Boot[i].of = t => i = NewAt[t]
BY BootText, StepNumbers DEF Types, Commands

LEMMA SnapshotSteps ==
    \A s \in Snapshots : TypeOf[s] \in Types /\ NewAt[TypeOf[s]] \in 2 .. 10
BY NewSteps, StartupAssumption

\* Its configuration is made sure of before.
LEMMA ConfigSteps ==
    \A t \in Commands :
       /\ ConfigAt[t] \in 1 .. 9 /\ ConfigAt[t] < NewAt[t]
       /\ Boot[ConfigAt[t]].do = "config" /\ Boot[ConfigAt[t]].of = t
BY BootText, StepNumbers DEF Commands

-----------------------------------------------------------------------------
(***************************************************************************)
(* The inductive invariant.                                                *)
(***************************************************************************)

\* There are slices, and the page they point into, only while New reads.
SlicesHavePage ==
    /\ page = "none" => slices = {}
    /\ page # "none" => At("new")

\* What is decoded is of the collector whose New is running, or has run.
DecodedInOrder ==
    /\ \A s \in slices : task[s].step = "none" /\ at = NewAt[TypeOf[s]]
    /\ \A s \in Snapshots : task[s].step # "none" =>
          at > NewAt[TypeOf[s]] \/ (at = NewAt[TypeOf[s]] /\ page # "none")

\* A goroutine works on its own snapshot, or on one that is not certain any more.
MisreadIsBlurred ==
    \A s \in Snapshots : task[s].step # "none" =>
       task[s].doc = s \/ (s \in blurred /\ task[s].doc \in blurred)

\* What New has returned about has been read, the status follows the goroutine, and it
\* fails, and is to be pruned, only if it can be neither processed nor served.
IsSound(s) ==
    /\ s \in stored =>
          \/ at < NewAt[TypeOf[s]]
          \/ at = NewAt[TypeOf[s]] /\ page = "none"
          \/ s \in slices \/ task[s].step # "none"
    /\ task[s].step \in {"run", "put"} => s \notin cached
    /\ task[s].step = "fail" => s \notin Healthy
    /\ task[s].step # "done" => entry[s] # "fail"
    /\ task[s].step = "done" => entry[s] \in {"ok", "fail"}
    /\ entry[s] = "fail" => s \notin Healthy
    /\ s \in pruning => s \notin Healthy /\ task[s].step \in {"fail", "done"}

CertainAreSound == \A s \in Snapshots \ blurred : IsSound(s)

FilesAreThere == \A t \in Commands : at > ConfigAt[t] => t \in files

StartIsSound ==
    /\ SlicesHavePage /\ DecodedInOrder /\ MisreadIsBlurred
    /\ CertainAreSound /\ FilesAreThere

IInv == TypeOK /\ StartIsSound

-----------------------------------------------------------------------------
(***************************************************************************)
(* Types.                                                                  *)
(***************************************************************************)

\* start() has a next step after every one but the last.
LEMMA NextStep ==
    ASSUME at \in 0 .. Len(Boot), NEW what, what # "listen", At(what)
    PROVE  at \in 1 .. 15 /\ at + 1 \in 1 .. 16 /\ Boot[at].do = what
BY BootSteps DEF At

\* A goroutine that goes to another step still has a snapshot.
LEMMA GotoType ==
    ASSUME TypeOK, NEW s \in Snapshots, NEW step \in TaskSteps, Goto(s, step)
    PROVE  task' \in [Snapshots -> [doc : Snapshots, step : TaskSteps]]
BY DEF TypeOK, Goto

LEMMA UpdateType ==
    ASSUME TypeOK, NEW s \in Snapshots, NEW st \in {"pending", "ok", "fail"}, Update(s, st)
    PROVE  entry' \in [Snapshots -> {"absent", "pending", "ok", "fail"}]
BY DEF TypeOK, Update

LEMMA TypeInit == Init => TypeOK
<1> SUFFICES ASSUME Init PROVE TypeOK
  OBVIOUS
<1>1. task \in [Snapshots -> [doc : Snapshots, step : TaskSteps]]
  BY DEF Init, Idle, TaskSteps
<1>2. at \in 0 .. Len(Boot)
  BY BootSteps DEF Init
<1>3. sound \subseteq Snapshots /\ cached \subseteq Snapshots
  BY DEF Init
<1> QED
  BY <1>1, <1>2, <1>3, Zenon DEF Init, TypeOK

LEMMA TypeStep == TypeOK /\ [Next]_vars => TypeOK'
<1> SUFFICES ASSUME TypeOK, [Next]_vars PROVE TypeOK'
  OBVIOUS
<1> USE DEF TypeOK, disk, others
<1>1. CASE Start
  BY <1>1, BootSteps DEF Start
<1>2. CASE Die
  <2>1. task' \in [Snapshots -> [doc : Snapshots, step : TaskSteps]]
    BY <1>2 DEF Die, Idle, TaskSteps
  <2> QED
    BY <1>2, <2>1, BootSteps DEF Die
<1>3. CASE Config
  <2>1. at' \in 0 .. Len(Boot) /\ Boot[at].of \in Commands \cup {"group"}
    BY <1>3, NextStep, BootSteps DEF Config
  <2> QED
    BY <1>3, <2>1 DEF Config
<1>4. CASE AddRoutes
  <2>1. at' \in 0 .. Len(Boot)
    BY <1>4, NextStep, BootSteps DEF AddRoutes
  <2> QED
    BY <1>4, <2>1 DEF AddRoutes
<1>5. CASE GetAll
  BY <1>5 DEF GetAll
<1>6. ASSUME NEW s \in Snapshots, Decode(s) PROVE TypeOK'
  BY <1>6 DEF Decode, Readable, Blurs, TaskSteps
<1>7. CASE NewReturns
  <2>1. at' \in 0 .. Len(Boot)
    BY <1>7, NextStep, BootSteps DEF NewReturns
  <2> QED
    BY <1>7, <2>1 DEF NewReturns
<1>8. ASSUME NEW s \in Snapshots, Process(s) PROVE TypeOK'
  <2>1. CASE Begin(s)
    BY <2>1, GotoType, UpdateType DEF Begin, TaskSteps
  <2>2. CASE Exists(s)
    BY <2>2, GotoType DEF Exists, TaskSteps
  <2>3. CASE Run(s)
    BY <2>3, GotoType DEF Run, Fails, TaskSteps
  <2>4. CASE PutCache(s)
    BY <2>4, GotoType DEF PutCache, Fails, Commit, TaskSteps
  <2>5. CASE EnterRouter(s)
    BY <2>5, GotoType DEF EnterRouter, TaskSteps
  <2>6. CASE LeaveRouter(s)
    BY <2>6, GotoType DEF LeaveRouter, TaskSteps
  <2>7. CASE Finalize(s)
    BY <2>7, UpdateType DEF Finalize, Ends, TaskSteps
  <2> QED
    BY <1>8, <2>1, <2>2, <2>3, <2>4, <2>5, <2>6, <2>7 DEF Process
<1>9. ASSUME NEW d \in Snapshots, Prune(d) PROVE TypeOK'
  BY <1>9 DEF Prune, Commit
<1>10. CASE Rests \/ UNCHANGED vars
  BY <1>10 DEF Rests, vars, memory
<1> QED
  BY <1>1, <1>2, <1>3, <1>4, <1>5, <1>6, <1>7, <1>8, <1>9, <1>10 DEF Next, Boots

\* The types of the start, whatever it finds.
THEOREM TypeCorrect == Spec => []TypeOK
BY TypeInit, TypeStep, PTL DEF Spec

-----------------------------------------------------------------------------
(***************************************************************************)
(* A start is sound.                                                       *)
(***************************************************************************)

LEMMA SoundInit == Init => StartIsSound
<1> SUFFICES ASSUME Init PROVE StartIsSound
  OBVIOUS
<1>1. SlicesHavePage /\ MisreadIsBlurred
  BY DEF Init, Idle, SlicesHavePage, MisreadIsBlurred
<1>2. DecodedInOrder
  BY DEF Init, Idle, DecodedInOrder
<1>3. CertainAreSound
  BY SnapshotSteps DEF Init, Idle, CertainAreSound, IsSound
<1>4. FilesAreThere
  BY ConfigSteps DEF Init, FilesAreThere
<1> QED
  BY <1>1, <1>2, <1>3, <1>4 DEF StartIsSound

\* Dying forgets all that could be unsound.
LEMMA DieKeeps == IInv /\ Die => StartIsSound'
<1> SUFFICES ASSUME IInv, Die PROVE StartIsSound'
  OBVIOUS
<1> USE DEF IInv, StartIsSound, Die, disk, others, Idle
<1>1. SlicesHavePage' /\ MisreadIsBlurred'
  BY DEF SlicesHavePage, MisreadIsBlurred
<1>2. DecodedInOrder'
  BY DEF DecodedInOrder
<1>3. CertainAreSound'
  BY SnapshotSteps DEF CertainAreSound, IsSound
<1>4. FilesAreThere'
  BY ConfigSteps DEF FilesAreThere
<1> QED
  BY <1>1, <1>2, <1>3, <1>4

\* A step of start() that is not New leads to the next one: what it has passed stays
\* as it is.
LEMMA AdvanceKeeps ==
    ASSUME IInv,
           at \in 0 .. 15, at' = at + 1,
           at # 0 => Boot[at].do # "new" \/ (page # "none" /\ slices = {}),
           \A t \in Commands : at = ConfigAt[t] => t \in files',
           files \subseteq files', slices' = slices, page' = "none",
           UNCHANGED <<task, pruning, entry, stored, cached, others>>
    PROVE  StartIsSound'
<1> USE DEF IInv, StartIsSound, others
<1>0. \A t \in Types : at = NewAt[t] => at # 0 /\ Boot[at].do = "new"
  BY NewSteps
<1>1. slices = {}
  BY DEF SlicesHavePage, At
<1>2. SlicesHavePage' /\ MisreadIsBlurred'
  BY <1>1 DEF SlicesHavePage, MisreadIsBlurred
<1>3. DecodedInOrder'
  BY <1>1, SnapshotSteps DEF DecodedInOrder, TypeOK
<1>4. CertainAreSound'
  <2> SUFFICES ASSUME NEW s \in Snapshots \ blurred PROVE IsSound(s)'
    BY DEF CertainAreSound
  <2>1. IsSound(s)
    BY DEF CertainAreSound
  <2>2. s \in stored => at' < NewAt[TypeOf[s]] \/ at' = NewAt[TypeOf[s]]
                        \/ task[s].step # "none"
    BY <1>0, <1>1, <2>1, SnapshotSteps DEF IsSound, TypeOK
  <2> QED
    BY <1>1, <2>1, <2>2 DEF IsSound, Healthy
<1>5. FilesAreThere'
  BY ConfigSteps DEF FilesAreThere
<1> QED
  BY <1>2, <1>3, <1>4, <1>5

\* New has read all that is stored of its type.
LEMMA GetAllKeeps == IInv /\ GetAll => StartIsSound'
<1> SUFFICES ASSUME IInv, GetAll PROVE StartIsSound'
  OBVIOUS
<1> USE DEF IInv, StartIsSound, GetAll, disk, others
<1>1. at \in 1 .. 15 /\ Boot[at].do = "new"
  BY NextStep DEF TypeOK
<1>2. \A s \in Snapshots : TypeOf[s] = Boot[at].of => at = NewAt[TypeOf[s]]
  BY <1>1, NewSteps, SnapshotSteps
<1>3. \A s \in Snapshots : at = NewAt[TypeOf[s]] => TypeOf[s] = Boot[at].of
  BY <1>1, NewSteps, SnapshotSteps
<1>4. SlicesHavePage' /\ MisreadIsBlurred' /\ FilesAreThere'
  BY DEF SlicesHavePage, MisreadIsBlurred, FilesAreThere, At
<1>5. DecodedInOrder'
  <2>1. ASSUME NEW s \in slices' PROVE task'[s].step = "none" /\ at' = NewAt[TypeOf[s]]
    <3>1. s \in Snapshots /\ at = NewAt[TypeOf[s]]
      BY <1>2 DEF TypeOK
    <3> QED
      BY <3>1, SnapshotSteps DEF DecodedInOrder
  <2>2. \A s \in Snapshots : task'[s].step # "none" =>
           at' > NewAt[TypeOf[s]] \/ (at' = NewAt[TypeOf[s]] /\ page' # "none")
    BY DEF DecodedInOrder
  <2> QED
    BY <2>1, <2>2 DEF DecodedInOrder
<1>6. CertainAreSound'
  <2> SUFFICES ASSUME NEW s \in Snapshots \ blurred PROVE IsSound(s)'
    BY DEF CertainAreSound
  <2>1. IsSound(s)
    BY DEF CertainAreSound
  <2>2. at = NewAt[TypeOf[s]] /\ s \in stored => s \in slices'
    BY <1>3
  <2>3. slices = {}
    BY DEF SlicesHavePage
  <2> QED
    BY <2>1, <2>2, <2>3, SnapshotSteps DEF IsSound, Healthy, TypeOK
<1> QED
  BY <1>4, <1>5, <1>6

\* A slice becomes its own snapshot, or one that is not certain any more.
LEMMA DecodeKeeps == ASSUME IInv, NEW s \in Snapshots, Decode(s) PROVE StartIsSound'
<1> USE DEF IInv, StartIsSound, disk, others
<1>1. /\ UNCHANGED <<at, page, pruning, entry, router, disk, sound, unsaved>>
      /\ slices' = slices \ {s} /\ s \in slices /\ blurred \subseteq blurred'
  BY DEF Decode, Blurs
<1>2. task[s].step = "none" /\ at = NewAt[TypeOf[s]]
  BY <1>1 DEF DecodedInOrder
<1>3. \/ \E d \in Snapshots :
            /\ task' = [task EXCEPT ![s] = [doc |-> d, step |-> "begin"]]
            /\ d = s \/ (s \in blurred' /\ d \in blurred')
      \/ task' = task /\ s \in blurred'
  BY DEF Decode, Readable, Blurs
<1>4. \A u \in Snapshots \ {s} : task'[u] = task[u]
  BY <1>3 DEF TypeOK
<1>5. \/ /\ task'[s].step = "begin"
         /\ task'[s].doc = s \/ (s \in blurred' /\ task'[s].doc \in blurred')
      \/ task'[s] = task[s] /\ s \in blurred'
  BY <1>3 DEF TypeOK
<1>6. SlicesHavePage' /\ FilesAreThere'
  BY <1>1 DEF SlicesHavePage, FilesAreThere, At
<1>7. DecodedInOrder'
  BY <1>1, <1>2, <1>4 DEF DecodedInOrder, SlicesHavePage, TypeOK
<1>8. MisreadIsBlurred'
  BY <1>1, <1>2, <1>4, <1>5 DEF MisreadIsBlurred
<1>9. CertainAreSound'
  <2> SUFFICES ASSUME NEW u \in Snapshots \ blurred' PROVE IsSound(u)'
    BY DEF CertainAreSound
  <2>1. IsSound(u) /\ Healthy' = Healthy
    BY <1>1 DEF CertainAreSound, Healthy
  <2>2. CASE u = s
    BY <1>1, <1>2, <1>5, <2>1, <2>2 DEF IsSound
  <2>3. CASE u # s
    BY <1>1, <1>4, <2>1, <2>3 DEF IsSound
  <2> QED
    BY <2>2, <2>3
<1> QED
  BY <1>6, <1>7, <1>8, <1>9

\* The steps of start().
LEMMA BootsKeep == IInv /\ (Start \/ Boots) => StartIsSound'
<1> SUFFICES ASSUME IInv, Start \/ Boots PROVE StartIsSound'
  OBVIOUS
<1> USE DEF IInv, StartIsSound, disk
<1>1. CASE Start
  <2>1. page = "none"
    BY <1>1 DEF Start, SlicesHavePage, At
  <2>2. \A t \in Commands : 0 # ConfigAt[t]
    BY ConfigSteps
  <2>3. at = 0 /\ at \in 0 .. 15 /\ at' = at + 1
    BY <1>1 DEF Start
  <2>4. /\ files \subseteq files'
        /\ UNCHANGED <<slices, page, task, pruning, entry, stored, cached, others>>
    BY <1>1 DEF Start
  <2> QED
    BY <2>1, <2>2, <2>3, <2>4, AdvanceKeeps
<1>2. CASE Config
  <2>1. at \in 1 .. 15 /\ Boot[at].do = "config"
    BY <1>2, NextStep DEF Config, TypeOK
  <2>2. page = "none"
    BY <1>2 DEF Config, SlicesHavePage, At
  <2>3. \A t \in Commands : at = ConfigAt[t] => t \in files'
    BY <1>2, ConfigSteps DEF Config
  <2> QED
    BY <1>2, <2>1, <2>2, <2>3, AdvanceKeeps DEF Config
<1>3. CASE AddRoutes
  <2>1. at \in 1 .. 15 /\ Boot[at].do = "routes"
    BY <1>3, NextStep DEF AddRoutes, TypeOK
  <2>2. page = "none"
    BY <1>3 DEF AddRoutes, SlicesHavePage, At
  <2>3. CASE 0 \in router
    <3>1. \A t \in Commands : at # ConfigAt[t]
      BY <2>1, ConfigSteps
    <3> QED
      BY <1>3, <2>1, <2>2, <2>3, <3>1, AdvanceKeeps DEF AddRoutes
  <2>4. CASE 0 \notin router
    <3>1. UNCHANGED <<at, slices, page, task, pruning, entry, disk, others>>
      BY <1>3, <2>4 DEF AddRoutes
    <3> QED
      BY <3>1 DEF SlicesHavePage, At, DecodedInOrder, MisreadIsBlurred, CertainAreSound,
                  IsSound, FilesAreThere, Healthy, others
  <2> QED
    BY <2>3, <2>4
<1>4. CASE NewReturns
  <2>1. at \in 1 .. 15 /\ Boot[at].do = "new"
    BY <1>4, NextStep DEF NewReturns, TypeOK
  <2>2. \A t \in Commands : at # ConfigAt[t]
    BY <2>1, ConfigSteps
  <2> QED
    BY <1>4, <2>1, <2>2, AdvanceKeeps DEF NewReturns
<1> QED
  BY <1>1, <1>2, <1>3, <1>4, GetAllKeeps, DecodeKeeps DEF Boots

\* A goroutine touches nothing of the other certain snapshots.
LEMMA ProcessSpares ==
    ASSUME IInv, NEW s \in Snapshots, Process(s), NEW u \in Snapshots \ blurred, u # s
    PROVE  IsSound(u)'
<1> USE DEF IInv, StartIsSound, disk, others
<1>1. task[s].step # "none" /\ UNCHANGED <<at, slices, stored, sound, blurred>>
  BY DEF Process, Begin, Exists, Run, PutCache, EnterRouter, LeaveRouter, Finalize
<1>2. u # task[s].doc
  BY <1>1 DEF MisreadIsBlurred
<1>3. task'[u] = task[u]
  BY DEF Process, Begin, Exists, Run, PutCache, EnterRouter, LeaveRouter, Finalize,
         Fails, Goto, Ends, TypeOK
<1>4. entry'[u] = entry[u]
  BY <1>2 DEF Process, Begin, Exists, Run, PutCache, EnterRouter, LeaveRouter, Finalize,
              Update, TypeOK
<1>5. /\ u \in cached' <=> u \in cached
      /\ u \in unsaved' <=> u \in unsaved
      /\ u \in pruning' <=> u \in pruning
  BY <1>2 DEF Process, Begin, Exists, Run, PutCache, EnterRouter, LeaveRouter, Finalize,
              Fails
<1>6. page' = "none" <=> page = "none"
  BY DEF Process, Begin, Exists, Run, PutCache, EnterRouter, LeaveRouter, Finalize, Commit
<1>7. IsSound(u)
  BY DEF CertainAreSound
<1>8. u \in Healthy' <=> u \in Healthy
  BY <1>1, <1>5 DEF Healthy
<1> QED
  BY <1>1, <1>3, <1>4, <1>5, <1>6, <1>7, <1>8 DEF IsSound

\* It is sound about its own, if that is certain.
LEMMA ProcessIsSound ==
    ASSUME IInv, NEW s \in Snapshots \ blurred, Process(s)
    PROVE  IsSound(s)'
<1> USE DEF IInv, StartIsSound, disk, others
<1>1. task[s].step \notin {"none", "done"} /\ UNCHANGED <<at, slices, stored, files, sound>>
  BY DEF Process, Begin, Exists, Run, PutCache, EnterRouter, LeaveRouter, Finalize
<1>2. task[s].doc = s /\ IsSound(s)
  BY <1>1 DEF MisreadIsBlurred, CertainAreSound
<1>3. page' = "none" <=> page = "none"
  BY DEF Process, Begin, Exists, Run, PutCache, EnterRouter, LeaveRouter, Finalize, Commit
<1>4. CASE Begin(s)
  <2>1. /\ task[s].step = "begin" /\ task'[s].step = "exists" /\ entry'[s] = "pending"
        /\ UNCHANGED <<pruning, cached, unsaved>>
    BY <1>2, <1>4 DEF Begin, Goto, Update, TypeOK
  <2> QED
    BY <1>1, <1>2, <1>3, <2>1 DEF IsSound, Healthy
<1>5. CASE Exists(s) \/ EnterRouter(s) \/ LeaveRouter(s)
  <2>1. /\ UNCHANGED <<pruning, cached, unsaved, entry>>
        /\ task[s].step \in {"exists", "route", "routing"}
        /\ task'[s].step \in {"ok", "run", "routing"}
        /\ task'[s].step = "run" => s \notin cached
    BY <1>2, <1>5 DEF Exists, EnterRouter, LeaveRouter, Goto, TypeOK
  <2> QED
    BY <1>1, <1>2, <1>3, <2>1 DEF IsSound, Healthy
<1>6. CASE Run(s)
  <2>1. UNCHANGED <<cached, unsaved, entry>> /\ task[s].step = "run" /\ s \notin cached
    BY <1>2, <1>6 DEF Run, IsSound
  <2>2. TypeOf[s] \in Commands => TypeOf[s] \in files
    <3>1. at \in Nat /\ NewAt[TypeOf[s]] \in Nat /\ at >= NewAt[TypeOf[s]]
      BY <2>1, SnapshotSteps, BootSteps DEF DecodedInOrder, TypeOK
    <3>2. TypeOf[s] \in Commands => at > ConfigAt[TypeOf[s]]
      BY <3>1, ConfigSteps
    <3> QED
      BY <3>2 DEF FilesAreThere
  <2>3. \/ task'[s].step \in {"put", "route"} /\ pruning' = pruning
        \/ task'[s].step = "fail" /\ s \notin sound /\ pruning' = pruning \cup {s}
    BY <1>2, <1>6, <2>2 DEF Run, Refused, Fails, Goto, TypeOK
  <2> QED
    BY <1>1, <1>2, <1>3, <2>1, <2>3 DEF IsSound, Healthy
<1>7. CASE PutCache(s)
  <2>1. task[s].step = "put" /\ UNCHANGED entry /\ s \notin cached /\ s \notin pruning
    BY <1>2, <1>7 DEF PutCache, IsSound
  <2>2. \/ task'[s].step = "ok" /\ pruning' = pruning
        \/ /\ task'[s].step = "fail" /\ pruning' = pruning \cup {s}
           /\ cached' = cached /\ s \in unsaved'
    BY <1>2, <1>7 DEF PutCache, Fails, Goto, TypeOK
  <2> QED
    BY <1>1, <1>2, <1>3, <2>1, <2>2 DEF IsSound, Healthy
<1>8. CASE Finalize(s)
  <2>1. /\ task[s].step \in {"ok", "fail"} /\ task'[s].step = "done"
        /\ entry'[s] = task[s].step /\ UNCHANGED <<pruning, cached, unsaved>>
    BY <1>2, <1>8 DEF Finalize, Ends, Update, TypeOK
  <2> QED
    BY <1>1, <1>2, <1>3, <2>1 DEF IsSound, Healthy
<1> QED
  BY <1>4, <1>5, <1>6, <1>7, <1>8 DEF Process

LEMMA ProcessKeeps == ASSUME IInv, NEW s \in Snapshots, Process(s) PROVE StartIsSound'
<1> USE DEF IInv, StartIsSound, disk, others
<1>1. /\ task[s].step # "none" /\ UNCHANGED <<at, slices, files, blurred>>
      /\ page' = "none" <=> page = "none"
  BY DEF Process, Begin, Exists, Run, PutCache, EnterRouter, LeaveRouter, Finalize, Commit
<1>2. /\ \A u \in Snapshots \ {s} : task'[u] = task[u]
      /\ task'[s].doc \in {s, task[s].doc} /\ task'[s].step # "none"
  BY DEF Process, Begin, Exists, Run, PutCache, EnterRouter, LeaveRouter, Finalize,
         Fails, Goto, Ends, TypeOK
<1>3. SlicesHavePage' /\ FilesAreThere'
  BY <1>1 DEF SlicesHavePage, FilesAreThere, At
<1>4. DecodedInOrder'
  BY <1>1, <1>2 DEF DecodedInOrder, TypeOK
<1>5. MisreadIsBlurred'
  BY <1>1, <1>2 DEF MisreadIsBlurred
<1>6. CertainAreSound'
  BY <1>1, ProcessSpares, ProcessIsSound DEF CertainAreSound
<1> QED
  BY <1>3, <1>4, <1>5, <1>6

LEMMA PruneKeeps == ASSUME IInv, NEW d \in Snapshots, Prune(d) PROVE StartIsSound'
<1> USE DEF IInv, StartIsSound, disk, others
<1>1. /\ UNCHANGED <<at, slices, task, entry, router, cached, files, others>>
      /\ pruning' \subseteq pruning /\ stored' \subseteq stored
      /\ page' = "none" <=> page = "none"
  BY DEF Prune, Commit
<1>2. SlicesHavePage' /\ FilesAreThere' /\ MisreadIsBlurred'
  BY <1>1 DEF SlicesHavePage, FilesAreThere, MisreadIsBlurred, At
<1>3. DecodedInOrder'
  BY <1>1 DEF DecodedInOrder
<1>4. CertainAreSound'
  <2> SUFFICES ASSUME NEW s \in Snapshots \ blurred PROVE IsSound(s)'
    BY <1>1 DEF CertainAreSound
  <2>1. IsSound(s) /\ Healthy' = Healthy
    BY <1>1 DEF CertainAreSound, Healthy
  <2> QED
    BY <1>1, <2>1 DEF IsSound
<1> QED
  BY <1>2, <1>3, <1>4

LEMMA StartStep == IInv /\ [Next]_vars => StartIsSound'
<1> SUFFICES ASSUME IInv, [Next]_vars PROVE StartIsSound'
  OBVIOUS
<1>1. CASE Start \/ Boots
  BY <1>1, BootsKeep
<1>2. CASE Die
  BY <1>2, DieKeeps
<1>3. ASSUME NEW s \in Snapshots, Process(s) \/ Prune(s) PROVE StartIsSound'
  BY <1>3, ProcessKeeps, PruneKeeps
<1>4. CASE Rests \/ UNCHANGED vars
  <2>1. UNCHANGED vars
    BY <1>4 DEF Rests
  <2> QED
    BY <2>1 DEF IInv, StartIsSound, vars, memory, disk, others, SlicesHavePage, At,
                DecodedInOrder, MisreadIsBlurred, CertainAreSound, IsSound,
                FilesAreThere, Healthy
<1> QED
  BY <1>1, <1>2, <1>3, <1>4 DEF Next

LEMMA InductiveInvariant == Spec => []IInv
<1>1. Init => IInv
  BY TypeInit, SoundInit DEF IInv
<1>2. IInv /\ [Next]_vars => IInv'
  BY TypeStep, StartStep DEF IInv
<1> QED
  BY <1>1, <1>2, PTL DEF Spec

\* No step of a start takes a snapshot that can be served out of the store, however the
\* goroutines come and go (collector.go:73-79, 124) and the process is killed, except one
\* read from a page that had been reused by then (kv.go:60).
THEOREM NothingIsLost == Spec => HealthyIsKept
<1>1. IInv /\ [Next]_vars => [(stored \ stored') \cap Healthy \subseteq blurred]_vars
  <2> SUFFICES ASSUME IInv, [Next]_vars, NEW d \in stored, d \notin stored', d \in Healthy
               PROVE  d \in blurred
    OBVIOUS
  <2>1. ASSUME NEW s \in Snapshots, Process(s) PROVE stored' = stored
    BY <2>1 DEF Process, Begin, Exists, Run, PutCache, EnterRouter, LeaveRouter, Finalize,
                disk
  <2>2. ~(Start \/ Die \/ Rests \/ UNCHANGED vars)
    BY DEF Start, Die, Rests, vars, disk
  <2>3. ~Boots
    BY DEF Boots, Config, AddRoutes, GetAll, Decode, NewReturns, disk
  <2>4. PICK s \in Snapshots : Prune(s)
    BY <2>1, <2>2, <2>3 DEF Next
  <2>5. d = s /\ d \in pruning
    BY <2>4 DEF Prune
  <2> QED
    BY <2>5 DEF IInv, StartIsSound, CertainAreSound, IsSound
<1> QED
  BY <1>1, InductiveInvariant, PTL DEF Spec, HealthyIsKept

\* Every start that comes to its end lists what is stored, by what can be made of it,
\* with the same exception.
THEOREM NothingIsHidden == Spec => []RestartListsAll
<1>1. IInv => RestartListsAll
  <2> SUFFICES ASSUME IInv, Serving, NEW s \in stored \ blurred,
                      task[s].step \in {"none", "done"}
               PROVE  entry[s] = "ok" \/ (entry[s] = "fail" /\ s \notin Healthy)
    BY DEF RestartListsAll, IInv, TypeOK
  <2>1. s \in Snapshots /\ slices = {} /\ at = 16
    <3>1. at \in 1 .. 16 /\ Boot[at].do = "listen"
      BY BootSteps DEF Serving, At, IInv, TypeOK
    <3>2. at = 16
      BY <3>1, BootSteps
    <3>3. page = "none"
      BY <3>1 DEF At, IInv, StartIsSound, SlicesHavePage
    <3> QED
      BY <3>2, <3>3 DEF IInv, StartIsSound, SlicesHavePage, TypeOK
  <2>2. IsSound(s)
    BY <2>1 DEF IInv, StartIsSound, CertainAreSound
  <2>3. task[s].step = "done"
    BY <2>1, <2>2, SnapshotSteps DEF IsSound
  <2> QED
    BY <2>2, <2>3 DEF IsSound
<1> QED
  BY <1>1, InductiveInvariant, PTL

=============================================================================
