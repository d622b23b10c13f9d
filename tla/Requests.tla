-------------------------------- MODULE Requests --------------------------------
(***************************************************************************)
(* The handlers around a Collector, composed with it: those that read,     *)
(* getLatestData and getData (internal/extproc, internal/pprof), which     *)
(* take a list under the lock and open a file after it, and those of the   *)
(* memos (internal/memo): postIndex publishes an event of its own after    *)
(* Add, and getIndex takes a list, asks Get for every entry, writes the    *)
(* text into the entry without a lock, and lists again.                    *)
(*                                                                         *)
(* An entry of a list is the *Entry itself.  updateStatus replaces the     *)
(* entry of a snapshot by a new one, so that whoever holds the old one     *)
(* writes into an object that nobody lists any more: held[g] are the       *)
(* snapshots of which the list of index g has the current entry.           *)
(***************************************************************************)
EXTENDS Collector

CONSTANTS
    Queries,        \* calls of getLatestData and getData
    DatetimeOf,     \* DatetimeOf[id]: when the snapshot was made
    LabelOf,        \* LabelOf[id]: its label
    Labels,         \* labels
    AnyLabel        \* the query has no label

ASSUME RequestsAssumption ==
    /\ Queries \cap Gets = {}
    /\ DatetimeOf \in [Ids -> Nat]
    /\ \A i, j \in Ids : DatetimeOf[i] = DatetimeOf[j] => i = j
    /\ LabelOf \in [Ids -> Labels]
    /\ AnyLabel \notin Labels

VARIABLES
    announcing, \* the memos of which Add has returned to postIndex without an error
    query,      \* query[q]: the next step of the query, and what it has found
    index,      \* index[g]: "idle", "list", "loop", "get", "ok" or "failed"
    left,       \* left[g]: the entries the loop of index g has still to visit
    held,       \* held[g]: see above
    content,    \* content[g]: what the Get of index g has read of the body
    message,    \* message[id]: Entry.Message, "status" as updateStatus sets it,
                \* or what an index has written: "full" for the text, or "partial"
    shown,      \* shown[g]: the messages in the answer of index g
    settled     \* history: settled[r]: the snapshots that were ok when request r
                \* arrived

indexVars == <<index, left, held, content, message, shown>>
rvars == <<vars, announcing, query, indexVars, settled>>

NoQuery == [kind |-> "latest", step |-> "idle", label |-> AnyLabel, id |-> NoOne, body |-> "none"]

Listed == {id \in Ids : data[id] # "absent"}
Oks == {id \in Ids : data[id] = "ok"}

RequestsInit ==
    /\ Init
    /\ announcing = {}
    /\ query = [q \in Queries |-> NoQuery]
    /\ index = [g \in Gets |-> "idle"]
    /\ left = [g \in Gets |-> {}]
    /\ held = [g \in Gets |-> {}]
    /\ content = [g \in Gets |-> "none"]
    /\ message = [id \in Ids |-> "status"]
    /\ shown = [g \in Gets |-> [id \in Ids |-> "absent"]]
    /\ settled = [r \in Queries \cup Gets |-> {}]

-----------------------------------------------------------------------------
(***************************************************************************)
(* getLatestData and getData.                                              *)
(***************************************************************************)

\* The request arrives; List waits for the lock.
Ask(q) ==
    /\ Kind # "memo"
    /\ query[q].step = "idle"
    /\ \/ \E label \in Labels \cup {AnyLabel} :
             query' = [query EXCEPT ![q] = [@ EXCEPT !.step = "list", !.label = label]]
       \/ query' = [query EXCEPT ![q] = [@ EXCEPT !.step = "list", !.kind = "data"]]
    /\ settled' = [settled EXCEPT ![q] = Oks]
    /\ UNCHANGED <<vars, announcing, indexVars>>

\* slices.SortFunc by Datetime, the newest first.  The mutant has it the other
\* way round.
MutBefore(i, j) == DatetimeOf[i] < DatetimeOf[j]

Before(i, j) == DatetimeOf[i] > DatetimeOf[j]

\* The entries the loop does not pass over.  The mutant takes any status.
MutMatches(id, label) == label \in {AnyLabel, LabelOf[id]}

Matches(id, label) == label \in {AnyLabel, LabelOf[id]} /\ data[id] = "ok"

Goes(q, step) == query' = [query EXCEPT ![q].step = step]

\* The file is opened after the list has been made.
Found(q, id) == query' = [query EXCEPT ![q] = [@ EXCEPT !.step = "file", !.id = id]]

\* The loop ends at the first entry it does not pass over.
FindLatest(q) ==
    LET matching == {id \in Listed : Matches(id, query[q].label)} IN
    /\ query[q].step = "list" /\ query[q].kind = "latest"
    /\ writer = NoOne
    /\ \/ \E id \in matching : (\A j \in matching : ~Before(j, id)) /\ Found(q, id)
       \/ matching = {} /\ Goes(q, "404")
    /\ UNCHANGED <<vars, announcing, indexVars, settled>>

\* getData: by id, whatever the status.
FindById(q) ==
    /\ query[q].step = "list" /\ query[q].kind = "data"
    /\ writer = NoOne
    /\ (\E id \in Listed : Found(q, id)) \/ Goes(q, "404")
    /\ UNCHANGED <<vars, announcing, indexVars, settled>>

\* c.File(bodyPath)
ServeFile(q) ==
    /\ query[q].step = "file"
    /\ LET served == body[query[q].id] IN
       query' = [query EXCEPT ![q] = [@ EXCEPT !.step = IF served = "none" THEN "404" ELSE "200",
                                               !.body = served]]
    /\ UNCHANGED <<vars, announcing, indexVars, settled>>

-----------------------------------------------------------------------------
(***************************************************************************)
(* postIndex of the memos.                                                 *)
(***************************************************************************)

\* A mutant that does not look at the error of Add.
MutAdded(id) == Kind = "memo" /\ pc[id] = "hook" /\ pc'[id] = "done" /\ ~replayed[id]

\* Add returns to postIndex without an error in this step.
Added(id) ==
    Kind = "memo" /\ pc[id] = "hook" /\ pc'[id] = "done" /\ ~replayed[id] /\ data[id] = "ok"

\* It publishes an event of its own, outside the collector's lock.
Announce(id) ==
    /\ id \in announcing
    /\ announcing' = announcing \ {id}
    /\ published' = [published EXCEPT ![id] = "ok"]
    /\ UNCHANGED <<pc, replayed, data, writer, call, output, subject, pruning, routes,
                   hub, disk, hooked, restarts, query, indexVars, settled>>

-----------------------------------------------------------------------------
(***************************************************************************)
(* The index of memos.                                                     *)
(***************************************************************************)

\* The request arrives.
AskIndex(g) ==
    /\ Kind = "memo"
    /\ index[g] = "idle"
    /\ index' = [index EXCEPT ![g] = "list"]
    /\ settled' = [settled EXCEPT ![g] = Oks]
    /\ UNCHANGED <<vars, announcing, query, left, held, content, message, shown>>

\* list := h.collector.List()
ListEntries(g) ==
    /\ index[g] = "list"
    /\ writer = NoOne
    /\ index' = [index EXCEPT ![g] = "loop"]
    /\ left' = [left EXCEPT ![g] = Listed]
    /\ held' = [held EXCEPT ![g] = Listed]
    /\ UNCHANGED <<vars, announcing, query, content, message, shown, settled>>

\* Get for one of the entries, in any order.
GetEntry(g) ==
    /\ index[g] = "loop"
    /\ GetBegin(g)
    /\ subject'[g] \in left[g]
    /\ left' = [left EXCEPT ![g] = @ \ {subject'[g]}]
    /\ index' = [index EXCEPT ![g] = "get"]
    /\ UNCHANGED <<announcing, query, held, content, message, shown, settled>>

\* The steps of Process for index g; the memo is read as it is then.
ReadEntry(g) ==
    /\ Process(g)
    /\ content' = [content EXCEPT ![g] = IF call[g] = "generate" THEN body[subject[g]] ELSE @]
    /\ UNCHANGED <<announcing, query, index, left, held, message, shown, settled>>

\* m.Message = v.Text, into the entry of the list; an error ends the index.
GotEntry(g) ==
    /\ GetEnd(g)
    /\ index' = [index EXCEPT ![g] = IF call[g] = "ok" THEN "loop" ELSE "failed"]
    /\ message' = IF call[g] = "ok" /\ subject[g] \in held[g]
                  THEN [message EXCEPT ![subject[g]] = content[g]]
                  ELSE message
    /\ content' = [content EXCEPT ![g] = "none"]
    /\ UNCHANGED <<announcing, query, left, held, shown, settled>>

\* A mutant that answers with the first entries only.
MutListAgain(g) ==
    /\ index[g] = "loop"
    /\ writer = NoOne
    /\ index' = [index EXCEPT ![g] = "ok"]
    /\ shown' = [shown EXCEPT ![g] = [id \in Ids |-> IF id \in Listed THEN message[id] ELSE "absent"]]
    /\ UNCHANGED <<vars, announcing, query, left, held, content, message, settled>>

\* The answer is the list as it is after the loop.
ListAgain(g) ==
    /\ index[g] = "loop"
    /\ left[g] = {}
    /\ writer = NoOne
    /\ index' = [index EXCEPT ![g] = "ok"]
    /\ shown' = [shown EXCEPT ![g] = [id \in Ids |-> IF id \in Listed THEN message[id] ELSE "absent"]]
    /\ UNCHANGED <<vars, announcing, query, left, held, content, message, settled>>

-----------------------------------------------------------------------------
(***************************************************************************)
(* The collector.                                                          *)
(***************************************************************************)

\* updateStatus replaces the entry in this step.
Replaces(id) == writer = id /\ pc[id] \in AboutToUpdate /\ pc'[id] # pc[id]

CollectorStep ==
    /\ \E id \in Ids : Task(id) \/ Prune(id) \/ Process(id)
    /\ message' = [id \in Ids |-> IF Replaces(id) THEN "status" ELSE message[id]]
    /\ held' = [g \in Gets |-> {id \in held[g] : ~Replaces(id)}]
    /\ announcing' = announcing \cup {id \in Ids : Added(id)}
    /\ UNCHANGED <<query, index, left, content, shown, settled>>

\* The requests end with the process.
RestartAll ==
    /\ Restart
    /\ announcing' = {}
    /\ query' = [q \in Queries |-> NoQuery]
    /\ index' = [g \in Gets |-> "idle"]
    /\ left' = [g \in Gets |-> {}]
    /\ held' = [g \in Gets |-> {}]
    /\ content' = [g \in Gets |-> "none"]
    /\ message' = [id \in Ids |-> "status"]
    /\ shown' = [g \in Gets |-> [id \in Ids |-> "absent"]]
    /\ settled' = [r \in Queries \cup Gets |-> {}]

RequestsNext ==
    \/ CollectorStep
    \/ RestartAll
    \/ \E id \in Ids : Announce(id)
    \/ \E q \in Queries : Ask(q) \/ FindLatest(q) \/ FindById(q) \/ ServeFile(q)
    \/ \E g \in Gets : \/ AskIndex(g) \/ ListEntries(g) \/ GetEntry(g)
                       \/ ReadEntry(g) \/ GotEntry(g) \/ ListAgain(g)
    \/ Terminated /\ UNCHANGED rvars

RequestsSpec == RequestsInit /\ [][RequestsNext]_rvars

-----------------------------------------------------------------------------
(***************************************************************************)
(* Properties.                                                             *)
(***************************************************************************)

\* What getLatestData serves is a whole body, although the file is opened after the
\* lock has been released and bodies are written and torn meanwhile
\* (extproc/handler.go:102-110).  Data asked for by id need not be, nor a torn log of an
\* earlier life that a command has accepted at the start.
LatestIsWhole ==
    \A q \in Queries :
        query[q].kind = "latest" /\ query[q].step = "200" =>
            \/ query[q].body = "full"
            \/ Kind = "command" /\ query[q].body = "partial" /\ replayed[query[q].id]

\* And it is not older than any snapshot with the label that was ok when the query
\* arrived (extproc/handler.go:93): whoever has been told that a snapshot is ok
\* and asks for the latest gets it or a newer one.
LatestIsFresh ==
    \A q \in Queries : \A id \in settled[q] :
        query[q].kind = "latest" /\ query[q].label \in {AnyLabel, LabelOf[id]} =>
            /\ query[q].step # "404"
            /\ query[q].id # NoOne => DatetimeOf[query[q].id] >= DatetimeOf[id]

\* An index that is answered shows the text of every memo that was ok when it
\* arrived, although it is written into shared entries without the lock while
\* other memos are added and other indexes run (memo/handler.go:65).
IndexShowsTexts ==
    \A g \in Gets : index[g] = "ok" => \A id \in settled[g] : shown[g][id] = "full"

=============================================================================
