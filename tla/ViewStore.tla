------------------------------- MODULE ViewStore -------------------------------
(***************************************************************************)
(* view/src/store.ts: the entries a browser shows.  The page opens an      *)
(* EventSource on /api/event and fetches the list of every endpoint once;  *)
(* both end in saveEntry, which overwrites what the page knew.             *)
(*                                                                         *)
(* The server is reduced to the status of every snapshot and the event it  *)
(* publishes with every change (collector.go:85).  The stream delivers in  *)
(* order while it is open; a browser reconnects by itself, without the     *)
(* events of the meantime, and does not fetch the lists again.  A server   *)
(* that is killed and started again knows nothing at first, and then what  *)
(* it processes once more.                                                 *)
(***************************************************************************)
EXTENDS Naturals, Sequences, SequencesExt

CONSTANTS
    Ids,            \* snapshot ids
    Endpoints,      \* state.endpoints: memo, pprof, httplog, slowlog
    EndpointOf,     \* EndpointOf[id]: the type of the snapshot
    MaxDrops,       \* bound on the number of times the stream breaks
    MaxRestarts     \* bound on the number of restarts of the server

ASSUME ViewAssumption ==
    /\ EndpointOf \in [Ids -> Endpoints]
    /\ MaxDrops \in Nat /\ MaxRestarts \in Nat

VARIABLES
    server,     \* server[id]: c.data, "absent" if there is no entry
    stream,     \* "connecting" or "open"
    queue,      \* the events on their way to the page
    request,    \* request[ep]: "sent", "answered" (on its way back) or "done"
    response,   \* response[ep]: the list in the answer
    entries,    \* state.entries of the page
    drops,      \* how often the stream has broken
    restarts,   \* how often the server has been restarted
    informed,   \* history: the snapshots whose newest status has been sent to
                \* the page, as an event or in a list
    overtaken   \* history: the snapshots whose list entry is older than an
                \* event that has been saved

vars == <<server, stream, queue, request, response, entries, drops, restarts,
          informed, overtaken>>

Statuses == {"absent", "pending", "ok", "fail"}

\* What updateStatus may make of an entry, in one life of the server.
Successors(status) ==
    CASE status = "absent"  -> {"pending"}
      [] status = "pending" -> {"ok", "fail"}
      [] OTHER              -> {}

\* The snapshots in the list of an endpoint.
Of(ep) == {id \in Ids : EndpointOf[id] = ep}

\* The list of the snapshot's endpoint has been made and not been saved.
ListOnItsWay(id) == request[EndpointOf[id]] = "answered"

Init ==
    /\ server \in [Ids -> Statuses]
    /\ stream = "connecting"
    /\ queue = <<>>
    /\ request = [ep \in Endpoints |-> "sent"]
    /\ response = [ep \in Endpoints |-> [id \in Of(ep) |-> "absent"]]
    /\ entries = [id \in Ids |-> "absent"]
    /\ drops = 0 /\ restarts = 0
    /\ informed = {id \in Ids : server[id] = "absent"}
    /\ overtaken = {}

-----------------------------------------------------------------------------
(***************************************************************************)
(* The server.                                                             *)
(***************************************************************************)

\* Hub.Publish: nothing is kept for a page that is not connected.
Publish(event) == IF stream = "open" THEN Append(queue, event) ELSE queue

\* updateStatus: the entry and its event change under one lock.  The event says
\* whether it is newer than the list on its way.
Change(id) ==
    /\ \E status \in Successors(server[id]) :
          /\ server' = [server EXCEPT ![id] = status]
          /\ queue' = Publish([id |-> id, status |-> status, newer |-> ListOnItsWay(id)])
    /\ informed' = IF stream = "open" THEN informed \cup {id} ELSE informed \ {id}
    /\ UNCHANGED <<stream, request, response, entries, drops, restarts, overtaken>>

\* getIndex: collector.List().
Answer(ep) ==
    /\ request[ep] = "sent"
    /\ request' = [request EXCEPT ![ep] = "answered"]
    /\ response' = [response EXCEPT ![ep] = [id \in Of(ep) |-> server[id]]]
    /\ informed' = informed \cup Of(ep)
    /\ UNCHANGED <<server, stream, queue, entries, drops, restarts, overtaken>>

\* The process is killed: its stream breaks and its requests fail, except for answers
\* that have already been received.  New starts with no entries and processes the
\* stored snapshots again; the page keeps its entries.
Restart ==
    /\ restarts < MaxRestarts
    /\ restarts' = restarts + 1
    /\ server' = [id \in Ids |-> "absent"]
    /\ stream' = "connecting"
    /\ queue' = <<>>
    /\ \E received \in SUBSET {ep \in Endpoints : request[ep] = "answered"} :
          /\ request' = [ep \in Endpoints |-> IF ep \in received THEN "answered" ELSE "done"]
          /\ informed' = {id \in Ids : entries[id] = "absent" /\ EndpointOf[id] \notin received}
    /\ overtaken' = {}
    /\ UNCHANGED <<response, entries, drops>>

-----------------------------------------------------------------------------
(***************************************************************************)
(* The page.                                                               *)
(***************************************************************************)

\* The EventSource is connected, for the first time or again.
Connect ==
    /\ stream = "connecting"
    /\ stream' = "open"
    /\ UNCHANGED <<server, queue, request, response, entries, drops, restarts, informed, overtaken>>

\* The stream breaks; what is on its way is lost.
Drop ==
    /\ stream = "open"
    /\ drops < MaxDrops
    /\ drops' = drops + 1
    /\ stream' = "connecting"
    /\ queue' = <<>>
    /\ informed' = informed \ {ev.id : ev \in {x \in ToSet(queue) : ListOnItsWay(x.id) => x.newer}}
    /\ UNCHANGED <<server, request, response, entries, restarts, overtaken>>

\* A mutant of saveEntry that keeps an entry the page has already.
MutSaved(old, new) == [id \in Ids |-> IF id \in DOMAIN new /\ old[id] = "absent" THEN new[id] ELSE old[id]]

\* A mutant of saveEntry that replaces the entries of the page by those of the list.
MutReplace(old, new) == new

\* saveEntry for the entries of a function from ids to statuses.
Saved(old, new) ==
    [id \in Ids |-> IF id \in DOMAIN new /\ new[id] # "absent" THEN new[id] ELSE old[id]]

\* A mutant of OnMessage that takes the newest event first.
MutOnMessage ==
    /\ queue # <<>>
    /\ LET ev == Last(queue) IN
       /\ entries' = Saved(entries, [id \in {ev.id} |-> ev.status])
       /\ overtaken' = IF ListOnItsWay(ev.id) /\ ev.newer THEN overtaken \cup {ev.id} ELSE overtaken
    /\ queue' = Front(queue)
    /\ UNCHANGED <<server, stream, request, response, drops, restarts, informed>>

\* The listener of the EventSource.
OnMessage ==
    /\ queue # <<>>
    /\ LET ev == Head(queue) IN
       /\ entries' = Saved(entries, [id \in {ev.id} |-> ev.status])
       /\ overtaken' = IF ListOnItsWay(ev.id) /\ ev.newer THEN overtaken \cup {ev.id}
                       ELSE IF ListOnItsWay(ev.id) THEN overtaken
                       ELSE overtaken \ {ev.id}
    /\ queue' = Tail(queue)
    /\ UNCHANGED <<server, stream, request, response, drops, restarts, informed>>

\* fetchEntries, after the await.
Fetched(ep) ==
    /\ request[ep] = "answered"
    /\ request' = [request EXCEPT ![ep] = "done"]
    /\ entries' = Saved(entries, response[ep])
    /\ UNCHANGED <<server, stream, queue, response, drops, restarts, informed, overtaken>>

\* The request fails: the user is told, and nobody tries again.
FetchFailed(ep) ==
    /\ request[ep] = "sent"
    /\ request' = [request EXCEPT ![ep] = "done"]
    /\ UNCHANGED <<server, stream, queue, response, entries, drops, restarts, informed, overtaken>>

-----------------------------------------------------------------------------

AtRest ==
    /\ queue = <<>>
    /\ \A ep \in Endpoints : request[ep] = "done"

Terminated ==
    /\ AtRest
    /\ stream = "open"
    /\ \A id \in Ids : server[id] \in {"ok", "fail"}
    /\ UNCHANGED vars

Next ==
    \/ \E id \in Ids : Change(id)
    \/ \E ep \in Endpoints : Answer(ep) \/ Fetched(ep) \/ FetchFailed(ep)
    \/ Connect \/ Drop \/ OnMessage \/ Restart
    \/ Terminated

Spec == Init /\ [][Next]_vars

\* Requests end, and events arrive while the stream is open.  The server need not
\* change anything.
FairSpec ==
    /\ Spec
    /\ \A ep \in Endpoints : WF_vars(Answer(ep) \/ FetchFailed(ep)) /\ WF_vars(Fetched(ep))
    /\ WF_vars(OnMessage) /\ WF_vars(Connect)

-----------------------------------------------------------------------------
(***************************************************************************)
(* Properties.                                                             *)
(***************************************************************************)

\* The type invariant.
TypeOK ==
    /\ server \in [Ids -> Statuses]
    /\ stream \in {"connecting", "open"}
    /\ queue \in Seq([id : Ids, status : Statuses \ {"absent"}, newer : BOOLEAN])
    /\ request \in [Endpoints -> {"sent", "answered", "done"}]
    /\ DOMAIN response = Endpoints
    /\ \A ep \in Endpoints : response[ep] \in [Of(ep) -> Statuses]
    /\ entries \in [Ids -> Statuses]
    /\ drops \in 0 .. MaxDrops /\ restarts \in 0 .. MaxRestarts
    /\ informed \subseteq Ids
    /\ overtaken \subseteq Ids

\* When nothing is on its way any more, the page shows the status the server has,
\* unless the newest event was published while the stream was not open, or the
\* list that was saved last was older than it (store.ts:108).  In particular an
\* event that is older than a list, and arrives after it, does no lasting harm.
AtRestIsCurrent ==
    AtRest => \A id \in informed \ overtaken : entries[id] = server[id]

\* How far a snapshot has got.
Rank(status) == CASE status = "absent" -> 0 [] status = "pending" -> 1 [] OTHER -> 2

\* Until the list of its endpoint has been saved, or the server is restarted, an entry
\* never goes back, say from ok to pending, also when the stream breaks and is opened again (store.ts:51).
\* (When it is saved it may: the list may be older than the events before it, and
\* the events after it may be older than the list.)
ForwardBeforeLists ==
    [][\A id \in Ids :
          restarts = 0 /\ request[EndpointOf[id]] # "done" /\ request'[EndpointOf[id]] # "done"
              => Rank(entries'[id]) >= Rank(entries[id])]_vars

\* A page does not stay behind for ever: every request ends and the queue empties,
\* and a snapshot that has settled is shown as the server has it from then on,
\* except in the cases AtRestIsCurrent excepts.
SettledIsShown ==
    \A id \in Ids :
        <>[](server[id] \in {"ok", "fail"} =>
                 entries[id] = server[id] \/ id \notin informed \/ id \in overtaken)

=============================================================================
