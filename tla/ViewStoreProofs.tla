---------------------------- MODULE ViewStoreProofs ----------------------------
(***************************************************************************)
(* Theorems about ViewStore, for any snapshots, endpoints and bounds.      *)
(***************************************************************************)
EXTENDS ViewStore, TLAPS, SequenceTheorems

USE ViewAssumption

Event == [id : Ids, status : Statuses \ {"absent"}, newer : BOOLEAN]

LEMMA SuccessorsAreStatuses ==
    ASSUME NEW s \in Statuses
    PROVE  /\ Successors(s) \subseteq Statuses \ {"absent"}
           /\ \A t \in Successors(s) : Rank(s) < Rank(t)
BY DEF Successors, Statuses, Rank

LEMMA Ranks ==
    /\ \A s \in Statuses : Rank(s) \in 0 .. 2
    /\ \A s \in Statuses : Rank("absent") <= Rank(s)
BY DEF Statuses, Rank

-----------------------------------------------------------------------------
(***************************************************************************)
(* Type correctness.                                                       *)
(***************************************************************************)

LEMMA HeadAndTail ==
    ASSUME NEW s \in Seq(Event), s # <<>>
    PROVE  /\ Head(s) = s[1] /\ 1 \in DOMAIN s /\ Head(s) \in Event
           /\ Tail(s) \in Seq(Event)
           /\ \A k \in DOMAIN Tail(s) : k + 1 \in DOMAIN s /\ Tail(s)[k] = s[k + 1]
           /\ \A k \in DOMAIN s : k # 1 => k - 1 \in DOMAIN Tail(s) /\ Tail(s)[k - 1] = s[k]
BY HeadTailProperties, ElementOfSeq

\* What the handler of the EventSource does.
LEMMA MessageFacts ==
    ASSUME TypeOK, OnMessage
    PROVE  /\ queue # <<>> /\ queue' = Tail(queue) /\ Head(queue) \in Event
           /\ entries' \in [Ids -> Statuses]
           /\ entries'[Head(queue).id] = Head(queue).status
           /\ \A id \in Ids : id # Head(queue).id => entries'[id] = entries[id]
           /\ UNCHANGED <<server, stream, request, response, drops, restarts, informed>>
<1>1. queue # <<>> /\ queue \in Seq(Event)
  BY DEF OnMessage, TypeOK, Event
<1>2. PICK ev \in Event : ev = Head(queue)
  BY <1>1, HeadAndTail
<1>3. ev.id \in Ids /\ ev.status \in Statuses /\ ev.status # "absent"
  BY <1>2 DEF Event
<1>4. entries' = Saved(entries, [id \in {ev.id} |-> ev.status])
  BY <1>2 DEF OnMessage
<1>5. entries' \in [Ids -> Statuses] /\ entries'[ev.id] = ev.status
      /\ \A id \in Ids : id # ev.id => entries'[id] = entries[id]
  BY <1>3, <1>4 DEF Saved, TypeOK
<1> QED
  BY <1>1, <1>2, <1>5 DEF OnMessage

\* What fetchEntries does.
LEMMA FetchedFacts ==
    ASSUME TypeOK, NEW ep \in Endpoints, Fetched(ep)
    PROVE  /\ entries' \in [Ids -> Statuses]
           /\ request[ep] = "answered" /\ request' = [request EXCEPT ![ep] = "done"]
           /\ \A id \in Ids : EndpointOf[id] # ep => entries'[id] = entries[id]
           /\ \A id \in Ids : EndpointOf[id] = ep =>
                 entries'[id] = IF response[ep][id] = "absent" THEN entries[id] ELSE response[ep][id]
           /\ UNCHANGED <<server, stream, queue, response, drops, restarts, informed, overtaken>>
<1>1. response[ep] \in [Of(ep) -> Statuses] /\ Of(ep) \subseteq Ids
  BY DEF TypeOK, Of
<1>2. entries \in [Ids -> Statuses] /\ entries' = Saved(entries, response[ep])
  BY DEF TypeOK, Fetched
<1>3. \A id \in Ids : id \in Of(ep) <=> EndpointOf[id] = ep
  BY DEF Of
<1>4. /\ entries' \in [Ids -> Statuses]
      /\ \A id \in Ids : id \notin Of(ep) => entries'[id] = entries[id]
      /\ \A id \in Of(ep) : response[ep][id] # "absent" => entries'[id] = response[ep][id]
      /\ \A id \in Of(ep) : response[ep][id] = "absent" => entries'[id] = entries[id]
  <2>1. DOMAIN response[ep] = Of(ep) /\ \A id \in Of(ep) : response[ep][id] \in Statuses
    BY <1>1
  <2>2. entries' = [id \in Ids |-> IF id \in Of(ep) /\ response[ep][id] # "absent"
                                  THEN response[ep][id] ELSE entries[id]]
    BY <1>2, <2>1 DEF Saved
  <2> QED
    BY <1>1, <1>2, <2>1, <2>2
<1> QED
  BY <1>3, <1>4 DEF Fetched

LEMMA PublishType ==
    ASSUME TypeOK, NEW id \in Ids, NEW s \in Statuses \ {"absent"}, NEW newer \in BOOLEAN
    PROVE  Publish([id |-> id, status |-> s, newer |-> newer]) \in Seq(Event)
<1>1. [id |-> id, status |-> s, newer |-> newer] \in Event
  BY DEF Event
<1>2. queue \in Seq(Event)
  BY DEF TypeOK, Event
<1> QED
  BY <1>1, <1>2 DEF Publish

LEMMA TypeStep == ASSUME TypeOK, [Next]_vars PROVE TypeOK'
<1>1. ASSUME NEW id \in Ids, Change(id) PROVE TypeOK'
  <2>1. PICK s \in Successors(server[id]) :
            /\ server' = [server EXCEPT ![id] = s]
            /\ queue' = Publish([id |-> id, status |-> s, newer |-> ListOnItsWay(id)])
    BY <1>1 DEF Change
  <2>2. s \in Statuses \ {"absent"}
    BY SuccessorsAreStatuses DEF TypeOK
  <2>3. ListOnItsWay(id) \in BOOLEAN
    BY DEF ListOnItsWay
  <2>4. queue' \in Seq(Event)
    BY <2>1, <2>2, <2>3, PublishType
  <2> QED
    BY <1>1, <2>1, <2>2, <2>4 DEF Change, TypeOK, Event
<1>2. ASSUME NEW ep \in Endpoints, Answer(ep) PROVE TypeOK'
  <2>1. [id \in Of(ep) |-> server[id]] \in [Of(ep) -> Statuses] /\ Of(ep) \subseteq Ids
    BY DEF TypeOK, Of
  <2> QED
    BY <1>2, <2>1 DEF Answer, TypeOK
<1>3. ASSUME NEW ep \in Endpoints, Fetched(ep) PROVE TypeOK'
  BY <1>3, FetchedFacts DEF TypeOK
<1>4. ASSUME NEW ep \in Endpoints, FetchFailed(ep) PROVE TypeOK'
  BY <1>4 DEF FetchFailed, TypeOK
<1>5. CASE Connect
  BY <1>5 DEF Connect, TypeOK
<1>6. CASE Drop
  BY <1>6 DEF Drop, TypeOK
<1>7. CASE OnMessage
  <2>1. queue' \in Seq(Event)
    BY <1>7, MessageFacts, HeadAndTail DEF TypeOK, Event
  <2>2. overtaken' \subseteq Ids
    BY <1>7, MessageFacts DEF OnMessage, TypeOK, Event
  <2> QED
    BY <1>7, <2>1, <2>2, MessageFacts DEF TypeOK, Event
<1>8. CASE Restart
  BY <1>8 DEF Restart, TypeOK, Statuses
<1>9. CASE UNCHANGED vars
  BY <1>9 DEF vars, TypeOK
<1> QED
  BY <1>1, <1>2, <1>3, <1>4, <1>5, <1>6, <1>7, <1>8, <1>9 DEF Next, Terminated

\* The variables stay in their types.
THEOREM TypeCorrect == Spec => []TypeOK
<1>1. Init => TypeOK
  BY DEF Init, TypeOK, Statuses, Of
<1> QED
  BY <1>1, TypeStep, PTL DEF Spec

-----------------------------------------------------------------------------
(***************************************************************************)
(* The events on their way.                                                *)
(***************************************************************************)

\* The last event of a snapshot carries the status the server has.
LastIsNewest ==
    \A k \in DOMAIN queue :
        (\A j \in DOMAIN queue : j > k => queue[j].id # queue[k].id)
            => queue[k].status = server[queue[k].id]

\* The events of a snapshot do not go back, and none is ahead of the server.
EventsGoForward ==
    /\ \A k \in DOMAIN queue : Rank(queue[k].status) <= Rank(server[queue[k].id])
    /\ \A j, k \in DOMAIN queue :
          j < k /\ queue[j].id = queue[k].id => Rank(queue[j].status) <= Rank(queue[k].status)

\* Before its list is saved, and while the server lives, the page is behind all of them.
PageIsBehind ==
    \A id \in Ids : restarts = 0 /\ request[EndpointOf[id]] # "done" =>
        /\ Rank(entries[id]) <= Rank(server[id])
        /\ \A k \in DOMAIN queue : queue[k].id = id => Rank(entries[id]) <= Rank(queue[k].status)

\* The events go with their stream.
ClosedIsEmpty == stream # "open" => queue = <<>>

EventInv == LastIsNewest /\ EventsGoForward /\ PageIsBehind /\ ClosedIsEmpty

NoEvents(id) == \A k \in DOMAIN queue : queue[k].id # id

LEMMA QueueFacts ==
    ASSUME TypeOK
    PROVE  /\ queue \in Seq(Event)
           /\ \A k \in DOMAIN queue : /\ queue[k] \in Event
                                      /\ queue[k].id \in Ids
                                      /\ queue[k].status \in Statuses /\ queue[k].status # "absent"
<1>1. queue \in Seq(Event)
  BY DEF TypeOK, Event
<1>2. \A k \in DOMAIN queue : queue[k] \in Event
  BY <1>1
<1> QED
  BY <1>1, <1>2 DEF Event

\* A snapshot that the server does not know has no events.
LEMMA AbsentHasNoEvents ==
    ASSUME TypeOK, EventInv, NEW id \in Ids, server[id] = "absent" PROVE NoEvents(id)
<1> SUFFICES ASSUME NEW k \in DOMAIN queue, queue[k].id = id PROVE FALSE
  BY DEF NoEvents
<1>1. queue[k].status \in Statuses /\ queue[k].status # "absent"
  BY QueueFacts
<1>2. Rank(queue[k].status) <= Rank("absent")
  BY DEF EventInv, EventsGoForward
<1> QED
  BY <1>1, <1>2 DEF Rank, Statuses

\* One more event at the end of the queue, or none if nobody listens.
LEMMA ChangeFacts ==
    ASSUME TypeOK, NEW id \in Ids, Change(id)
    PROVE  \E s \in Statuses \ {"absent"} :
              /\ server' = [server EXCEPT ![id] = s] /\ Rank(server[id]) < Rank(s)
              /\ IF stream = "open"
                 THEN LET n == Len(queue) + 1 IN
                      /\ DOMAIN queue' = 1 .. n /\ DOMAIN queue = 1 .. n - 1 /\ n \in Nat \ {0}
                      /\ \A k \in DOMAIN queue : queue'[k] = queue[k]
                      /\ queue'[n].id = id /\ queue'[n].status = s
                      /\ queue'[n].newer = ListOnItsWay(id)
                 ELSE queue' = queue
<1>1. PICK s \in Successors(server[id]) :
          /\ server' = [server EXCEPT ![id] = s]
          /\ queue' = Publish([id |-> id, status |-> s, newer |-> ListOnItsWay(id)])
  BY DEF Change
<1>2. s \in Statuses \ {"absent"} /\ Rank(server[id]) < Rank(s)
  BY SuccessorsAreStatuses DEF TypeOK
<1>3. PICK ev \in Event : ev = [id |-> id, status |-> s, newer |-> ListOnItsWay(id)]
  <2>1. ListOnItsWay(id) \in BOOLEAN
    BY DEF ListOnItsWay
  <2> QED
    BY <1>2, <2>1 DEF Event
<1>4. queue \in Seq(Event)
  BY QueueFacts
<1>5. CASE stream = "open"
  <2>1. queue' = Append(queue, ev)
    BY <1>1, <1>3, <1>5 DEF Publish
  <2>2. /\ DOMAIN queue' = 1 .. (Len(queue) + 1) /\ DOMAIN queue = 1 .. Len(queue) /\ Len(queue) \in Nat
        /\ \A k \in DOMAIN queue : queue'[k] = queue[k]
        /\ queue'[Len(queue) + 1] = ev
    BY <1>4, <2>1
  <2>3. ev.id = id /\ ev.status = s /\ ev.newer = ListOnItsWay(id)
    BY <1>3
  <2>4. (Len(queue) + 1) - 1 = Len(queue) /\ Len(queue) + 1 \in Nat \ {0}
    BY <2>2
  <2> QED
    BY <1>1, <1>2, <1>5, <2>2, <2>3, <2>4
<1>6. CASE stream # "open"
  BY <1>1, <1>2, <1>6 DEF Publish
<1> QED
  BY <1>5, <1>6

LEMMA EventStep == ASSUME TypeOK, EventInv, [Next]_vars PROVE EventInv'
<1>1. ClosedIsEmpty'
  <2>1. CASE OnMessage
    BY <2>1, MessageFacts DEF EventInv, ClosedIsEmpty
  <2>2. ASSUME NEW id \in Ids, Change(id) PROVE ClosedIsEmpty'
    BY <2>2 DEF EventInv, ClosedIsEmpty, Change, Publish
  <2> QED
    BY <2>1, <2>2 DEF EventInv, ClosedIsEmpty, Next, Answer, Fetched, FetchFailed, Connect, Drop, Restart,
                      Terminated, vars
<1>2. \A k \in DOMAIN queue : queue[k].id \in Ids /\ queue[k].status \in Statuses
  BY QueueFacts
<1>3. /\ \A id \in Ids : Rank(server[id]) \in 0 .. 2 /\ Rank(entries[id]) \in 0 .. 2
      /\ \A k \in DOMAIN queue : Rank(queue[k].status) \in 0 .. 2
  BY <1>2, Ranks DEF TypeOK
<1>4. ASSUME NEW id \in Ids, Change(id) PROVE EventInv'
  <2>1. UNCHANGED <<entries, restarts, request>>
    BY <1>4 DEF Change
  <2>2. PICK s \in Statuses \ {"absent"} :
            /\ server' = [server EXCEPT ![id] = s] /\ Rank(server[id]) < Rank(s)
            /\ IF stream = "open"
               THEN LET n == Len(queue) + 1 IN
                    /\ DOMAIN queue' = 1 .. n /\ DOMAIN queue = 1 .. n - 1 /\ n \in Nat \ {0}
                    /\ \A k \in DOMAIN queue : queue'[k] = queue[k]
                    /\ queue'[n].id = id /\ queue'[n].status = s
                    /\ queue'[n].newer = ListOnItsWay(id)
               ELSE queue' = queue
    BY <1>4, ChangeFacts
  <2>3. /\ server'[id] = s /\ Rank(s) \in 0 .. 2
        /\ \A x \in Ids : x # id => server'[x] = server[x]
        /\ \A x \in Ids : Rank(server[x]) <= Rank(server'[x])
    BY <1>3, <2>2, Ranks DEF TypeOK
  <2>4. CASE stream = "open"
    <3> DEFINE n == Len(queue) + 1
    <3>1. /\ DOMAIN queue' = 1 .. n /\ DOMAIN queue = 1 .. n - 1 /\ n \in Nat \ {0}
          /\ \A k \in DOMAIN queue : queue'[k] = queue[k]
          /\ queue'[n].id = id /\ queue'[n].status = s
      BY <2>2, <2>4
    <3> HIDE DEF n
    <3>2. n \in DOMAIN queue' /\ \A k \in DOMAIN queue' : k = n \/ (k \in DOMAIN queue /\ k < n)
      BY <3>1
    <3>3. LastIsNewest'
      BY <1>2, <2>3, <3>1, <3>2 DEF EventInv, LastIsNewest
    <3>4. \A k \in DOMAIN queue' : Rank(queue'[k].status) <= Rank(server'[queue'[k].id])
      <4> SUFFICES ASSUME NEW k \in DOMAIN queue' PROVE Rank(queue'[k].status) <= Rank(server'[queue'[k].id])
        OBVIOUS
      <4>1. CASE k = n
        BY <2>3, <3>1, <4>1
      <4>2. CASE k \in DOMAIN queue
        <5>1. /\ queue'[k] = queue[k] /\ queue[k].id \in Ids
              /\ Rank(queue[k].status) <= Rank(server[queue[k].id])
              /\ Rank(server[queue[k].id]) <= Rank(server'[queue[k].id])
          BY <1>2, <2>3, <3>1, <4>2 DEF EventInv, EventsGoForward
        <5>2. Rank(queue[k].status) \in 0 .. 2 /\ Rank(server[queue[k].id]) \in 0 .. 2
          BY <1>3, <4>2, <5>1
        <5>3. Rank(server'[queue[k].id]) \in 0 .. 2
          BY <1>3, <2>3, <5>1
        <5> QED
          BY <5>1, <5>2, <5>3
      <4> QED
        BY <3>2, <4>1, <4>2
    <3>5. \A j, k \in DOMAIN queue' :
             j < k /\ queue'[j].id = queue'[k].id => Rank(queue'[j].status) <= Rank(queue'[k].status)
      <4> SUFFICES ASSUME NEW j \in DOMAIN queue', NEW k \in DOMAIN queue', j < k, queue'[j].id = queue'[k].id
                   PROVE  Rank(queue'[j].status) <= Rank(queue'[k].status)
        OBVIOUS
      <4>1. j \in DOMAIN queue /\ queue'[j] = queue[j]
        BY <3>1, <3>2
      <4>2. CASE k = n
        <5>1. Rank(queue[j].status) <= Rank(server[id])
          BY <3>1, <4>1, <4>2 DEF EventInv, EventsGoForward
        <5> QED
          BY <1>3, <2>2, <2>3, <3>1, <4>1, <4>2, <5>1
      <4>3. CASE k \in DOMAIN queue
        BY <3>1, <4>1, <4>3 DEF EventInv, EventsGoForward
      <4> QED
        BY <3>2, <4>2, <4>3
    <3>6. PageIsBehind'
      <4> SUFFICES ASSUME NEW x \in Ids, restarts = 0, request[EndpointOf[x]] # "done"
                   PROVE  /\ Rank(entries[x]) <= Rank(server'[x])
                          /\ \A k \in DOMAIN queue' : queue'[k].id = x => Rank(entries[x]) <= Rank(queue'[k].status)
        BY <2>1 DEF PageIsBehind
      <4>1. Rank(entries[x]) <= Rank(server[x])
        BY DEF EventInv, PageIsBehind
      <4>2. Rank(server'[x]) \in 0 .. 2 /\ Rank(entries[x]) <= Rank(server'[x])
        BY <1>3, <2>3, <4>1
      <4>3. ASSUME NEW k \in DOMAIN queue', queue'[k].id = x PROVE Rank(entries[x]) <= Rank(queue'[k].status)
        <5>1. CASE k = n
          BY <2>3, <3>1, <4>2, <4>3, <5>1
        <5>2. CASE k \in DOMAIN queue
          BY <3>1, <4>3, <5>2 DEF EventInv, PageIsBehind
        <5> QED
          BY <3>2, <5>1, <5>2
      <4> QED
        BY <4>2, <4>3
    <3> QED
      BY <1>1, <3>3, <3>4, <3>5, <3>6 DEF EventInv, EventsGoForward
  <2>5. CASE stream # "open"
    <3>1. queue' = queue /\ NoEvents(id)
      BY <2>2, <2>5 DEF NoEvents, EventInv, ClosedIsEmpty
    <3>2. LastIsNewest' /\ EventsGoForward'
      BY <1>2, <2>3, <3>1 DEF EventInv, LastIsNewest, EventsGoForward, NoEvents
    <3>3. PageIsBehind'
      BY <1>3, <2>1, <2>3, <3>1 DEF EventInv, PageIsBehind
    <3> QED
      BY <1>1, <3>2, <3>3 DEF EventInv
  <2> QED
    BY <2>4, <2>5
<1>5. CASE OnMessage
  <2>1. /\ queue # <<>> /\ queue' = Tail(queue) /\ UNCHANGED <<server, request, restarts>>
        /\ entries'[Head(queue).id] = Head(queue).status
        /\ \A id \in Ids : id # Head(queue).id => entries'[id] = entries[id]
    BY <1>5, MessageFacts
  <2>2. /\ 1 \in DOMAIN queue /\ Head(queue) = queue[1] /\ DOMAIN queue \subseteq Nat \ {0}
        /\ \A k \in DOMAIN queue' : k + 1 \in DOMAIN queue /\ queue'[k] = queue[k + 1] /\ k \in Nat \ {0}
        /\ \A k \in DOMAIN queue : k # 1 => k - 1 \in DOMAIN queue' /\ queue'[k - 1] = queue[k]
    BY <2>1, QueueFacts, HeadAndTail
  <2>3. LastIsNewest'
    <3> SUFFICES ASSUME NEW k \in DOMAIN queue',
                        \A j \in DOMAIN queue' : j > k => queue'[j].id # queue'[k].id
                 PROVE  queue[k + 1].status = server[queue[k + 1].id]
      BY <2>1, <2>2 DEF LastIsNewest
    <3>1. ASSUME NEW j \in DOMAIN queue, j > k + 1 PROVE queue[j].id # queue[k + 1].id
      <4>1. j - 1 \in DOMAIN queue' /\ queue'[j - 1] = queue[j] /\ j - 1 > k
        BY <2>2, <3>1
      <4> QED
        BY <2>2, <4>1
    <3> QED
      BY <2>2, <3>1 DEF EventInv, LastIsNewest
  <2>4. EventsGoForward'
    <3>1. \A k \in DOMAIN queue' : Rank(queue'[k].status) <= Rank(server[queue'[k].id])
      BY <2>2 DEF EventInv, EventsGoForward
    <3>2. ASSUME NEW j \in DOMAIN queue', NEW k \in DOMAIN queue', j < k, queue'[j].id = queue'[k].id
          PROVE  Rank(queue'[j].status) <= Rank(queue'[k].status)
      <4>1. j + 1 < k + 1 /\ j + 1 \in DOMAIN queue /\ k + 1 \in DOMAIN queue
        BY <2>2, <3>2
      <4> QED
        BY <2>2, <3>2, <4>1 DEF EventInv, EventsGoForward
    <3> QED
      BY <2>1, <3>1, <3>2 DEF EventsGoForward
  <2>5. PageIsBehind'
    <3> SUFFICES ASSUME NEW id \in Ids, restarts = 0, request[EndpointOf[id]] # "done"
                 PROVE  /\ Rank(entries'[id]) <= Rank(server[id])
                        /\ \A k \in DOMAIN queue' : queue'[k].id = id => Rank(entries'[id]) <= Rank(queue'[k].status)
      BY <2>1 DEF PageIsBehind
    <3>1. CASE id = queue[1].id
      <4>1. entries'[id] = queue[1].status
        BY <2>1, <2>2, <3>1
      <4>2. Rank(queue[1].status) <= Rank(server[id])
        BY <2>2, <3>1 DEF EventInv, EventsGoForward
      <4>3. ASSUME NEW k \in DOMAIN queue', queue'[k].id = id
            PROVE  Rank(queue[1].status) <= Rank(queue'[k].status)
        <5>1. 1 < k + 1 /\ k + 1 \in DOMAIN queue /\ queue[k + 1].id = queue[1].id
          BY <2>2, <3>1, <4>3
        <5> QED
          BY <2>2, <5>1 DEF EventInv, EventsGoForward
      <4> QED
        BY <4>1, <4>2, <4>3
    <3>2. CASE id # queue[1].id
      BY <2>1, <2>2, <3>2 DEF EventInv, PageIsBehind
    <3> QED
      BY <3>1, <3>2
  <2> QED
    BY <1>1, <2>3, <2>4, <2>5 DEF EventInv
<1>6. CASE Drop \/ Restart
  <2>1. DOMAIN queue' = {}
    BY <1>6 DEF Drop, Restart
  <2>2. PageIsBehind'
    <3>1. CASE Drop
      BY <2>1, <3>1 DEF Drop, EventInv, PageIsBehind
    <3>2. CASE Restart
      <4>1. restarts' # 0
        BY <3>2 DEF Restart, TypeOK
      <4> QED
        BY <4>1 DEF PageIsBehind
    <3> QED
      BY <1>6, <3>1, <3>2
  <2>3. LastIsNewest' /\ EventsGoForward'
    BY <2>1 DEF LastIsNewest, EventsGoForward
  <2> QED
    BY <1>1, <2>2, <2>3 DEF EventInv
<1>7. ASSUME NEW ep \in Endpoints, Answer(ep) \/ FetchFailed(ep) \/ Fetched(ep) PROVE EventInv'
  <2>1. UNCHANGED <<server, queue, restarts>>
    BY <1>7 DEF Answer, FetchFailed, Fetched
  <2>2. \A id \in Ids : request'[EndpointOf[id]] # "done" =>
           request[EndpointOf[id]] # "done" /\ entries'[id] = entries[id]
    <3>1. CASE Answer(ep)
      BY <3>1 DEF Answer, TypeOK
    <3>2. CASE FetchFailed(ep)
      BY <3>2 DEF FetchFailed, TypeOK
    <3>3. CASE Fetched(ep)
      BY <3>3, FetchedFacts DEF TypeOK
    <3> QED
      BY <1>7, <3>1, <3>2, <3>3
  <2>3. PageIsBehind'
    BY <2>1, <2>2 DEF EventInv, PageIsBehind
  <2>4. LastIsNewest' /\ EventsGoForward'
    BY <2>1 DEF EventInv, LastIsNewest, EventsGoForward
  <2> QED
    BY <1>1, <2>3, <2>4 DEF EventInv
<1>8. CASE UNCHANGED <<server, queue, restarts, request, entries>>
  BY <1>1, <1>8 DEF EventInv, LastIsNewest, EventsGoForward, PageIsBehind
<1> QED
  BY <1>4, <1>5, <1>6, <1>7, <1>8 DEF Next, Connect, Terminated, vars

LEMMA EventsHold == Spec => [](TypeOK /\ EventInv)
<1>1. Init => EventInv
  <2> SUFFICES ASSUME Init PROVE EventInv
    OBVIOUS
  <2>1. DOMAIN queue = {} /\ \A id \in Ids : entries[id] = "absent" /\ server[id] \in Statuses
    BY DEF Init
  <2>2. \A id \in Ids : Rank(entries[id]) <= Rank(server[id])
    BY <2>1, Ranks
  <2> QED
    BY <2>1, <2>2 DEF Init, EventInv, LastIsNewest, EventsGoForward, PageIsBehind, ClosedIsEmpty
<1> QED
  BY <1>1, EventStep, TypeCorrect, PTL DEF Spec

\* Until its list has been saved, or the server is restarted, an entry of the page
\* never goes back, say from ok to pending, however often the stream breaks
\* (store.ts:51).
THEOREM EntriesGoForward == Spec => ForwardBeforeLists
<1>1. ASSUME TypeOK, EventInv, [Next]_vars, NEW id \in Ids, restarts = 0,
             request[EndpointOf[id]] # "done", request'[EndpointOf[id]] # "done"
      PROVE  Rank(entries'[id]) >= Rank(entries[id])
  <2>1. Rank(entries[id]) \in 0 .. 2
    BY <1>1, Ranks DEF TypeOK
  <2>2. CASE OnMessage
    <3>1. CASE id = Head(queue).id
      <4>1. entries'[id] = queue[1].status /\ 1 \in DOMAIN queue /\ queue[1].id = id
        BY <1>1, <2>2, <3>1, MessageFacts, QueueFacts, HeadAndTail
      <4>2. Rank(entries[id]) <= Rank(queue[1].status)
        BY <1>1, <4>1 DEF EventInv, PageIsBehind
      <4>3. Rank(queue[1].status) \in 0 .. 2
        BY <1>1, <4>1, QueueFacts, Ranks
      <4> QED
        BY <2>1, <4>1, <4>2, <4>3
    <3>2. CASE id # Head(queue).id
      BY <1>1, <2>1, <2>2, <3>2, MessageFacts
    <3> QED
      BY <3>1, <3>2
  <2>3. ASSUME NEW ep \in Endpoints, Fetched(ep) PROVE Rank(entries'[id]) >= Rank(entries[id])
    <3>1. EndpointOf[id] # ep
      BY <1>1, <2>3, FetchedFacts DEF TypeOK
    <3> QED
      BY <1>1, <2>1, <2>3, <3>1, FetchedFacts
  <2>4. CASE UNCHANGED entries
    BY <2>1, <2>4
  <2> QED
    BY <1>1, <2>2, <2>3, <2>4 DEF Next, Change, Answer, FetchFailed, Connect, Drop, Restart, Terminated, vars
<1>2. TypeOK /\ EventInv /\ [Next]_vars =>
         [\A id \in Ids : restarts = 0 /\ request[EndpointOf[id]] # "done" /\ request'[EndpointOf[id]] # "done"
              => Rank(entries'[id]) >= Rank(entries[id])]_vars
  BY <1>1
<1> QED
  BY <1>2, EventsHold, PTL DEF Spec, ForwardBeforeLists

-----------------------------------------------------------------------------
(***************************************************************************)
(* What the page knows when nothing is on its way.                         *)
(***************************************************************************)

\* A snapshot that the server does not know of is not on the page, if the page may
\* rely on what it knows, or has not asked yet.
AbsentIsNotShown ==
    \A id \in Ids : server[id] = "absent" =>
        /\ id \in informed \/ request[EndpointOf[id]] = "sent" => entries[id] = "absent"
        /\ id \notin overtaken

\* Without a list and without events on their way the page is current.
QuietIsCurrent ==
    \A id \in informed \ overtaken :
        ~ListOnItsWay(id) /\ NoEvents(id) => entries[id] = server[id]

\* A list on its way is current unless a newer event is on its way too.
ListIsCurrent ==
    \A id \in informed \ overtaken :
        /\ ListOnItsWay(id)
        /\ \A k \in DOMAIN queue : queue[k].id = id => ~queue[k].newer
        => response[EndpointOf[id]][id] = server[id]

PageInv == AbsentIsNotShown /\ QuietIsCurrent /\ ListIsCurrent

LEMMA PageStep == ASSUME TypeOK, EventInv, PageInv, [Next]_vars PROVE PageInv'
<1>0. informed \subseteq Ids /\ overtaken \subseteq Ids
  BY DEF TypeOK
<1>1. ASSUME NEW id \in Ids, Change(id) PROVE PageInv'
  <2>1. /\ UNCHANGED <<entries, request, response, overtaken>>
        /\ informed' = IF stream = "open" THEN informed \cup {id} ELSE informed \ {id}
    BY <1>1 DEF Change
  <2>2. PICK s \in Statuses \ {"absent"} :
            /\ server' = [server EXCEPT ![id] = s] /\ Rank(server[id]) < Rank(s)
            /\ IF stream = "open"
               THEN LET n == Len(queue) + 1 IN
                    /\ DOMAIN queue' = 1 .. n /\ DOMAIN queue = 1 .. n - 1 /\ n \in Nat \ {0}
                    /\ \A k \in DOMAIN queue : queue'[k] = queue[k]
                    /\ queue'[n].id = id /\ queue'[n].status = s
                    /\ queue'[n].newer = ListOnItsWay(id)
               ELSE queue' = queue
    BY <1>1, ChangeFacts
  <2>3. server'[id] # "absent" /\ \A x \in Ids : x # id => server'[x] = server[x]
    BY <2>2 DEF TypeOK
  <2>4. /\ \A k \in DOMAIN queue : k \in DOMAIN queue' /\ queue'[k] = queue[k]
        /\ stream = "open" => \E k \in DOMAIN queue' : queue'[k].id = id /\ queue'[k].newer = ListOnItsWay(id)
    <3>1. CASE stream = "open"
      <4> DEFINE n == Len(queue) + 1
      <4>1. /\ DOMAIN queue' = 1 .. n /\ DOMAIN queue = 1 .. n - 1 /\ n \in Nat \ {0}
            /\ \A k \in DOMAIN queue : queue'[k] = queue[k]
            /\ queue'[n].id = id /\ queue'[n].newer = ListOnItsWay(id)
        BY <2>2, <3>1
      <4> HIDE DEF n
      <4>2. n \in DOMAIN queue' /\ \A k \in DOMAIN queue : k \in DOMAIN queue'
        BY <4>1
      <4> QED
        BY <4>1, <4>2
    <3> QED
      BY <2>2, <3>1
  <2>5. \A x : ListOnItsWay(x)' <=> ListOnItsWay(x)
    BY <2>1 DEF ListOnItsWay
  <2>6. AbsentIsNotShown'
    BY <1>0, <2>1, <2>3 DEF PageInv, AbsentIsNotShown
  <2>7. QuietIsCurrent'
    <3> SUFFICES ASSUME NEW x \in informed' \ overtaken, ~ListOnItsWay(x), NoEvents(x)'
                 PROVE  entries[x] = server'[x]
      BY <2>1, <2>5 DEF QuietIsCurrent
    <3>1. NoEvents(x)
      BY <2>4 DEF NoEvents
    <3>2. x # id
      BY <2>1, <2>4 DEF NoEvents
    <3> QED
      BY <1>0, <2>1, <2>3, <3>1, <3>2 DEF PageInv, QuietIsCurrent
  <2>8. ListIsCurrent'
    <3> SUFFICES ASSUME NEW x \in informed' \ overtaken, ListOnItsWay(x),
                        \A k \in DOMAIN queue' : queue'[k].id = x => ~queue'[k].newer
                 PROVE  response[EndpointOf[x]][x] = server'[x]
      BY <2>1, <2>5 DEF ListIsCurrent
    <3>1. x # id
      BY <2>1, <2>4
    <3> QED
      BY <1>0, <2>1, <2>3, <2>4, <3>1 DEF PageInv, ListIsCurrent
  <2> QED
    BY <2>6, <2>7, <2>8 DEF PageInv
<1>2. ASSUME NEW ep \in Endpoints, Answer(ep) PROVE PageInv'
  <2>1. /\ UNCHANGED <<server, queue, entries, overtaken>>
        /\ request[ep] = "sent" /\ request'[ep] = "answered" /\ informed' = informed \cup Of(ep)
        /\ \A e \in Endpoints : e # ep => request'[e] = request[e] /\ response'[e] = response[e]
        /\ response'[ep] = [id \in Of(ep) |-> server[id]]
    BY <1>2 DEF Answer, TypeOK
  <2> QED
    BY <1>0, <2>1
       DEF PageInv, AbsentIsNotShown, QuietIsCurrent, ListIsCurrent, NoEvents, ListOnItsWay, Of
<1>3. ASSUME NEW ep \in Endpoints, Fetched(ep) PROVE PageInv'
  <2>1. /\ UNCHANGED <<server, queue, response, informed, overtaken>>
        /\ request[ep] = "answered" /\ request'[ep] = "done"
        /\ \A e \in Endpoints : e # ep => request'[e] = request[e]
        /\ \A id \in Ids : EndpointOf[id] # ep => entries'[id] = entries[id]
        /\ \A id \in Ids : EndpointOf[id] = ep =>
              entries'[id] = IF response[ep][id] = "absent" THEN entries[id] ELSE response[ep][id]
    BY <1>3, FetchedFacts DEF TypeOK
  <2>2. ASSUME NEW id \in informed \ overtaken, EndpointOf[id] = ep, NoEvents(id)
        PROVE  entries'[id] = server[id]
    <3>1. response[ep][id] = server[id]
      BY <2>1, <2>2 DEF PageInv, ListIsCurrent, ListOnItsWay, NoEvents
    <3>2. server[id] = "absent" => entries[id] = "absent"
      BY <1>0, <2>2 DEF PageInv, AbsentIsNotShown
    <3> QED
      BY <1>0, <2>1, <2>2, <3>1, <3>2
  <2>3. QuietIsCurrent'
    BY <1>0, <2>1, <2>2 DEF PageInv, QuietIsCurrent, NoEvents, ListOnItsWay
  <2>4. ListIsCurrent'
    BY <1>0, <2>1 DEF PageInv, ListIsCurrent, ListOnItsWay
  <2>5. AbsentIsNotShown'
    <3> SUFFICES ASSUME NEW id \in Ids, server[id] = "absent"
                 PROVE  /\ id \in informed \/ request'[EndpointOf[id]] = "sent" => entries'[id] = "absent"
                        /\ id \notin overtaken
      BY <2>1 DEF AbsentIsNotShown
    <3>1. id \notin overtaken /\ NoEvents(id)
      BY AbsentHasNoEvents DEF PageInv, AbsentIsNotShown
    <3>2. CASE EndpointOf[id] = ep
      BY <2>1, <2>2, <3>1, <3>2
    <3>3. CASE EndpointOf[id] # ep
      BY <2>1, <3>1, <3>3 DEF PageInv, AbsentIsNotShown
    <3> QED
      BY <3>2, <3>3
  <2> QED
    BY <2>3, <2>4, <2>5 DEF PageInv
<1>4. ASSUME NEW ep \in Endpoints, FetchFailed(ep) PROVE PageInv'
  <2>1. /\ UNCHANGED <<server, queue, entries, response, informed, overtaken>>
        /\ request[ep] = "sent" /\ request'[ep] = "done"
        /\ \A e \in Endpoints : e # ep => request'[e] = request[e]
    BY <1>4 DEF FetchFailed, TypeOK
  <2> QED
    BY <1>0, <2>1
       DEF PageInv, AbsentIsNotShown, QuietIsCurrent, ListIsCurrent, NoEvents, ListOnItsWay
<1>5. CASE Drop
  <2>1. /\ UNCHANGED <<server, entries, request, response, overtaken>> /\ DOMAIN queue' = {}
        /\ informed' = informed \ {ev.id : ev \in {x \in ToSet(queue) : ListOnItsWay(x.id) => x.newer}}
    BY <1>5 DEF Drop
  <2>2. ASSUME NEW id \in informed', NEW k \in DOMAIN queue, queue[k].id = id
        PROVE  ListOnItsWay(id) /\ ~queue[k].newer
    <3>1. queue[k] \in ToSet(queue)
      BY DEF ToSet
    <3> QED
      BY <2>1, <2>2, <3>1
  <2>3. informed' \subseteq informed
    BY <2>1
  <2>4. AbsentIsNotShown'
    BY <2>1, <2>3 DEF PageInv, AbsentIsNotShown
  <2>5. QuietIsCurrent' /\ ListIsCurrent'
    BY <1>0, <2>1, <2>2, <2>3 DEF PageInv, QuietIsCurrent, ListIsCurrent, NoEvents, ListOnItsWay
  <2> QED
    BY <2>4, <2>5 DEF PageInv
<1>6. CASE Restart
  <2>1. PICK received \in SUBSET {ep \in Endpoints : request[ep] = "answered"} :
            /\ request' = [ep \in Endpoints |-> IF ep \in received THEN "answered" ELSE "done"]
            /\ informed' = {id \in Ids : entries[id] = "absent" /\ EndpointOf[id] \notin received}
    BY <1>6 DEF Restart
  <2>2. UNCHANGED <<entries, response>> /\ overtaken' = {} /\ \A id \in Ids : server'[id] = "absent"
    BY <1>6 DEF Restart
  <2> QED
    BY <2>1, <2>2 DEF PageInv, AbsentIsNotShown, QuietIsCurrent, ListIsCurrent, ListOnItsWay
<1>7. CASE OnMessage
  <2>1. PICK ev \in Event : ev = Head(queue)
    BY <1>7, MessageFacts
  <2>2. /\ queue' = Tail(queue) /\ UNCHANGED <<server, request, response, informed>>
        /\ entries'[ev.id] = ev.status /\ \A id \in Ids : id # ev.id => entries'[id] = entries[id]
        /\ overtaken' = IF ListOnItsWay(ev.id) /\ ev.newer THEN overtaken \cup {ev.id}
                        ELSE IF ListOnItsWay(ev.id) THEN overtaken
                        ELSE overtaken \ {ev.id}
    BY <1>7, <2>1, MessageFacts DEF OnMessage
  <2>3. /\ 1 \in DOMAIN queue /\ ev = queue[1] /\ DOMAIN queue \subseteq Nat \ {0}
        /\ \A k \in DOMAIN queue : k # 1 => k - 1 \in DOMAIN queue' /\ queue'[k - 1] = queue[k]
    BY <1>7, <2>1, <2>2, MessageFacts, QueueFacts, HeadAndTail
  <2>4. \A id : ListOnItsWay(id)' <=> ListOnItsWay(id)
    BY <2>2 DEF ListOnItsWay
  <2>5. ev.id \in Ids /\ server[ev.id] # "absent"
    BY <2>3, AbsentHasNoEvents, QueueFacts DEF NoEvents
  <2>6. AbsentIsNotShown'
    BY <2>2, <2>5 DEF PageInv, AbsentIsNotShown
  <2>7. NoEvents(ev.id)' => ev.status = server[ev.id]
    BY <2>3 DEF EventInv, LastIsNewest, NoEvents
  <2>8. \A id \in Ids : id # ev.id /\ NoEvents(id)' => NoEvents(id)
    BY <2>3 DEF NoEvents
  <2>9. QuietIsCurrent'
    BY <1>0, <2>2, <2>4, <2>7, <2>8 DEF PageInv, QuietIsCurrent
  <2>10. ListIsCurrent'
    <3> SUFFICES ASSUME NEW id \in informed \ overtaken', ListOnItsWay(id),
                        \A k \in DOMAIN queue' : queue'[k].id = id => ~queue'[k].newer
                 PROVE  response[EndpointOf[id]][id] = server[id]
      BY <2>2, <2>4 DEF ListIsCurrent
    <3>1. id \notin overtaken /\ ~(id = ev.id /\ ev.newer)
      BY <2>2
    <3>2. \A k \in DOMAIN queue : queue[k].id = id => ~queue[k].newer
      BY <2>3, <3>1
    <3> QED
      BY <3>1, <3>2 DEF PageInv, ListIsCurrent
  <2> QED
    BY <2>6, <2>9, <2>10 DEF PageInv
<1>8. CASE UNCHANGED <<server, queue, request, response, entries, informed, overtaken>>
  BY <1>8 DEF PageInv, AbsentIsNotShown, QuietIsCurrent, ListIsCurrent, NoEvents, ListOnItsWay
<1> QED
  BY <1>1, <1>2, <1>3, <1>4, <1>5, <1>6, <1>7, <1>8 DEF Next, Connect, Terminated, vars

\* When nothing is on its way the page shows what the server has, unless the newest
\* event was lost with its stream or overtaken by an older list (store.ts:108).
THEOREM PageAtRestIsCurrent == Spec => []AtRestIsCurrent
<1>1. Init => PageInv
  BY DEF Init, PageInv, AbsentIsNotShown, QuietIsCurrent, ListIsCurrent, ListOnItsWay
<1>2. PageInv /\ TypeOK => AtRestIsCurrent
  <2> SUFFICES ASSUME PageInv, TypeOK, AtRest, NEW id \in informed \ overtaken PROVE entries[id] = server[id]
    BY DEF AtRestIsCurrent
  <2>1. ~ListOnItsWay(id) /\ NoEvents(id)
    BY DEF AtRest, ListOnItsWay, NoEvents, TypeOK
  <2> QED
    BY <2>1 DEF PageInv, QuietIsCurrent
<1> QED
  BY <1>1, <1>2, PageStep, EventsHold, PTL DEF Spec

=============================================================================
