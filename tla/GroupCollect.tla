----------------------------- MODULE GroupCollect -----------------------------
(***************************************************************************)
(* internal/collect/group: GET /api/group/collect asks every target of     *)
(* targets.json to collect, through the program's own HTTP interface, and  *)
(* the notifier waits for the results.  This module composes the requests, *)
(* the collections they start and the notifier (SlackNotifier):            *)
(*                                                                         *)
(*    collectAll --Expect--> notifier <--Report-- hook of a collection     *)
(*        |                     ^                        ^                 *)
(*        +--- POST per target -+-- Report if it fails   |                 *)
(*                  +------------- starts a collection --+                 *)
(*                                                                         *)
(* A collection is only what the notifier sees of it, its outcome; module  *)
(* Collector has its steps.  Requests by other clients go to the same      *)
(* handlers, outside any group.                                            *)
(***************************************************************************)
EXTENDS Naturals, Sequences, FiniteSets, Functions

CONSTANTS
    Targets,        \* the (Type, Label) pairs
    TargetsFile,    \* the sequence of the (Type, Label) pairs in targets.json
    HandlerOf,      \* HandlerOf[t]: what answers POST /api/<Type>: "async" (pprof,
                    \* httplog, slowlog), "memo" or "none"
    Collections,    \* calls of collectAll
    GroupIdOf,      \* GroupIdOf[c]: the group id call c takes from the clock
    Groups,         \* group ids
    NoGroup,        \* the empty group id
    None,           \* no entry in the notifier's map
    Direct,         \* requests by other clients
    DirectTarget,   \* DirectTarget[d]: the type a direct request is for
    AnswersLost,    \* TRUE: the answer to an accepted request may be lost
    EmptyRequests   \* TRUE: direct requests may have no URL or no duration

\* The requests of call c, one per entry of targets.json, and the direct ones.
RequestsOf(c) == {c} \X DOMAIN TargetsFile
Requests == (UNION {RequestsOf(c) : c \in Collections}) \cup Direct

TargetOf(q) == IF q \in Direct THEN DirectTarget[q] ELSE TargetsFile[q[2]]
GroupOfRequest(q) == IF q \in Direct THEN NoGroup ELSE GroupIdOf[q[1]]

ASSUME GroupCollectAssumption ==
    /\ IsFiniteSet(Targets)
    /\ TargetsFile \in Seq(Targets)
    /\ GroupIdOf \in [Collections -> Groups]
    /\ NoGroup \notin Groups
    /\ None \notin Collections
    /\ \A c \in Collections : Direct \cap RequestsOf(c) = {}
    /\ HandlerOf \in [Targets -> {"async", "memo", "none"}]
    /\ DirectTarget \in [Direct -> Targets]
    /\ AnswersLost \in BOOLEAN
    /\ EmptyRequests \in BOOLEAN

\* A request may be reported by the hook of its collection, and by collectAll.
HookReport(q)  == <<q, "hook">>
ProxyReport(q) == <<q, "proxy">>
Reports == Requests \X {"hook", "proxy"}

\* The calls of Expect and Report, as SlackNotifier names them.
ExpectLists == {TargetsFile}
GroupOfReport == [r \in Reports |-> GroupOfRequest(r[1])]
TargetOfReport == [r \in Reports |-> TargetOf(r[1])]

VARIABLES
    groups, expected, results, sent, timer, expectPc, reportPc, status,
    outbox, summaries, counted,     \* the notifier
    collectPc,  \* collectPc[c]: "idle", "expect", "requests" or "answered"
    answer,     \* answer[c]: "none", "200" or "500"
    request,    \* request[q]: "idle", "accepted", "waiting", "ok", "failed" or
                \* "reported"
    collection, \* collection[q]: "none", "running", "ok", "fail" or "rejected"
    lost        \* history: the requests whose answer has been lost

notifierVars == <<groups, expected, results, sent, timer, expectPc, reportPc,
                  status, outbox, summaries, counted>>
requestVars == <<collectPc, answer, request, collection, lost>>
vars == <<notifierVars, requestVars>>

Notifier == INSTANCE SlackNotifier WITH
    Expectations   <- Collections,
    GroupOf        <- GroupIdOf,
    TargetLists    <- ExpectLists,
    TimerMayWin    <- FALSE

Init ==
    /\ Notifier!Init
    /\ collectPc = [c \in Collections |-> "idle"]
    /\ answer = [c \in Collections |-> "none"]
    /\ request = [q \in Requests |-> "idle"]
    /\ collection = [q \in Requests |-> "none"]
    /\ lost = {}

\* Report(Result{..., Status: s}) is called.
CallReport(r, s) == Notifier!ReportStart(r) /\ status'[r] = s

-----------------------------------------------------------------------------
(***************************************************************************)
(* collectAll.                                                             *)
(***************************************************************************)

\* targets.json is read and parsed, or the answer is an error.
ReadTargets(c) ==
    /\ collectPc[c] = "idle"
    /\ \/ /\ collectPc' = [collectPc EXCEPT ![c] = "expect"]
          /\ UNCHANGED answer
       \/ /\ collectPc' = [collectPc EXCEPT ![c] = "answered"]
          /\ answer' = [answer EXCEPT ![c] = "500"]
    /\ UNCHANGED <<notifierVars, request, collection, lost>>

\* notifier.Expect, which has returned before the first request is sent.
Expect(c) ==
    /\ collectPc[c] = "expect"
    /\ \/ /\ Notifier!Expect(c)
          /\ UNCHANGED collectPc
       \/ /\ expectPc[c] = "done"
          /\ collectPc' = [collectPc EXCEPT ![c] = "requests"]
          /\ UNCHANGED notifierVars
    /\ UNCHANGED <<answer, request, collection, lost>>

\* eg.Wait: every request has been answered, and reported if that failed.
Finished(q) ==
    \/ request[q] = "ok"
    \/ request[q] = "reported" /\ reportPc[ProxyReport(q)] = "done"

Answer(c) ==
    /\ collectPc[c] = "requests"
    /\ \A q \in RequestsOf(c) : Finished(q)
    /\ collectPc' = [collectPc EXCEPT ![c] = "answered"]
    /\ answer' = [answer EXCEPT ![c] =
                    IF \A q \in RequestsOf(c) : request[q] = "ok" THEN "200" ELSE "500"]
    /\ UNCHANGED <<notifierVars, request, collection, lost>>

-----------------------------------------------------------------------------
(***************************************************************************)
(* makeInternalRequest and the handlers it reaches (postIndex).            *)
(***************************************************************************)

MaySend(q) ==
    /\ request[q] = "idle"
    /\ q \notin Direct => collectPc[q[1]] = "requests"

\* The server has a handler for POST /api/<Type>.
Registered(q) == HandlerOf[TargetOf(q)] # "none"

\* The handler has started the collection in the background and answers 200; a
\* memo is added before it is answered.
Accept(q) ==
    /\ MaySend(q)
    /\ Registered(q)
    /\ collection' = [collection EXCEPT ![q] = "running"]
    /\ request' = [request EXCEPT ![q] =
                     IF HandlerOf[TargetOf(q)] = "memo" THEN "waiting" ELSE "accepted"]
    /\ UNCHANGED <<notifierVars, collectPc, answer, lost>>

\* The request is not sent, not understood, or there is no such handler.  Nothing
\* comes of it if it is another client's.
Refuse(q) ==
    /\ MaySend(q)
    /\ q \notin Direct
    /\ request' = [request EXCEPT ![q] = "failed"]
    /\ UNCHANGED <<notifierVars, collectPc, answer, collection, lost>>

\* A mutant for which every answer is an error.
MutAnswered(q) ==
    /\ q \notin Direct
    /\ \/ request[q] = "accepted"
       \/ request[q] = "waiting" /\ reportPc[HookReport(q)] = "done"
    /\ request' = [request EXCEPT ![q] = "failed"]
    /\ UNCHANGED <<notifierVars, collectPc, answer, collection, lost>>

\* The answer to a request of collectAll arrives.  Only 200 counts: a memo is
\* answered with 202 (or 400), after its collection has ended.
Answered(q) ==
    /\ q \notin Direct
    /\ \/ /\ request[q] = "accepted"
          /\ \/ /\ request' = [request EXCEPT ![q] = "ok"]
                /\ UNCHANGED lost
             \/ /\ AnswersLost
                /\ request' = [request EXCEPT ![q] = "failed"]
                /\ lost' = lost \cup {q}
       \/ /\ request[q] = "waiting"
          /\ collection[q] \in {"ok", "fail"}
          /\ reportPc[HookReport(q)] = "done"
          /\ request' = [request EXCEPT ![q] = "failed"]
          /\ UNCHANGED lost
    /\ UNCHANGED <<notifierVars, collectPc, answer, collection>>

\* A mutant that leaves a failed request to the timeout of the group.
MutReportFailure(q) ==
    /\ request[q] = "failed"
    /\ request' = [request EXCEPT ![q] = "ok"]
    /\ UNCHANGED <<notifierVars, collectPc, answer, collection, lost>>

\* "The collector never sees this target, so report on its behalf."
ReportFailure(q) ==
    /\ request[q] = "failed"
    /\ CallReport(ProxyReport(q), "fail")
    /\ request' = [request EXCEPT ![q] = "reported"]
    /\ UNCHANGED <<collectPc, answer, collection, lost>>

-----------------------------------------------------------------------------
(***************************************************************************)
(* Collections.  The hook of main.go passes the outcome to the notifier.   *)
(***************************************************************************)

\* A mutant of the hook that reports every collection that has ended as ok.
MutSettleOk(q, outcome) ==
    /\ collection[q] = "running"
    /\ collection' = [collection EXCEPT ![q] = outcome]
    /\ CallReport(HookReport(q), "ok")
    /\ UNCHANGED <<collectPc, answer, request, lost>>

\* A mutant with a status of its own for failures.
MutSettleStatus(q, outcome) ==
    /\ collection[q] = "running"
    /\ collection' = [collection EXCEPT ![q] = IF outcome = "ok" THEN "ok" ELSE "error"]
    /\ CallReport(HookReport(q), outcome)
    /\ UNCHANGED <<collectPc, answer, request, lost>>

Settle(q, outcome) ==
    /\ collection[q] = "running"
    /\ collection' = [collection EXCEPT ![q] = outcome]
    /\ CallReport(HookReport(q), outcome)
    /\ UNCHANGED <<collectPc, answer, request, lost>>

\* Collect returns at once if it has no URL or no duration.  The validator keeps
\* such entries out of targets.json.
Reject(q) ==
    /\ EmptyRequests
    /\ q \in Direct
    /\ HandlerOf[TargetOf(q)] = "async"
    /\ collection[q] = "running"
    /\ collection' = [collection EXCEPT ![q] = "rejected"]
    /\ UNCHANGED <<notifierVars, collectPc, answer, request, lost>>

-----------------------------------------------------------------------------

\* What the notifier does by itself.
NotifierStep ==
    /\ \/ \E c \in Collections : Notifier!Timer(c)
       \/ \E r \in Reports : Notifier!ReportRecord(r) \/ Notifier!ReportFlush(r)
       \/ \E m \in Notifier!Posts : Notifier!Post(m)
    /\ UNCHANGED requestVars

RequestStep(q) == Answered(q) \/ ReportFailure(q)
CollectStep(c) == ReadTargets(c) \/ Expect(c) \/ Answer(c)

\* Nothing is left to do, except for targets that never answer.
Quiescent ==
    /\ \A c \in Collections : collectPc[c] = "answered"
    /\ \A q \in Requests :
          /\ collection[q] # "running"
          /\ request[q] \in {"idle", "ok", "reported"} \/ q \in Direct
    /\ \A c \in Collections : timer[c] \in {"unset", "done"}
    /\ \A r \in Reports : reportPc[r] \in {"idle", "done"}
    /\ outbox = {}

Terminated == Quiescent /\ UNCHANGED vars

Next ==
    \/ \E c \in Collections : CollectStep(c)
    \/ \E q \in Requests :
          \/ Accept(q) \/ Refuse(q) \/ RequestStep(q) \/ Reject(q)
          \/ \E outcome \in {"ok", "fail"} : Settle(q, outcome)
    \/ NotifierStep
    \/ Terminated

Spec == Init /\ [][Next]_vars

(***************************************************************************)
(* Fairness: the goroutines of collectAll and of the notifier go on, a     *)
(* request to the program itself is answered, a timer fires.  A collection *)
(* may never end (snapshot.go:70), other clients need not ask anything.    *)
(***************************************************************************)
FairSpec ==
    /\ Spec
    /\ \A c \in Collections :
          /\ WF_vars(Expect(c)) /\ WF_vars(Answer(c))
          /\ WF_vars(Notifier!Timer(c) /\ UNCHANGED requestVars)
    /\ \A q \in Requests :
          /\ WF_vars(q \notin Direct /\ (Accept(q) \/ Refuse(q)))
          /\ WF_vars(RequestStep(q))
    /\ \A r \in Reports :
          /\ WF_vars(Notifier!ReportRecord(r) /\ UNCHANGED requestVars)
          /\ WF_vars(Notifier!ReportFlush(r) /\ UNCHANGED requestVars)

-----------------------------------------------------------------------------
(***************************************************************************)
(* Properties.                                                             *)
(***************************************************************************)

TypeOK ==
    /\ Notifier!TypeOK
    /\ collectPc \in [Collections -> {"idle", "expect", "requests", "answered"}]
    /\ answer \in [Collections -> {"none", "200", "500"}]
    /\ request \in [Requests -> {"idle", "accepted", "waiting", "ok", "failed", "reported"}]
    /\ collection \in [Requests -> {"none", "running", "ok", "fail", "rejected"}]
    /\ lost \subseteq Requests

\* A summary with a check mark tells the truth: every target of the group has
\* been collected and processed.  It goes through the request, the collection,
\* the hook, the notifier's map and the timer.
CheckMarkIsTrue ==
    \A c \in Collections : \A i \in DOMAIN summaries[c] :
        ~Notifier!Warns(summaries[c][i]) => \A q \in RequestsOf(c) : collection[q] = "ok"

\* The messages sent about the failure of a request.
Told(q) == {r \in {HookReport(q), ProxyReport(q)} : status[r] = "fail"}

\* "A failure: one message, there and then" (README.md:35): not two for one
\* collection, one by the hook and one on its behalf, unless collectAll cannot know
\* that there is a collection, or does not accept its answer (a memo's 202).
FailureToldOnce ==
    \A q \in Requests :
        q \notin lost /\ HandlerOf[TargetOf(q)] # "memo" => Cardinality(Told(q)) <= 1

\* The requests that have failed, or whose collection has.
Failures ==
    {q \in Requests : collection[q] = "fail" \/ request[q] \in {"failed", "reported"}}

\* And not none: again and again, all that could not be asked, or did not succeed,
\* inside a group or not, have been told (README.md:35).
FailureTold == []<>(\A q \in Failures : Told(q) # {})

\* The same of every collection that was accepted and then dropped (README.md:7).
RejectionTold == []<>(\A q \in Requests : collection[q] = "rejected" => Told(q) # {})

\* A failed request shows in the group at once, instead of leaving the summary
\* waiting for the timeout (group/collector.go:110): when the request for the group
\* has been answered, no collection of it runs and no report is on its way, the
\* summary has been sent, whether or not the timer has fired.
SettledGroupIsSummarised ==
    \A c \in Collections :
        (/\ collectPc[c] = "answered"
         /\ expected[c] # {}
         /\ \A q \in RequestsOf(c) : collection[q] # "running"
         /\ \A r \in Reports : reportPc[r] \in {"idle", "done"})
            => summaries[c] # <<>>

\* Whatever hangs, a group that is collected is summarised, once it is expected.
EveryGroupIsSummarised ==
    \A c \in Collections :
        (collectPc[c] = "requests" /\ TargetsFile # <<>>) ~> summaries[c] # <<>>

\* "The summary is sent once every target has reported, or when the timeout
\* elapses" (slack.go:107): the notifier implements GroupSummary, its liveness
\* included, under the fairness of the group collection.
ImplementsGroupSummary == Notifier!ImplementsGroupSummary

=============================================================================
