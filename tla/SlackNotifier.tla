---------------------------- MODULE SlackNotifier ----------------------------
(***************************************************************************)
(* internal/notify/slack.go: the notifier that posts one message per       *)
(* failed collection and one summary per group collection.                 *)
(*                                                                         *)
(* Each call of Expect and of Report runs in a goroutine of its own, and   *)
(* so do the timer callbacks and the posts to the webhook.  They share the *)
(* map s.groups under the mutex s.mu; every critical section is one action *)
(* here, and whatever can happen between two of them is an interleaving.   *)
(*                                                                         *)
(* A call of Expect allocates one *groupState, which therefore carries the *)
(* name of the call: expected[e], results[e], sent[e] and timer[e] are the *)
(* fields of the state that call e allocated, groups[g] is the state the   *)
(* map holds under g.  Two calls may use the same group id.                *)
(***************************************************************************)
EXTENDS Naturals, Sequences, FiniteSets, Functions

CONSTANTS
    Groups,         \* group ids, without the empty one
    NoGroup,        \* the empty group id ""
    None,           \* no entry in the map
    Targets,        \* the (Type, Label) pairs
    Expectations,   \* calls of Expect
    GroupOf,        \* GroupOf[e]: the group id call e is for
    TargetLists,    \* the lists of targets a call of Expect may be given
    Reports,        \* calls of Report
    GroupOfReport,  \* GroupOfReport[r]: the GroupId field of the result
    TargetOfReport, \* TargetOfReport[r]: its Type and Label
    TimerMayWin     \* TRUE: the timeout is so short that the callback may run
                    \* before Expect has stored the group (CBDPROTEIN_SLACK_
                    \* GROUP_TIMEOUT may be 0 or negative)

ASSUME NotifierAssumption ==
    /\ IsFiniteSet(Targets)
    /\ NoGroup \notin Groups
    /\ None \notin Expectations
    /\ GroupOf \in [Expectations -> Groups]
    /\ TargetLists \subseteq Seq(Targets)
    /\ GroupOfReport \in [Reports -> Groups \cup {NoGroup}]
    /\ TargetOfReport \in [Reports -> Targets]
    /\ TimerMayWin \in BOOLEAN

VARIABLES
    groups,     \* s.groups: the open state of each group id, or None
    expected,   \* st.expected
    results,    \* st.results: "ok", "fail", or "missing" when not in the map
    sent,       \* st.sent
    timer,      \* st.timer: "unset", "armed", "firing" (its callback has been
                \* started and has not had the mutex yet) or "done"
    expectPc,   \* where each call of Expect is
    reportPc,   \* where each call of Report is
    status,     \* status[r]: the Status field of the result, "none" before the call
    outbox,     \* the posts started by s.send and not finished
    summaries,  \* summaries[e]: the summaries sent for the state of call e
    counted     \* history: the reports recorded in the state of call e

vars == <<groups, expected, results, sent, timer, expectPc, reportPc, status,
          outbox, summaries, counted>>

Statuses == {"ok", "fail"}

\* A message to the webhook: the failure of one report or a group's summary.
FailurePost(r) == <<"failure", r>>
SummaryPost(e) == <<"summary", e>>
Posts == {FailurePost(r) : r \in Reports} \cup {SummaryPost(e) : e \in Expectations}

Summary == [timedOut : BOOLEAN, failed : SUBSET Targets, missing : SUBSET Targets]

Init ==
    /\ groups = [g \in Groups |-> None]
    /\ expected = [e \in Expectations |-> {}]
    /\ results = [e \in Expectations |-> [t \in Targets |-> "missing"]]
    /\ sent = [e \in Expectations |-> FALSE]
    /\ timer = [e \in Expectations |-> "unset"]
    /\ expectPc = [e \in Expectations |-> "idle"]
    /\ reportPc = [r \in Reports |-> "idle"]
    /\ status = [r \in Reports |-> "none"]
    /\ outbox = {}
    /\ summaries = [e \in Expectations |-> <<>>]
    /\ counted = [e \in Expectations |-> {}]

-----------------------------------------------------------------------------
(***************************************************************************)
(* Helpers.                                                                *)
(***************************************************************************)

\* dedupe: the distinct targets of a list; the order, which only the layout
\* of the summary shows, is left out.
Dedupe(list) == Range(list)

\* The state the map holds under g can still be reported to and flushed.
IsOpen(g) == groups[g] # None /\ ~sent[groups[g]]

Reported(e) == {t \in Targets : results[e][t] # "missing"}

\* len(st.results) >= len(st.expected), for the results in the argument.
\* The mutant is off by one: the last target is not waited for.
MutCompleteEarly(res, e) ==
    Cardinality({t \in Targets : res[t] # "missing"}) + 1 >= Cardinality(expected[e])

\* A mutant that waits for one result too many.
MutCompleteLate(res, e) ==
    Cardinality({t \in Targets : res[t] # "missing"}) > Cardinality(expected[e])

Complete(res, e) ==
    Cardinality({t \in Targets : res[t] # "missing"}) >= Cardinality(expected[e])

\* formatGroup: what the text says of the targets, and the header's flag for a
\* timeout.
FormatGroup(e, timedOut) ==
    [timedOut |-> timedOut,
     failed   |-> {t \in expected[e] : results[e][t] = "fail"},
     missing  |-> {t \in expected[e] : results[e][t] = "missing"}]

\* The header of the summary is a warning, not a check mark.
Warns(summary) == summary.failed # {} \/ summary.missing # {}

-----------------------------------------------------------------------------
(***************************************************************************)
(* Expect: the timer is started first, the state is stored under the mutex *)
(* afterwards.  A list without targets is not waited for.                  *)
(***************************************************************************)

\* A mutant that never starts the timer.
MutExpectWithoutTimer(e) ==
    /\ expectPc[e] = "idle"
    /\ \E list \in TargetLists :
          /\ expected' = [expected EXCEPT ![e] = Dedupe(list)]
          /\ expectPc' = [expectPc EXCEPT ![e] =
                            IF Dedupe(list) = {} THEN "done" ELSE "store"]
    /\ UNCHANGED <<groups, results, sent, timer, reportPc, status, outbox,
                   summaries, counted>>

ExpectStart(e) ==
    /\ expectPc[e] = "idle"
    /\ \E list \in TargetLists :
          IF Dedupe(list) = {}
          THEN /\ expectPc' = [expectPc EXCEPT ![e] = "done"]
               /\ UNCHANGED <<expected, timer>>
          ELSE /\ expected' = [expected EXCEPT ![e] = Dedupe(list)]
               /\ timer' = [timer EXCEPT ![e] = "armed"]
               /\ expectPc' = [expectPc EXCEPT ![e] = "store"]
    /\ UNCHANGED <<groups, results, sent, reportPc, status, outbox, summaries, counted>>

ExpectStore(e) ==
    /\ expectPc[e] = "store"
    /\ groups' = [groups EXCEPT ![GroupOf[e]] = e]
    /\ expectPc' = [expectPc EXCEPT ![e] = "done"]
    /\ UNCHANGED <<expected, results, sent, timer, reportPc, status, outbox,
                   summaries, counted>>

-----------------------------------------------------------------------------
(***************************************************************************)
(* flush: the critical section, and the send that follows it, which only   *)
(* starts a goroutine.  Stopping a timer whose callback has been started   *)
(* has no effect on that callback.                                         *)
(***************************************************************************)

\* A mutant that neither marks the state as sent nor deletes it from the map.
MutFlushKeepsGroup(g, timedOut) ==
    \/ /\ ~IsOpen(g)
       /\ UNCHANGED <<groups, sent, outbox, summaries>>
    \/ /\ IsOpen(g)
       /\ LET e == groups[g] IN
          /\ summaries' = [summaries EXCEPT ![e] = Append(@, FormatGroup(e, timedOut))]
          /\ outbox' = outbox \cup {SummaryPost(e)}
       /\ UNCHANGED <<groups, sent>>

Flush(g, timedOut) ==
    \/ /\ ~IsOpen(g)
       /\ UNCHANGED <<groups, sent, outbox, summaries>>
    \/ /\ IsOpen(g)
       /\ LET e == groups[g] IN
          /\ sent' = [sent EXCEPT ![e] = TRUE]
          /\ groups' = [groups EXCEPT ![g] = None]
          /\ summaries' = [summaries EXCEPT ![e] = Append(@, FormatGroup(e, timedOut))]
          /\ outbox' = outbox \cup {SummaryPost(e)}

\* st.timer.Stop() of the state that a flush of g is about to send.
StopTimer(g, timers) ==
    [e \in Expectations |->
        IF IsOpen(g) /\ groups[g] = e /\ timers[e] = "armed" THEN "done" ELSE timers[e]]

\* The runtime starts the callback of a timer.
TimerFires(e) ==
    /\ timer[e] = "armed"
    /\ TimerMayWin \/ expectPc[e] = "done"
    /\ timer' = [timer EXCEPT ![e] = "firing"]
    /\ UNCHANGED <<groups, expected, results, sent, expectPc, reportPc, status,
                   outbox, summaries, counted>>

\* The callback: s.flush(groupId, true).
TimerFlush(e) ==
    /\ timer[e] = "firing"
    /\ Flush(GroupOf[e], TRUE)
    /\ timer' = StopTimer(GroupOf[e], [timer EXCEPT ![e] = "done"])
    /\ UNCHANGED <<expected, results, expectPc, reportPc, status, counted>>

-----------------------------------------------------------------------------
(***************************************************************************)
(* Report: a failure is sent first, without the mutex; the result is then  *)
(* recorded under the mutex, which is released before flush takes it again.*)
(***************************************************************************)

\* A mutant without the early return for results outside a group.
MutReportStart(r) ==
    /\ reportPc[r] = "idle"
    /\ \E s \in Statuses :
          /\ status' = [status EXCEPT ![r] = s]
          /\ outbox' = IF s = "ok" THEN outbox ELSE outbox \cup {FailurePost(r)}
    /\ reportPc' = [reportPc EXCEPT ![r] = "record"]
    /\ UNCHANGED <<groups, expected, results, sent, timer, expectPc, summaries, counted>>

ReportStart(r) ==
    /\ reportPc[r] = "idle"
    /\ \E s \in Statuses :
          /\ status' = [status EXCEPT ![r] = s]
          /\ outbox' = IF s = "ok" THEN outbox ELSE outbox \cup {FailurePost(r)}
    /\ reportPc' = [reportPc EXCEPT ![r] =
                      IF GroupOfReport[r] = NoGroup THEN "done" ELSE "record"]
    /\ UNCHANGED <<groups, expected, results, sent, timer, expectPc, summaries, counted>>

\* The result counts for the state the map holds under its group id.  The mutant
\* looks at the group id only.
MutCountsAnyTarget(r) == IsOpen(GroupOfReport[r])

Counts(r) ==
    /\ IsOpen(GroupOfReport[r])
    /\ TargetOfReport[r] \in expected[groups[GroupOfReport[r]]]

\* A mutant that stores a result only when it is a success.
MutRecordUnlessFailed(r) ==
    LET e == groups[GroupOfReport[r]] IN
    IF status[r] = "fail" THEN results[e]
    ELSE [results[e] EXCEPT ![TargetOfReport[r]] = status[r]]

\* st.results[target] = r
ResultsWith(r) ==
    [results[groups[GroupOfReport[r]]] EXCEPT ![TargetOfReport[r]] = status[r]]

ReportRecord(r) ==
    /\ reportPc[r] = "record"
    /\ \/ /\ ~Counts(r)
          /\ reportPc' = [reportPc EXCEPT ![r] = "done"]
          /\ UNCHANGED <<results, counted>>
       \/ /\ Counts(r)
          /\ LET e == groups[GroupOfReport[r]] IN
             /\ results' = [results EXCEPT ![e] = ResultsWith(r)]
             /\ counted' = [counted EXCEPT ![e] = @ \cup {r}]
             /\ reportPc' = [reportPc EXCEPT ![r] =
                               IF Complete(ResultsWith(r), e) THEN "flush" ELSE "done"]
    /\ UNCHANGED <<groups, expected, sent, timer, expectPc, status, outbox,
                   summaries>>

ReportFlush(r) ==
    /\ reportPc[r] = "flush"
    /\ Flush(GroupOfReport[r], FALSE)
    /\ timer' = StopTimer(GroupOfReport[r], timer)
    /\ reportPc' = [reportPc EXCEPT ![r] = "done"]
    /\ UNCHANGED <<expected, results, expectPc, status, counted>>

-----------------------------------------------------------------------------
(***************************************************************************)
(* The goroutines started by send: the post ends within postTimeout.       *)
(* Whether the message has reached Slack or an error has been logged makes *)
(* no difference to any state of the notifier.                             *)
(***************************************************************************)
Post(m) ==
    /\ m \in outbox
    /\ outbox' = outbox \ {m}
    /\ UNCHANGED <<groups, expected, results, sent, timer, expectPc, reportPc,
                   status, summaries, counted>>

Expect(e) == ExpectStart(e) \/ ExpectStore(e)
Timer(e)  == TimerFires(e) \/ TimerFlush(e)
Report(r) == ReportStart(r) \/ ReportRecord(r) \/ ReportFlush(r)

\* Every call has returned and every goroutine has ended.
Quiescent ==
    /\ \A e \in Expectations : expectPc[e] = "done" /\ timer[e] \in {"unset", "done"}
    /\ \A r \in Reports : reportPc[r] = "done"
    /\ outbox = {}

Terminated == Quiescent /\ UNCHANGED vars

Next ==
    \/ \E e \in Expectations : Expect(e) \/ Timer(e)
    \/ \E r \in Reports : Report(r)
    \/ \E m \in Posts : Post(m)
    \/ Terminated

Spec == Init /\ [][Next]_vars

-----------------------------------------------------------------------------
(***************************************************************************)
(* Properties.                                                             *)
(***************************************************************************)

TypeOK ==
    /\ groups \in [Groups -> Expectations \cup {None}]
    /\ expected \in [Expectations -> SUBSET Targets]
    /\ results \in [Expectations -> [Targets -> Statuses \cup {"missing"}]]
    /\ sent \in [Expectations -> BOOLEAN]
    /\ timer \in [Expectations -> {"unset", "armed", "firing", "done"}]
    /\ expectPc \in [Expectations -> {"idle", "store", "done"}]
    /\ reportPc \in [Reports -> {"idle", "record", "flush", "done"}]
    /\ status \in [Reports -> Statuses \cup {"none"}]
    /\ \A r \in Reports :
          /\ reportPc[r] # "idle" => status[r] \in Statuses
          /\ reportPc[r] \in {"record", "flush"} => GroupOfReport[r] # NoGroup
    /\ outbox \subseteq Posts
    /\ summaries \in [Expectations -> Seq(Summary)]
    /\ counted \in [Expectations -> SUBSET Reports]

\* The last report to arrive and the timer may both decide to flush; only one
\* of them sends a summary (TestGroupSummarySentOnceWhenComplete).
SummaryAtMostOnce == \A e \in Expectations : Len(summaries[e]) <= 1

\* A summary that does not say it timed out has an outcome for every target:
\* the decision to flush is taken in one critical section and the text is
\* rendered in another one.
OnlyTimeoutsMissTargets ==
    \A e \in Expectations : \A i \in DOMAIN summaries[e] :
        ~summaries[e][i].timedOut => summaries[e][i].missing = {}

\* A group in the map always has a timer that will still flush it: the timer of
\* a group is only stopped, or run, when the group leaves the map.  Otherwise a
\* group with a target that never reports stays in the map for ever and its
\* summary is never sent.
OpenGroupHasTimer ==
    \A g \in Groups : groups[g] # None => timer[groups[g]] \in {"armed", "firing"}

\* The last report sends the summary, the timer is not needed for it: when every
\* target of a group in the map has reported, one of the reports is on its way to
\* flush that group.  Counting the results and flushing are two critical sections
\* (slack.go:154-159), and another call of Expect may replace the group meanwhile.
CompleteGroupIsFlushed ==
    \A g \in Groups :
        groups[g] # None /\ expected[groups[g]] \subseteq Reported(groups[g]) =>
            \E r \in Reports : reportPc[r] = "flush" /\ GroupOfReport[r] = g

\* A report of a failure that counted for a group shows in the group's summary,
\* and so makes it a warning: "if even one fails or is missing it is a warning"
\* (README.md:33).  The outcome is stored per (Type, Label), so it holds as long
\* as no two targets of a group share both.
FailuresAreListed ==
    \A e \in Expectations : \A i \in DOMAIN summaries[e], r \in counted[e] :
        status[r] = "fail" =>
            /\ Warns(summaries[e][i])
            /\ TargetOfReport[r] \in summaries[e][i].failed

\* What a summary says of a target is what has been reported of it, no more and no
\* less, although the text is rendered in another critical section than the one that
\* counted the last report (slack.go:153-159, 189): a missing target has no report
\* that counted, a failed one was reported as failed, and any other one as ok.  If
\* there are reports that contradict each other, one of them counts.
SummaryTellsReports ==
    \A e \in Expectations : \A i \in DOMAIN summaries[e], t \in expected[e] :
        LET reported == {status[r] : r \in {x \in counted[e] : TargetOfReport[x] = t}}
            summary == summaries[e][i]
        IN  /\ t \in summary.missing <=> reported = {}
            /\ t \in summary.failed => "fail" \in reported
            /\ t \notin summary.failed \cup summary.missing => "ok" \in reported

-----------------------------------------------------------------------------
(***************************************************************************)
(* Refinement: to a reader of the channel a group is "open" while the map  *)
(* holds its state, and "closed" once its summary has been sent.           *)
(***************************************************************************)
Abstract == INSTANCE GroupSummary WITH
    phase   <- [e \in Expectations |->
                   IF summaries[e] # <<>> THEN "closed"
                   ELSE IF groups[GroupOf[e]] = e THEN "open" ELSE "unused"],
    wanted  <- expected,
    outcome <- results,
    verdict <- summaries

ImplementsGroupSummary == Abstract!FairSpec

=============================================================================
