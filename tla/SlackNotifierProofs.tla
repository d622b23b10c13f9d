------------------------- MODULE SlackNotifierProofs -------------------------
(***************************************************************************)
(* Theorems about SlackNotifier, for any number of groups, targets, calls  *)
(* of Expect and calls of Report.                                          *)
(***************************************************************************)
EXTENDS SlackNotifier, TLAPS, FiniteSetTheorems

\* No two calls of Expect use the same group id (group/collector.go:100 takes
\* the time with microseconds for it).
UniqueGroupIds == \A e, f \in Expectations : GroupOf[e] = GroupOf[f] => e = f

LEMMA RangeOfList ==
    ASSUME NEW list \in TargetLists
    PROVE  Dedupe(list) \in SUBSET Targets
<1>1. list \in Seq(Targets)
  BY NotifierAssumption
<1>2. \A i \in DOMAIN list : list[i] \in Targets
  BY <1>1
<1> QED
  BY <1>2 DEF Dedupe, Range

LEMMA FormatIsSummary ==
    ASSUME TypeOK, NEW e \in Expectations, NEW timedOut \in BOOLEAN
    PROVE  FormatGroup(e, timedOut) \in Summary
BY DEF TypeOK, FormatGroup, Summary

\* What a flush does to the variables it may change, as far as types go.
LEMMA FlushTypes ==
    ASSUME TypeOK, NEW g \in Groups, NEW timedOut \in BOOLEAN, Flush(g, timedOut)
    PROVE  /\ groups' \in [Groups -> Expectations \cup {None}]
           /\ sent' \in [Expectations -> BOOLEAN]
           /\ outbox' \subseteq Posts
           /\ summaries' \in [Expectations -> Seq(Summary)]
<1>1. CASE ~IsOpen(g)
  BY <1>1 DEF TypeOK, Flush
<1>2. CASE IsOpen(g)
  <2> DEFINE e == groups[g]
  <2>1. e \in Expectations
    BY <1>2 DEF TypeOK, IsOpen
  <2>2. /\ sent' = [sent EXCEPT ![e] = TRUE]
        /\ groups' = [groups EXCEPT ![g] = None]
        /\ summaries' = [summaries EXCEPT ![e] = Append(@, FormatGroup(e, timedOut))]
        /\ outbox' = outbox \cup {SummaryPost(e)}
    BY <1>2 DEF Flush
  <2>3. Append(summaries[e], FormatGroup(e, timedOut)) \in Seq(Summary)
    BY <2>1, FormatIsSummary DEF TypeOK
  <2>4. SummaryPost(e) \in Posts
    BY <2>1 DEF Posts
  <2> HIDE DEF e
  <2> QED
    BY <2>1, <2>2, <2>3, <2>4 DEF TypeOK
<1> QED
  BY <1>1, <1>2

LEMMA StopTimerType ==
    ASSUME NEW g \in Groups,
           NEW timers \in [Expectations -> {"unset", "armed", "firing", "done"}]
    PROVE  StopTimer(g, timers) \in [Expectations -> {"unset", "armed", "firing", "done"}]
BY DEF StopTimer

\* A report that reaches the map has a group id.
LEMMA ReportGroup ==
    ASSUME TypeOK, NEW r \in Reports, reportPc[r] \in {"record", "flush"}
    PROVE  GroupOfReport[r] \in Groups /\ TargetOfReport[r] \in Targets
BY NotifierAssumption DEF TypeOK

-----------------------------------------------------------------------------
(***************************************************************************)
(* Type correctness.                                                       *)
(***************************************************************************)

LEMMA InitTypeOK == Init => TypeOK
BY NotifierAssumption DEF Init, TypeOK, Posts, Statuses

LEMMA StepTypeOK == TypeOK /\ [Next]_vars => TypeOK'
<1> SUFFICES ASSUME TypeOK, [Next]_vars PROVE TypeOK'
  OBVIOUS
<1>1. ASSUME NEW e \in Expectations, ExpectStart(e) PROVE TypeOK'
  BY <1>1, RangeOfList DEF TypeOK, ExpectStart
<1>2. ASSUME NEW e \in Expectations, ExpectStore(e) PROVE TypeOK'
  BY <1>2, NotifierAssumption DEF TypeOK, ExpectStore
<1>3. ASSUME NEW e \in Expectations, TimerFires(e) PROVE TypeOK'
  BY <1>3 DEF TypeOK, TimerFires
<1>4. ASSUME NEW e \in Expectations, TimerFlush(e) PROVE TypeOK'
  <2>1. GroupOf[e] \in Groups
    BY NotifierAssumption
  <2>2. Flush(GroupOf[e], TRUE)
    BY <1>4 DEF TimerFlush
  <2>3. [timer EXCEPT ![e] = "done"] \in [Expectations -> {"unset", "armed", "firing", "done"}]
    BY DEF TypeOK
  <2>4. timer' \in [Expectations -> {"unset", "armed", "firing", "done"}]
    BY <1>4, <2>1, <2>3, StopTimerType DEF TimerFlush
  <2> QED
    BY <1>4, <2>1, <2>2, <2>4, FlushTypes DEF TypeOK, TimerFlush
<1>5. ASSUME NEW r \in Reports, ReportStart(r) PROVE TypeOK'
  <2>1. FailurePost(r) \in Posts
    BY DEF Posts
  <2> QED
    BY <1>5, <2>1 DEF TypeOK, ReportStart
<1>6. ASSUME NEW r \in Reports, ReportRecord(r) PROVE TypeOK'
  <2> DEFINE g == GroupOfReport[r]
  <2>1. g \in Groups /\ TargetOfReport[r] \in Targets
    BY <1>6, ReportGroup DEF ReportRecord
  <2>2. status[r] \in Statuses
    BY <1>6 DEF TypeOK, ReportRecord
  <2>3. /\ results' \in [Expectations -> [Targets -> Statuses \cup {"missing"}]]
        /\ counted' \in [Expectations -> SUBSET Reports]
    <3>1. CASE ~Counts(r)
      BY <1>6, <3>1 DEF TypeOK, ReportRecord
    <3>2. CASE Counts(r)
      <4>1. groups[g] \in Expectations
        BY <2>1, <3>2 DEF TypeOK, Counts, IsOpen
      <4>2. ResultsWith(r) \in [Targets -> Statuses \cup {"missing"}]
        BY <2>2, <4>1 DEF TypeOK, ResultsWith
      <4>3. /\ results' = [results EXCEPT ![groups[g]] = ResultsWith(r)]
            /\ counted' = [counted EXCEPT ![groups[g]] = @ \cup {r}]
        BY <1>6, <3>2 DEF ReportRecord
      <4> QED
        BY <4>1, <4>2, <4>3 DEF TypeOK
    <3> QED
      BY <3>1, <3>2
  <2>4. \E pc \in {"flush", "done"} : reportPc' = [reportPc EXCEPT ![r] = pc]
    BY <1>6 DEF ReportRecord
  <2>5. /\ reportPc' \in [Reports -> {"idle", "record", "flush", "done"}]
        /\ \A x \in Reports :
              /\ reportPc'[x] # "idle" => status[x] \in Statuses
              /\ reportPc'[x] \in {"record", "flush"} => GroupOfReport[x] # NoGroup
    BY <1>6, <2>2, <2>4 DEF TypeOK, ReportRecord
  <2> QED
    BY <1>6, <2>3, <2>5 DEF TypeOK, ReportRecord
<1>7. ASSUME NEW r \in Reports, ReportFlush(r) PROVE TypeOK'
  <2>1. GroupOfReport[r] \in Groups
    BY <1>7, ReportGroup DEF ReportFlush
  <2>2. timer' \in [Expectations -> {"unset", "armed", "firing", "done"}]
    BY <1>7, <2>1, StopTimerType DEF ReportFlush, TypeOK
  <2> QED
    BY <1>7, <2>1, <2>2, FlushTypes DEF TypeOK, ReportFlush
<1>8. ASSUME NEW m \in Posts, Post(m) PROVE TypeOK'
  BY <1>8 DEF TypeOK, Post
<1>9. CASE UNCHANGED vars
  BY <1>9 DEF TypeOK, vars
<1> QED
  BY <1>1, <1>2, <1>3, <1>4, <1>5, <1>6, <1>7, <1>8, <1>9
     DEF Next, Expect, Timer, Report, Terminated

\* TypeOK: the shape of every variable of the notifier, in every reachable state
\* and for every instance (slack.go:57-73).
THEOREM TypeCorrect == Spec => []TypeOK
BY InitTypeOK, StepTypeOK, PTL DEF Spec

-----------------------------------------------------------------------------
(***************************************************************************)
(* The state of a call of Expect goes through the map once: it is not in   *)
(* the map before it is stored, it leaves the map when it is sent.         *)
(***************************************************************************)

\* A state in the map was stored there by a call that has returned, under that
\* call's group id, and has not been sent.
InMap ==
    \A g \in Groups : groups[g] # None =>
        /\ GroupOf[groups[g]] = g
        /\ expectPc[groups[g]] = "done"
        /\ ~sent[groups[g]]

\* Nothing has been sent for a call of Expect that has not stored its state.
NotSentBeforeStore == \A e \in Expectations : expectPc[e] # "done" => ~sent[e]

\* st.sent is set exactly when the summary has been sent, once.
SentMeansOneSummary ==
    \A e \in Expectations :
        /\ ~sent[e] => summaries[e] = <<>>
        /\ sent[e] => Len(summaries[e]) = 1

OnceInv == TypeOK /\ InMap /\ NotSentBeforeStore /\ SentMeansOneSummary

LEMMA InitOnceInv == Init => OnceInv
BY InitTypeOK DEF Init, OnceInv, InMap, NotSentBeforeStore, SentMeansOneSummary

\* A flush preserves OnceInv, whoever calls it.
LEMMA FlushOnceInv ==
    ASSUME OnceInv, NEW g \in Groups, NEW timedOut \in BOOLEAN,
           Flush(g, timedOut), UNCHANGED expectPc
    PROVE  InMap' /\ NotSentBeforeStore' /\ SentMeansOneSummary'
<1>1. CASE ~IsOpen(g)
  BY <1>1 DEF OnceInv, InMap, NotSentBeforeStore, SentMeansOneSummary, Flush
<1>2. CASE IsOpen(g)
  <2> DEFINE e == groups[g]
  <2>1. /\ e \in Expectations
        /\ GroupOf[e] = g
        /\ expectPc[e] = "done"
        /\ ~sent[e]
    BY <1>2 DEF OnceInv, TypeOK, InMap, IsOpen
  <2>2. /\ sent' = [sent EXCEPT ![e] = TRUE]
        /\ groups' = [groups EXCEPT ![g] = None]
        /\ summaries' = [summaries EXCEPT ![e] = Append(@, FormatGroup(e, timedOut))]
    BY <1>2 DEF Flush
  <2>3. Len(Append(summaries[e], FormatGroup(e, timedOut))) = 1
    BY <2>1 DEF OnceInv, SentMeansOneSummary
  <2>4. InMap'
    BY <2>1, <2>2 DEF OnceInv, TypeOK, InMap
  <2>5. NotSentBeforeStore'
    BY <2>1, <2>2 DEF OnceInv, TypeOK, NotSentBeforeStore
  <2>6. SentMeansOneSummary'
    BY <2>1, <2>2, <2>3 DEF OnceInv, TypeOK, SentMeansOneSummary
  <2> QED
    BY <2>4, <2>5, <2>6
<1> QED
  BY <1>1, <1>2

LEMMA StepOnceInv == OnceInv /\ [Next]_vars => OnceInv'
<1> SUFFICES ASSUME OnceInv, [Next]_vars
             PROVE  InMap' /\ NotSentBeforeStore' /\ SentMeansOneSummary'
  BY StepTypeOK DEF OnceInv
<1> USE DEF OnceInv, InMap, NotSentBeforeStore, SentMeansOneSummary
<1>1. ASSUME NEW e \in Expectations, ExpectStart(e)
      PROVE  InMap' /\ NotSentBeforeStore' /\ SentMeansOneSummary'
  <2>1. expectPc[e] = "idle" /\ \E pc \in {"store", "done"} : expectPc' = [expectPc EXCEPT ![e] = pc]
    BY <1>1 DEF ExpectStart
  <2> QED
    BY <1>1, <2>1 DEF ExpectStart, TypeOK
<1>2. ASSUME NEW e \in Expectations, ExpectStore(e)
      PROVE  InMap' /\ NotSentBeforeStore' /\ SentMeansOneSummary'
  BY <1>2, NotifierAssumption DEF ExpectStore, TypeOK
<1>3. ASSUME NEW e \in Expectations, TimerFlush(e)
      PROVE  InMap' /\ NotSentBeforeStore' /\ SentMeansOneSummary'
  <2>1. GroupOf[e] \in Groups /\ Flush(GroupOf[e], TRUE) /\ UNCHANGED expectPc
    BY <1>3, NotifierAssumption DEF TimerFlush
  <2> QED
    BY <2>1, FlushOnceInv
<1>4. ASSUME NEW r \in Reports, ReportFlush(r)
      PROVE  InMap' /\ NotSentBeforeStore' /\ SentMeansOneSummary'
  <2>1. GroupOfReport[r] \in Groups /\ Flush(GroupOfReport[r], FALSE) /\ UNCHANGED expectPc
    BY <1>4, ReportGroup DEF ReportFlush
  <2> QED
    BY <2>1, FlushOnceInv
<1>5. CASE UNCHANGED <<groups, sent, expectPc, summaries>>
  BY <1>5
<1> QED
  BY <1>1, <1>2, <1>3, <1>4, <1>5
     DEF Next, Expect, Timer, Report, TimerFires, ReportStart, ReportRecord, Post,
         Terminated, vars

LEMMA OnceInvHolds == Spec => []OnceInv
BY InitOnceInv, StepOnceInv, PTL DEF Spec

\* SummaryAtMostOnce: however reports and timers interleave, and even when two
\* group collections share a group id, no state is summarised twice
\* (slack.go:162-178).
THEOREM AtMostOneSummary == Spec => []SummaryAtMostOnce
<1>1. OnceInv => SummaryAtMostOnce
  <2>1. ASSUME OnceInv, NEW e \in Expectations PROVE Len(summaries[e]) <= 1
    <3>1. CASE sent[e]
      <4>1. Len(summaries[e]) = 1
        BY <2>1, <3>1, Zenon DEF OnceInv, SentMeansOneSummary
      <4> HIDE DEF OnceInv
      <4> QED
        BY <4>1, SMT
    <3>2. CASE ~sent[e]
      <4>1. summaries[e] = <<>>
        BY <2>1, <3>2 DEF OnceInv, SentMeansOneSummary
      <4>2. Len(<< >>) = 0
        OBVIOUS
      <4> HIDE DEF OnceInv
      <4> QED
        BY <4>1, <4>2, SMT
    <3> QED
      BY <3>1, <3>2
  <2> QED
    BY <2>1 DEF SummaryAtMostOnce
<1> QED
  BY <1>1, OnceInvHolds, PTL

\* Once the summary of a state has been sent, nothing changes what it says or what
\* it was rendered from: not a report that comes late, not the timer that was already
\* firing, not a second call of Expect for the same group (slack.go:139, 149, 171).
SentIsFinal ==
    [][\A e \in Expectations : sent[e] =>
          /\ sent'[e] /\ groups'[GroupOf[e]] # e
          /\ summaries'[e] = summaries[e]
          /\ results'[e] = results[e] /\ counted'[e] = counted[e]]_vars

THEOREM SentStaysFinal == Spec => SentIsFinal
<1> DEFINE Final == \A e \in Expectations : sent[e] =>
                       /\ sent'[e] /\ groups'[GroupOf[e]] # e
                       /\ summaries'[e] = summaries[e]
                       /\ results'[e] = results[e] /\ counted'[e] = counted[e]
<1>1. OnceInv /\ OnceInv' /\ [Next]_vars => [Final]_vars
  <2> SUFFICES ASSUME OnceInv, OnceInv', [Next]_vars, NEW e \in Expectations, sent[e]
               PROVE  /\ sent'[e] /\ groups'[GroupOf[e]] # e
                      /\ summaries'[e] = summaries[e]
                      /\ results'[e] = results[e] /\ counted'[e] = counted[e]
    OBVIOUS
  <2>1. \A g \in Groups : groups[g] # e
    BY NotifierAssumption DEF OnceInv, InMap
  <2>2. ASSUME NEW g \in Groups, NEW timedOut \in BOOLEAN, Flush(g, timedOut)
        PROVE  sent'[e] /\ summaries'[e] = summaries[e]
    BY <2>1, <2>2 DEF Flush, IsOpen, OnceInv, TypeOK
  <2>3. ASSUME NEW r \in Reports, ReportRecord(r)
        PROVE  sent'[e] /\ summaries'[e] = summaries[e] /\ results'[e] = results[e] /\ counted'[e] = counted[e]
    <3>1. GroupOfReport[r] \in Groups
      BY <2>3, ReportGroup DEF ReportRecord, OnceInv
    <3> QED
      BY <2>1, <2>3, <3>1 DEF ReportRecord, OnceInv, TypeOK
  <2>4. ASSUME NEW f \in Expectations, TimerFlush(f)
        PROVE  sent'[e] /\ summaries'[e] = summaries[e] /\ results'[e] = results[e] /\ counted'[e] = counted[e]
    BY <2>2, <2>4, NotifierAssumption DEF TimerFlush
  <2>5. ASSUME NEW r \in Reports, ReportFlush(r)
        PROVE  sent'[e] /\ summaries'[e] = summaries[e] /\ results'[e] = results[e] /\ counted'[e] = counted[e]
    <3>1. GroupOfReport[r] \in Groups
      BY <2>5, ReportGroup DEF ReportFlush, OnceInv
    <3> QED
      BY <2>2, <2>5, <3>1 DEF ReportFlush
  <2>6. sent'[e] /\ summaries'[e] = summaries[e] /\ results'[e] = results[e] /\ counted'[e] = counted[e]
    BY <2>3, <2>4, <2>5
       DEF Next, Expect, ExpectStart, ExpectStore, Timer, TimerFires, Report, ReportStart,
           Post, Terminated, vars
  <2>7. groups'[GroupOf[e]] # e
    <3>1. GroupOf[e] \in Groups /\ e # None
      BY NotifierAssumption
    <3> QED
      BY <2>6, <3>1 DEF OnceInv, InMap
  <2> QED
    BY <2>6, <2>7
<1> QED
  BY <1>1, OnceInvHolds, PTL DEF Spec, SentIsFinal

-----------------------------------------------------------------------------
(***************************************************************************)
(* Timers.  If no timeout is so short that the callback overtakes Expect,  *)
(* a state in the map has a timer that is armed or about to flush it.      *)
(***************************************************************************)

\* A state that waits to be stored has an armed timer.
ArmedBeforeStore == \A e \in Expectations : expectPc[e] = "store" => timer[e] = "armed"

TimerInv == OnceInv /\ OpenGroupHasTimer /\ ArmedBeforeStore

LEMMA StepTimerInv ==
    ASSUME ~TimerMayWin
    PROVE  TimerInv /\ [Next]_vars => TimerInv'
<1> SUFFICES ASSUME TimerInv, [Next]_vars
             PROVE  OpenGroupHasTimer' /\ ArmedBeforeStore'
  BY StepOnceInv DEF TimerInv
<1> USE DEF TimerInv, OpenGroupHasTimer, ArmedBeforeStore
<1>1. ASSUME NEW e \in Expectations, ExpectStart(e)
      PROVE  OpenGroupHasTimer' /\ ArmedBeforeStore'
  <2>1. /\ expectPc[e] = "idle"
        /\ \/ expectPc' = [expectPc EXCEPT ![e] = "done"] /\ UNCHANGED timer
           \/ /\ expectPc' = [expectPc EXCEPT ![e] = "store"]
              /\ timer' = [timer EXCEPT ![e] = "armed"]
        /\ UNCHANGED groups
    BY <1>1 DEF ExpectStart
  <2>2. \A g \in Groups : groups[g] # e
    BY <2>1, NotifierAssumption DEF OnceInv, InMap
  <2>3. \A x \in Expectations : x # e => timer'[x] = timer[x] /\ expectPc'[x] = expectPc[x]
    BY <2>1 DEF OnceInv, TypeOK
  <2>4. expectPc'[e] = "store" => timer'[e] = "armed"
    BY <2>1 DEF OnceInv, TypeOK
  <2>5. ArmedBeforeStore'
    BY <2>3, <2>4
  <2>6. ASSUME NEW g \in Groups, groups'[g] # None
        PROVE  timer'[groups'[g]] \in {"armed", "firing"}
    <3>1. groups'[g] = groups[g] /\ groups[g] \in Expectations
      BY <2>1, <2>6 DEF OnceInv, TypeOK
    <3> QED
      BY <2>2, <2>3, <2>6, <3>1
  <2> QED
    BY <2>5, <2>6
<1>2. ASSUME NEW e \in Expectations, ExpectStore(e)
      PROVE  OpenGroupHasTimer' /\ ArmedBeforeStore'
  BY <1>2 DEF ExpectStore, OnceInv, TypeOK
<1>3. ASSUME NEW e \in Expectations, TimerFires(e)
      PROVE  OpenGroupHasTimer' /\ ArmedBeforeStore'
  BY <1>3 DEF TimerFires, OnceInv, TypeOK
<1>4. ASSUME NEW g \in Groups, NEW t \in [Expectations -> {"unset", "armed", "firing", "done"}],
             NEW b \in BOOLEAN,
             Flush(g, b), timer' = StopTimer(g, t), UNCHANGED expectPc,
             \A x \in Expectations : t[x] = timer[x] \/ (GroupOf[x] = g /\ expectPc[x] # "store")
      PROVE  OpenGroupHasTimer' /\ ArmedBeforeStore'
  <2>1. CASE ~IsOpen(g)
    <3>1. groups' = groups /\ groups[g] = None
      BY <1>4, <2>1 DEF Flush, IsOpen, OnceInv, InMap
    <3>2. timer' = t
      BY <1>4, <2>1 DEF StopTimer
    <3>3. ASSUME NEW x \in Expectations, t[x] # timer[x] PROVE GroupOf[x] = g /\ expectPc[x] # "store"
      BY <1>4, <3>3
    <3>4. ASSUME NEW h \in Groups, groups[h] # None PROVE timer'[groups[h]] \in {"armed", "firing"}
      <4>1. groups[h] \in Expectations /\ GroupOf[groups[h]] = h /\ h # g
        BY <3>1, <3>4 DEF OnceInv, TypeOK, InMap
      <4> QED
        BY <3>2, <3>3, <3>4, <4>1
    <3>5. OpenGroupHasTimer'
      BY <3>1, <3>4
    <3>6. ArmedBeforeStore'
      BY <1>4, <3>2, <3>3
    <3> QED
      BY <3>5, <3>6
  <2>2. CASE IsOpen(g)
    <3>1. groups' = [groups EXCEPT ![g] = None]
      BY <1>4, <2>2 DEF Flush
    <3>2. \A x \in Expectations : timer'[x] = IF groups[g] = x /\ t[x] = "armed" THEN "done" ELSE t[x]
      BY <1>4, <2>2 DEF StopTimer
    <3>3. groups[g] \in Expectations /\ GroupOf[groups[g]] = g /\ expectPc[groups[g]] = "done"
      BY <2>2 DEF OnceInv, TypeOK, InMap, IsOpen
    <3>4. ASSUME NEW x \in Expectations, t[x] # timer[x] PROVE GroupOf[x] = g /\ expectPc[x] # "store"
      BY <1>4, <3>4
    <3>5. ASSUME NEW h \in Groups, groups'[h] # None PROVE timer'[groups'[h]] \in {"armed", "firing"}
      <4>1. h # g /\ groups'[h] = groups[h]
        BY <3>1, <3>5 DEF OnceInv, TypeOK
      <4>2. groups[h] \in Expectations /\ GroupOf[groups[h]] = h
        BY <3>5, <4>1 DEF OnceInv, TypeOK, InMap
      <4>3. groups[h] # groups[g]
        BY <3>3, <4>1, <4>2
      <4> QED
        BY <3>2, <3>4, <3>5, <4>1, <4>2, <4>3
    <3>6. OpenGroupHasTimer'
      BY <3>5
    <3>7. ArmedBeforeStore'
      BY <1>4, <3>2, <3>3, <3>4
    <3> QED
      BY <3>6, <3>7
  <2> QED
    BY <2>1, <2>2
<1>5. ASSUME NEW e \in Expectations, TimerFlush(e)
      PROVE  OpenGroupHasTimer' /\ ArmedBeforeStore'
  <2> DEFINE t == [timer EXCEPT ![e] = "done"]
  <2>1. GroupOf[e] \in Groups /\ t \in [Expectations -> {"unset", "armed", "firing", "done"}]
    BY NotifierAssumption DEF OnceInv, TypeOK
  <2>2. Flush(GroupOf[e], TRUE) /\ timer' = StopTimer(GroupOf[e], t) /\ UNCHANGED expectPc
    BY <1>5 DEF TimerFlush
  <2>3. \A x \in Expectations : t[x] = timer[x] \/ (GroupOf[x] = GroupOf[e] /\ expectPc[x] # "store")
    BY <1>5 DEF TimerFlush, OnceInv, TypeOK
  <2> HIDE DEF t
  <2> QED
    BY <1>4, <2>1, <2>2, <2>3
<1>6. ASSUME NEW r \in Reports, ReportFlush(r)
      PROVE  OpenGroupHasTimer' /\ ArmedBeforeStore'
  <2>1. /\ GroupOfReport[r] \in Groups
        /\ timer \in [Expectations -> {"unset", "armed", "firing", "done"}]
        /\ Flush(GroupOfReport[r], FALSE)
        /\ timer' = StopTimer(GroupOfReport[r], timer)
        /\ UNCHANGED expectPc
    <3>1. TypeOK /\ reportPc[r] = "flush"
      BY <1>6 DEF ReportFlush, OnceInv
    <3>2. GroupOfReport[r] \in Groups
      BY <3>1, ReportGroup
    <3>3. timer \in [Expectations -> {"unset", "armed", "firing", "done"}]
      BY <3>1 DEF TypeOK
    <3> QED
      BY <1>6, <3>2, <3>3 DEF ReportFlush
  <2> QED
    BY <1>4, <2>1
<1>7. CASE UNCHANGED <<groups, timer, expectPc>>
  BY <1>7
<1> QED
  BY <1>1, <1>2, <1>3, <1>5, <1>6, <1>7
     DEF Next, Expect, Timer, Report, ReportStart, ReportRecord, Post, Terminated, vars

\* OpenGroupHasTimer: a group that waits for a target that never reports cannot
\* be stuck in the map, whatever the other groups do (slack.go:119-128).
THEOREM OpenGroupAlwaysHasTimer == ~TimerMayWin => (Spec => []OpenGroupHasTimer)
<1> SUFFICES ASSUME ~TimerMayWin PROVE Spec => []OpenGroupHasTimer
  OBVIOUS
<1>1. Init => TimerInv
  BY InitOnceInv DEF Init, TimerInv, OpenGroupHasTimer, ArmedBeforeStore
<1>2. TimerInv /\ [Next]_vars => TimerInv'
  BY StepTimerInv
<1>3. TimerInv => OpenGroupHasTimer
  BY DEF TimerInv
<1> QED
  BY <1>1, <1>2, <1>3, PTL DEF Spec

-----------------------------------------------------------------------------
(***************************************************************************)
(* Complete summaries.  Report decides under the mutex that every target   *)
(* has reported, releases the mutex and calls flush.  Among calls that     *)
(* share a group id this may flush a state other than the one that was     *)
(* complete; with ids that differ it cannot.                               *)
(***************************************************************************)

\* Only results of expected targets are stored, and none before the state is.
ReportedExpected ==
    \A e \in Expectations :
        /\ Reported(e) \subseteq expected[e]
        /\ expectPc[e] # "done" => Reported(e) = {}

\* Between its two critical sections a report is right about its group.
AboutToFlush ==
    \A r \in Reports, e \in Expectations :
        reportPc[r] = "flush" /\ GroupOf[e] = GroupOfReport[r] =>
            expectPc[e] = "done" /\ expected[e] \subseteq Reported(e)

CompleteInv == OnceInv /\ ReportedExpected /\ AboutToFlush /\ OnlyTimeoutsMissTargets

LEMMA InitCompleteInv == Init => CompleteInv
<1> SUFFICES ASSUME Init PROVE CompleteInv
  OBVIOUS
<1>1. \A e \in Expectations : Reported(e) = {} /\ DOMAIN summaries[e] = {}
  BY DEF Init, Reported
<1> QED
  BY <1>1, InitOnceInv
     DEF Init, CompleteInv, ReportedExpected, AboutToFlush, OnlyTimeoutsMissTargets

\* The count of the results stands for the set of the targets.
LEMMA CompleteMeansAll ==
    ASSUME NEW res \in [Targets -> Statuses \cup {"missing"}],
           NEW e \in Expectations, expected[e] \subseteq Targets,
           {t \in Targets : res[t] # "missing"} \subseteq expected[e],
           Complete(res, e)
    PROVE  \A t \in expected[e] : res[t] # "missing"
<1> DEFINE S == expected[e]
           T == {t \in Targets : res[t] # "missing"}
<1>1. IsFiniteSet(S)
  BY NotifierAssumption, FS_Subset
<1>2. IsFiniteSet(T) /\ Cardinality(T) <= Cardinality(S)
      /\ (Cardinality(S) = Cardinality(T) => S = T)
  BY <1>1, FS_Subset
<1>3. Cardinality(S) \in Nat /\ Cardinality(T) \in Nat
  BY <1>1, <1>2, FS_CardinalityType
<1>4. Cardinality(T) >= Cardinality(S)
  BY DEF Complete
<1>5. Cardinality(S) = Cardinality(T)
  <2> HIDE DEF S, T
  <2> QED
    BY <1>2, <1>3, <1>4
<1>6. S = T
  BY <1>2, <1>5
<1> QED
  BY <1>6

\* A flush sends complete summaries unless it says that it timed out.
LEMMA FlushComplete ==
    ASSUME CompleteInv, NEW g \in Groups, NEW timedOut \in BOOLEAN,
           Flush(g, timedOut),
           ~timedOut => \A e \in Expectations : GroupOf[e] = g => expected[e] \subseteq Reported(e)
    PROVE  OnlyTimeoutsMissTargets'
<1>1. CASE ~IsOpen(g)
  BY <1>1 DEF CompleteInv, OnlyTimeoutsMissTargets, Flush
<1>2. CASE IsOpen(g)
  <2> DEFINE f == groups[g]
             s == FormatGroup(f, timedOut)
  <2>1. f \in Expectations /\ GroupOf[f] = g /\ ~sent[f]
    BY <1>2 DEF CompleteInv, OnceInv, TypeOK, InMap, IsOpen
  <2>2. summaries[f] = << >>
    BY <2>1 DEF CompleteInv, OnceInv, SentMeansOneSummary
  <2>3. s.timedOut = timedOut /\ s.missing = {t \in expected[f] : results[f][t] = "missing"}
    BY DEF FormatGroup
  <2>4. ~s.timedOut => s.missing = {}
    BY <2>1, <2>3 DEF Reported
  <2>5. summaries' = [summaries EXCEPT ![f] = Append(@, s)]
    BY <1>2 DEF Flush
  <2>6. Append(<< >>, s) = << s >>
    OBVIOUS
  <2>7. summaries'[f] = << s >> /\ \A e \in Expectations : e # f => summaries'[e] = summaries[e]
    BY <2>1, <2>2, <2>5, <2>6 DEF CompleteInv, OnceInv, TypeOK
  <2> HIDE DEF s, f
  <2>8. ASSUME NEW e \in Expectations, NEW i \in DOMAIN summaries'[e], ~summaries'[e][i].timedOut
        PROVE  summaries'[e][i].missing = {}
    <3>1. CASE e = f
      <4>1. i \in 1 .. 1
        BY <2>7, <2>8, <3>1
      <4>2. summaries'[e][i] = s
        BY <2>7, <3>1, <4>1
      <4> QED
        BY <2>4, <2>8, <4>2
    <3>2. CASE e # f
      BY <2>7, <2>8, <3>2 DEF CompleteInv, OnlyTimeoutsMissTargets
    <3> QED
      BY <3>1, <3>2
  <2> QED
    BY <2>8 DEF OnlyTimeoutsMissTargets
<1> QED
  BY <1>1, <1>2

LEMMA StepCompleteInv ==
    ASSUME UniqueGroupIds
    PROVE  CompleteInv /\ [Next]_vars => CompleteInv'
<1> DEFINE Goal == ReportedExpected /\ AboutToFlush /\ OnlyTimeoutsMissTargets
<1> SUFFICES ASSUME CompleteInv, [Next]_vars PROVE Goal'
  BY StepOnceInv DEF CompleteInv
<1>0. OnceInv /\ TypeOK /\ ReportedExpected /\ AboutToFlush /\ OnlyTimeoutsMissTargets
  BY DEF CompleteInv, OnceInv
<1>1. ASSUME NEW e \in Expectations, ExpectStart(e) PROVE Goal'
  <2>1. /\ expectPc[e] = "idle"
        /\ \E pc \in {"store", "done"} : expectPc' = [expectPc EXCEPT ![e] = pc]
        /\ \E S \in SUBSET Targets : expected' = [expected EXCEPT ![e] = S]
        /\ UNCHANGED <<results, summaries, reportPc>>
    <3>1. \E S \in SUBSET Targets : expected' = [expected EXCEPT ![e] = S]
      <4>1. PICK list \in TargetLists :
              \/ UNCHANGED expected
              \/ expected' = [expected EXCEPT ![e] = Dedupe(list)]
        BY <1>1 DEF ExpectStart
      <4>2. expected = [expected EXCEPT ![e] = expected[e]] /\ expected[e] \in SUBSET Targets
        BY <1>0 DEF TypeOK
      <4> QED
        BY <4>1, <4>2, RangeOfList
    <3> QED
      BY <1>1, <3>1 DEF ExpectStart
  <2>2. Reported(e) = {} /\ \A r \in Reports : reportPc[r] = "flush" => GroupOf[e] # GroupOfReport[r]
    BY <1>0, <2>1 DEF ReportedExpected, AboutToFlush
  <2>3. \A f \in Expectations : Reported(f)' = Reported(f)
    BY <2>1 DEF Reported
  <2>4. \A f \in Expectations : f # e => expected'[f] = expected[f] /\ expectPc'[f] = expectPc[f]
    BY <1>0, <2>1 DEF TypeOK
  <2>5. ReportedExpected'
    BY <1>0, <2>2, <2>3, <2>4 DEF ReportedExpected
  <2>6. AboutToFlush'
    BY <1>0, <2>1, <2>2, <2>3, <2>4 DEF AboutToFlush
  <2> QED
    BY <1>0, <2>1, <2>5, <2>6 DEF OnlyTimeoutsMissTargets
<1>2. ASSUME NEW e \in Expectations, ExpectStore(e) PROVE Goal'
  <2>1. \A f \in Expectations : Reported(f)' = Reported(f) /\ (expectPc[f] = "done" => expectPc'[f] = "done")
    BY <1>0, <1>2 DEF ExpectStore, Reported, TypeOK
  <2>2. ReportedExpected'
    <3>1. \A f \in Expectations : f # e => expectPc'[f] = expectPc[f]
      BY <1>0, <1>2 DEF ExpectStore, TypeOK
    <3>2. expectPc'[e] = "done"
      BY <1>0, <1>2 DEF ExpectStore, TypeOK
    <3> QED
      BY <1>0, <1>2, <2>1, <3>1, <3>2 DEF ReportedExpected, ExpectStore
  <2>3. AboutToFlush'
    BY <1>0, <1>2, <2>1 DEF AboutToFlush, ExpectStore
  <2> QED
    BY <1>0, <1>2, <2>2, <2>3 DEF OnlyTimeoutsMissTargets, ExpectStore
<1>3. ASSUME NEW e \in Expectations, TimerFlush(e) PROVE Goal'
  <2>1. GroupOf[e] \in Groups /\ Flush(GroupOf[e], TRUE)
        /\ UNCHANGED <<expected, results, expectPc, reportPc>>
    BY <1>3, NotifierAssumption DEF TimerFlush
  <2>2. OnlyTimeoutsMissTargets'
    BY <2>1, FlushComplete
  <2> QED
    BY <1>0, <2>1, <2>2 DEF ReportedExpected, AboutToFlush, Reported
<1>4. ASSUME NEW r \in Reports, ReportFlush(r) PROVE Goal'
  <2>1. GroupOfReport[r] \in Groups
    BY <1>0, <1>4, ReportGroup DEF ReportFlush
  <2>2. \A e \in Expectations : GroupOf[e] = GroupOfReport[r] => expected[e] \subseteq Reported(e)
    BY <1>0, <1>4 DEF AboutToFlush, ReportFlush
  <2>3. OnlyTimeoutsMissTargets'
    BY <1>4, <2>1, <2>2, FlushComplete DEF ReportFlush
  <2>4. \A x \in Reports : reportPc'[x] = "flush" => reportPc[x] = "flush"
    BY <1>0, <1>4 DEF ReportFlush, TypeOK
  <2> QED
    BY <1>0, <1>4, <2>3, <2>4 DEF ReportedExpected, AboutToFlush, Reported, ReportFlush
<1>5. ASSUME NEW r \in Reports, ReportRecord(r), ~Counts(r) PROVE Goal'
  <2>1. \A x \in Reports : reportPc'[x] = "flush" => reportPc[x] = "flush"
    BY <1>0, <1>5 DEF ReportRecord, TypeOK
  <2>2. UNCHANGED <<results, expected, expectPc, summaries>>
    BY <1>5 DEF ReportRecord
  <2> QED
    BY <1>0, <2>1, <2>2 DEF ReportedExpected, AboutToFlush, Reported, OnlyTimeoutsMissTargets
<1>6. ASSUME NEW r \in Reports, ReportRecord(r), Counts(r) PROVE Goal'
  <2> DEFINE g == GroupOfReport[r]
             t == TargetOfReport[r]
  <2>0. PICK e \in Expectations, new \in [Targets -> Statuses \cup {"missing"}] :
          e = groups[g] /\ new = ResultsWith(r)
    <3>1. g \in Groups /\ t \in Targets /\ status[r] \in Statuses
      BY <1>0, <1>6, ReportGroup DEF ReportRecord, TypeOK
    <3>2. groups[g] \in Expectations
      BY <1>0, <1>6, <3>1 DEF Counts, IsOpen, TypeOK
    <3> QED
      BY <1>0, <3>1, <3>2 DEF ResultsWith, TypeOK
  <2>1. g \in Groups /\ t \in Targets /\ status[r] \in Statuses
    BY <1>0, <1>6, ReportGroup DEF ReportRecord, TypeOK
  <2>2. e \in Expectations /\ GroupOf[e] = g /\ expectPc[e] = "done" /\ t \in expected[e]
    BY <1>0, <1>6, <2>0, <2>1 DEF Counts, IsOpen, OnceInv, TypeOK, InMap
  <2>3. new = [results[e] EXCEPT ![t] = status[r]] /\ results' = [results EXCEPT ![e] = new]
    BY <1>6, <2>0 DEF ReportRecord, ResultsWith
  <2>4. new[t] \in Statuses
        /\ \A u \in Targets : u # t => new[u] = results[e][u]
    BY <1>0, <2>1, <2>2, <2>3 DEF TypeOK
  <2>5. /\ reportPc[r] = "record"
        /\ reportPc' = [reportPc EXCEPT ![r] = IF Complete(new, e) THEN "flush" ELSE "done"]
        /\ UNCHANGED <<expected, expectPc, summaries>>
    BY <1>6, <2>0 DEF ReportRecord
  <2>6. \A f \in Expectations : f # e => results'[f] = results[f]
    BY <1>0, <2>3 DEF TypeOK
  <2>7. results'[e] = new
    BY <1>0, <2>2, <2>3 DEF TypeOK
  <2> HIDE DEF t, g
  <2>8. Reported(e)' = Reported(e) \cup {t}
    BY <2>1, <2>4, <2>7 DEF Reported, Statuses
  <2>9. \A f \in Expectations : f # e => Reported(f)' = Reported(f)
    BY <2>6 DEF Reported
  <2>10. ReportedExpected'
    BY <1>0, <2>2, <2>5, <2>8, <2>9 DEF ReportedExpected
  <2>11. ASSUME NEW x \in Reports, NEW f \in Expectations,
                reportPc'[x] = "flush", GroupOf[f] = GroupOfReport[x]
         PROVE  expectPc'[f] = "done" /\ expected'[f] \subseteq Reported(f)'
    <3>1. CASE x = r
      <4>1. f = e
        BY <2>2, <2>11, <3>1 DEF UniqueGroupIds, g
      <4>2. Complete(new, e)
        BY <1>0, <2>5, <2>11, <3>1 DEF TypeOK
      <4>3. {u \in Targets : new[u] # "missing"} = Reported(e)'
        BY <2>7 DEF Reported
      <4>4. {u \in Targets : new[u] # "missing"} \subseteq expected[e]
        BY <2>2, <2>5, <2>10, <4>3 DEF ReportedExpected
      <4>5. expected[e] \subseteq Targets
        BY <1>0, <2>2 DEF TypeOK
      <4>6. \A u \in expected[e] : new[u] # "missing"
        BY <2>2, <2>4, <4>2, <4>4, <4>5, CompleteMeansAll
      <4> QED
        BY <2>2, <2>5, <4>1, <4>3, <4>5, <4>6
    <3>2. CASE x # r
      <4>1. reportPc[x] = "flush"
        BY <1>0, <2>5, <2>11, <3>2 DEF TypeOK
      <4>2. expectPc[f] = "done" /\ expected[f] \subseteq Reported(f)
        BY <1>0, <2>11, <4>1 DEF AboutToFlush
      <4> QED
        BY <2>5, <2>8, <2>9, <4>2
    <3> QED
      BY <3>1, <3>2
  <2>12. AboutToFlush'
    BY <2>11 DEF AboutToFlush
  <2> QED
    BY <1>0, <2>5, <2>10, <2>12 DEF OnlyTimeoutsMissTargets
<1>7. ASSUME NEW r \in Reports, ReportStart(r) PROVE Goal'
  <2>1. \A x \in Reports : reportPc'[x] = "flush" => reportPc[x] = "flush"
    BY <1>0, <1>7 DEF ReportStart, TypeOK
  <2> QED
    BY <1>0, <1>7, <2>1
       DEF ReportStart, ReportedExpected, AboutToFlush, Reported, OnlyTimeoutsMissTargets
<1>8. CASE UNCHANGED <<expected, results, expectPc, reportPc, summaries>>
  BY <1>0, <1>8 DEF ReportedExpected, AboutToFlush, Reported, OnlyTimeoutsMissTargets
<1> HIDE DEF Goal
<1> QED
  BY <1>1, <1>2, <1>3, <1>4, <1>5, <1>6, <1>7, <1>8
     DEF Next, Expect, Timer, Report, TimerFires, Post, Terminated, vars

\* OnlyTimeoutsMissTargets: although Report releases the mutex between counting
\* the results and flushing (slack.go:154-159), a summary that does not say it
\* timed out has the result of every target, as long as group ids differ.
THEOREM SummariesAreComplete == UniqueGroupIds => (Spec => []OnlyTimeoutsMissTargets)
<1> SUFFICES ASSUME UniqueGroupIds PROVE Spec => []OnlyTimeoutsMissTargets
  OBVIOUS
<1>1. CompleteInv /\ [Next]_vars => CompleteInv'
  BY StepCompleteInv
<1>2. CompleteInv => OnlyTimeoutsMissTargets
  BY DEF CompleteInv
<1> QED
  BY <1>1, <1>2, InitCompleteInv, PTL DEF Spec

-----------------------------------------------------------------------------
(***************************************************************************)
(* Complete groups.  The result that completes a group and the decision to *)
(* flush it are one critical section, the flush is another one.  Whatever  *)
(* flushes the group in between takes it out of the map, and a call of     *)
(* Expect that replaces it brings a state without any result.              *)
(***************************************************************************)

\* A state has no results before it is stored, and a target to wait for.
FreshBeforeStore ==
    \A e \in Expectations :
        /\ expectPc[e] # "done" => Reported(e) = {}
        /\ expectPc[e] = "store" => expected[e] # {}

FlushInv == OnceInv /\ FreshBeforeStore /\ CompleteGroupIsFlushed

LEMMA InitFlushInv == Init => FlushInv
<1> SUFFICES ASSUME Init PROVE FlushInv
  OBVIOUS
<1>1. \A e \in Expectations : Reported(e) = {}
  BY DEF Init, Reported
<1> QED
  BY <1>1, InitOnceInv DEF Init, FlushInv, FreshBeforeStore, CompleteGroupIsFlushed

\* A list of targets that have all been counted is complete.
LEMMA AllMeansComplete ==
    ASSUME NEW res \in [Targets -> Statuses \cup {"missing"}],
           NEW e \in Expectations,
           expected[e] \subseteq {t \in Targets : res[t] # "missing"}
    PROVE  Complete(res, e)
<1> DEFINE S == expected[e]
           T == {t \in Targets : res[t] # "missing"}
<1>1. IsFiniteSet(T)
  BY NotifierAssumption, FS_Subset
<1>2. IsFiniteSet(S) /\ Cardinality(S) <= Cardinality(T)
  BY <1>1, FS_Subset
<1>3. Cardinality(S) \in Nat /\ Cardinality(T) \in Nat
  BY <1>1, <1>2, FS_CardinalityType
<1> HIDE DEF S
<1>4. Cardinality(T) >= Cardinality(S)
  <2> HIDE DEF T
  <2> QED
    BY <1>2, <1>3
<1> QED
  BY <1>4 DEF Complete, S

\* A flush takes its group out of the map and touches no other.
LEMMA FlushRemoves ==
    ASSUME OnceInv, NEW g \in Groups, NEW timedOut \in BOOLEAN, Flush(g, timedOut)
    PROVE  /\ groups'[g] = None
           /\ \A h \in Groups : h # g => groups'[h] = groups[h]
<1>1. CASE ~IsOpen(g)
  BY <1>1 DEF Flush, IsOpen, OnceInv, InMap
<1>2. CASE IsOpen(g)
  BY <1>2 DEF Flush, OnceInv, TypeOK
<1> QED
  BY <1>1, <1>2

LEMMA StepFlushInv == FlushInv /\ [Next]_vars => FlushInv'
<1> DEFINE Goal == FreshBeforeStore /\ CompleteGroupIsFlushed
<1> SUFFICES ASSUME FlushInv, [Next]_vars PROVE Goal'
  BY StepOnceInv DEF FlushInv
<1>0. OnceInv /\ TypeOK /\ FreshBeforeStore /\ CompleteGroupIsFlushed
  BY DEF FlushInv, OnceInv
<1>1. ASSUME NEW e \in Expectations, ExpectStart(e) PROVE Goal'
  <2>1. /\ expectPc[e] = "idle"
        /\ UNCHANGED <<groups, results, reportPc>>
        /\ \A f \in Expectations : f # e => expected'[f] = expected[f] /\ expectPc'[f] = expectPc[f]
        /\ expectPc'[e] = "store" => expected'[e] # {}
    BY <1>0, <1>1 DEF ExpectStart, TypeOK
  <2>2. \A f \in Expectations : Reported(f)' = Reported(f)
    BY <2>1 DEF Reported
  <2>3. \A g \in Groups : groups[g] # e
    BY <1>0, <2>1, NotifierAssumption DEF OnceInv, InMap
  <2>4. FreshBeforeStore'
    BY <1>0, <2>1, <2>2 DEF FreshBeforeStore
  <2>5. ASSUME NEW g \in Groups, groups[g] # None
        PROVE  groups[g] \in Expectations /\ expected'[groups[g]] = expected[groups[g]]
    BY <1>0, <2>1, <2>3, <2>5 DEF TypeOK
  <2>6. CompleteGroupIsFlushed'
    BY <1>0, <2>1, <2>2, <2>5 DEF CompleteGroupIsFlushed
  <2> QED
    BY <2>4, <2>6
<1>2. ASSUME NEW e \in Expectations, ExpectStore(e) PROVE Goal'
  <2>1. /\ expectPc[e] = "store"
        /\ groups' = [groups EXCEPT ![GroupOf[e]] = e]
        /\ expectPc' = [expectPc EXCEPT ![e] = "done"]
        /\ UNCHANGED <<results, expected, reportPc>>
    BY <1>2 DEF ExpectStore
  <2>2. \A f \in Expectations : Reported(f)' = Reported(f)
    BY <2>1 DEF Reported
  <2>3. ~ expected[e] \subseteq Reported(e)
    BY <1>0, <2>1 DEF FreshBeforeStore
  <2>4. FreshBeforeStore'
    BY <1>0, <2>1, <2>2 DEF FreshBeforeStore, TypeOK
  <2>5. ASSUME NEW g \in Groups, groups'[g] # e PROVE groups'[g] = groups[g]
    BY <1>0, <2>1, <2>5, NotifierAssumption DEF TypeOK
  <2>6. \A g \in Groups : groups'[g] # None => groups'[g] \in Expectations
    BY <1>0, <2>1 DEF TypeOK
  <2>7. CompleteGroupIsFlushed'
    BY <1>0, <2>1, <2>2, <2>3, <2>5, <2>6 DEF CompleteGroupIsFlushed
  <2> QED
    BY <2>4, <2>7
<1>3. ASSUME NEW g \in Groups, NEW b \in BOOLEAN, Flush(g, b),
             UNCHANGED <<expected, results, expectPc>>,
             \A x \in Reports : GroupOfReport[x] # g => reportPc'[x] = reportPc[x]
      PROVE  Goal'
  <2>1. groups'[g] = None /\ \A h \in Groups : h # g => groups'[h] = groups[h]
    BY <1>0, <1>3, FlushRemoves
  <2>2. \A f \in Expectations : Reported(f)' = Reported(f)
    BY <1>3 DEF Reported
  <2>3. FreshBeforeStore'
    BY <1>0, <1>3, <2>2 DEF FreshBeforeStore
  <2>4. ASSUME NEW h \in Groups, groups'[h] # None,
               (expected[groups[h]] \subseteq Reported(groups[h]))'
        PROVE  \E r \in Reports : reportPc'[r] = "flush" /\ GroupOfReport[r] = h
    <3>1. h # g /\ groups'[h] = groups[h] /\ groups[h] \in Expectations
      BY <1>0, <2>1, <2>4 DEF TypeOK
    <3>2. expected[groups[h]] \subseteq Reported(groups[h])
      BY <1>3, <2>4, <3>1 DEF Reported
    <3>3. PICK r \in Reports : reportPc[r] = "flush" /\ GroupOfReport[r] = h
      BY <1>0, <2>4, <3>1, <3>2 DEF CompleteGroupIsFlushed
    <3> QED
      BY <1>3, <3>1, <3>3
  <2>5. CompleteGroupIsFlushed'
    BY <2>4 DEF CompleteGroupIsFlushed
  <2> QED
    BY <2>3, <2>5
<1>4. ASSUME NEW e \in Expectations, TimerFlush(e) PROVE Goal'
  <2>1. /\ GroupOf[e] \in Groups
        /\ Flush(GroupOf[e], TRUE)
        /\ UNCHANGED <<expected, results, expectPc, reportPc>>
    BY <1>4, NotifierAssumption DEF TimerFlush
  <2> HIDE DEF Goal
  <2> QED
    BY <1>3, <2>1
<1>5. ASSUME NEW r \in Reports, ReportFlush(r) PROVE Goal'
  <2>1. /\ GroupOfReport[r] \in Groups
        /\ Flush(GroupOfReport[r], FALSE)
        /\ UNCHANGED <<expected, results, expectPc>>
        /\ \A x \in Reports : GroupOfReport[x] # GroupOfReport[r] => reportPc'[x] = reportPc[x]
    <3>1. GroupOfReport[r] \in Groups
      BY <1>0, <1>5, ReportGroup DEF ReportFlush
    <3> QED
      BY <1>0, <1>5, <3>1 DEF ReportFlush, TypeOK
  <2> HIDE DEF Goal
  <2> QED
    BY <1>3, <2>1
<1>6. ASSUME NEW r \in Reports, ReportRecord(r), ~Counts(r) PROVE Goal'
  <2>1. reportPc[r] = "record" /\ reportPc' = [reportPc EXCEPT ![r] = "done"]
        /\ UNCHANGED <<groups, results, expected, expectPc>>
    BY <1>6 DEF ReportRecord
  <2>2. \A x \in Reports : reportPc[x] = "flush" => reportPc'[x] = "flush"
    BY <1>0, <2>1 DEF TypeOK
  <2>3. \A f \in Expectations : Reported(f)' = Reported(f)
    BY <2>1 DEF Reported
  <2>4. FreshBeforeStore'
    BY <1>0, <2>1, <2>3 DEF FreshBeforeStore
  <2>5. \A h \in Groups : groups[h] # None => groups[h] \in Expectations
    BY <1>0 DEF TypeOK
  <2>6. CompleteGroupIsFlushed'
    BY <1>0, <2>1, <2>2, <2>3, <2>5 DEF CompleteGroupIsFlushed
  <2> QED
    BY <2>4, <2>6
<1>7. ASSUME NEW r \in Reports, ReportRecord(r), Counts(r) PROVE Goal'
  <2>1. GroupOfReport[r] \in Groups /\ TargetOfReport[r] \in Targets /\ status[r] \in Statuses
    BY <1>0, <1>7, ReportGroup DEF ReportRecord, TypeOK
  <2>2. PICK e \in Expectations : e = groups[GroupOfReport[r]]
    BY <1>0, <1>7, <2>1 DEF Counts, IsOpen, TypeOK
  <2>3. PICK new \in [Targets -> Statuses \cup {"missing"}] : new = ResultsWith(r)
    BY <1>0, <2>1, <2>2 DEF ResultsWith, TypeOK
  <2>4. GroupOf[e] = GroupOfReport[r] /\ expectPc[e] = "done"
    BY <1>0, <1>7, <2>1, <2>2 DEF Counts, IsOpen, OnceInv, InMap
  <2>5. /\ results' = [results EXCEPT ![e] = new]
        /\ reportPc[r] = "record"
        /\ reportPc' = [reportPc EXCEPT ![r] = IF Complete(new, e) THEN "flush" ELSE "done"]
        /\ UNCHANGED <<groups, expected, expectPc>>
    BY <1>7, <2>2, <2>3 DEF ReportRecord
  <2>6. /\ results'[e] = new
        /\ \A f \in Expectations : f # e => Reported(f)' = Reported(f)
    BY <1>0, <2>5 DEF TypeOK, Reported
  <2>7. \A x \in Reports : reportPc[x] = "flush" => reportPc'[x] = "flush"
    BY <1>0, <2>5 DEF TypeOK
  <2>8. FreshBeforeStore'
    BY <1>0, <2>4, <2>5, <2>6 DEF FreshBeforeStore
  <2>9. ASSUME NEW h \in Groups, groups'[h] # None,
               (expected[groups[h]] \subseteq Reported(groups[h]))'
        PROVE  \E x \in Reports : reportPc'[x] = "flush" /\ GroupOfReport[x] = h
    <3>0. groups'[h] = groups[h] /\ groups[h] \in Expectations /\ GroupOf[groups[h]] = h
      BY <1>0, <2>5, <2>9 DEF TypeOK, OnceInv, InMap
    <3>1. CASE groups[h] = e
      <4>1. h = GroupOfReport[r]
        BY <2>4, <3>0, <3>1
      <4>2. expected[e] \subseteq {t \in Targets : new[t] # "missing"}
        BY <2>5, <2>6, <2>9, <3>0, <3>1 DEF Reported
      <4>3. Complete(new, e)
        BY <4>2, AllMeansComplete
      <4>4. reportPc'[r] = "flush"
        BY <1>0, <2>5, <4>3 DEF TypeOK
      <4> QED
        BY <4>1, <4>4
    <3>2. CASE groups[h] # e
      <4>0. expected[groups[h]] \subseteq Reported(groups[h])
        BY <2>5, <2>6, <2>9, <3>0, <3>2 DEF Reported
      <4>1. PICK x \in Reports : reportPc[x] = "flush" /\ GroupOfReport[x] = h
        BY <1>0, <2>9, <3>0, <4>0 DEF CompleteGroupIsFlushed
      <4> QED
        BY <2>7, <4>1
    <3> QED
      BY <3>1, <3>2
  <2>10. CompleteGroupIsFlushed'
    BY <2>5, <2>9 DEF CompleteGroupIsFlushed
  <2> QED
    BY <2>8, <2>10
<1>8. ASSUME NEW r \in Reports, ReportStart(r) PROVE Goal'
  <2>1. reportPc[r] = "idle" /\ UNCHANGED <<groups, results, expected, expectPc>>
        /\ \A x \in Reports : x # r => reportPc'[x] = reportPc[x]
    BY <1>0, <1>8 DEF ReportStart, TypeOK
  <2>2. \A f \in Expectations : Reported(f)' = Reported(f)
    BY <2>1 DEF Reported
  <2>3. \A h \in Groups : groups[h] # None => groups[h] \in Expectations
    BY <1>0 DEF TypeOK
  <2>4. FreshBeforeStore'
    BY <1>0, <2>1, <2>2 DEF FreshBeforeStore
  <2>5. CompleteGroupIsFlushed'
    BY <1>0, <2>1, <2>2, <2>3 DEF CompleteGroupIsFlushed
  <2> QED
    BY <2>4, <2>5
<1>9. CASE UNCHANGED <<groups, expected, results, expectPc, reportPc>>
  BY <1>0, <1>9 DEF FreshBeforeStore, CompleteGroupIsFlushed, Reported
<1> HIDE DEF Goal
<1> QED
  BY <1>1, <1>2, <1>4, <1>5, <1>6, <1>7, <1>8, <1>9
     DEF Next, Expect, Timer, Report, TimerFires, Post, Terminated, vars

\* CompleteGroupIsFlushed: a group whose targets have all reported does not wait
\* for its timer; a report is about to flush it (slack.go:154-159), also when
\* calls of Expect share a group id and timers fire at any time.
THEOREM CompleteGroupsAreFlushed == Spec => []CompleteGroupIsFlushed
<1>1. FlushInv => CompleteGroupIsFlushed
  BY DEF FlushInv
<1> QED
  BY <1>1, InitFlushInv, StepFlushInv, PTL DEF Spec

-----------------------------------------------------------------------------
(***************************************************************************)
(* The notifier implements GroupSummary, as far as safety goes: its timer  *)
(* callbacks, the two critical sections of a report and the posts all turn *)
(* into one promise per group.  It needs group ids that differ: otherwise  *)
(* a second call of Expect makes the map forget the first one.             *)
(***************************************************************************)

\* The phase of a call of Expect, as Abstract has it.
Phase(e) == IF summaries[e] # <<>> THEN "closed"
            ELSE IF groups[GroupOf[e]] = e THEN "open" ELSE "unused"

KeepsPromise == CompleteInv /\ FreshBeforeStore

\* What the phases mean: a state that is not in the map and has not been sent is
\* unused, and every state is that before it is stored.
LEMMA PhaseMeans ==
    ASSUME OnceInv, NEW e \in Expectations
    PROVE  /\ Phase(e) = "open" <=> groups[GroupOf[e]] = e
           /\ expectPc[e] # "done" => Phase(e) = "unused"
<1>1. GroupOf[e] \in Groups /\ e # None
  BY NotifierAssumption
<1>2. groups[GroupOf[e]] = e => ~sent[e] /\ expectPc[e] = "done"
  BY <1>1 DEF OnceInv, InMap
<1>3. ~sent[e] => summaries[e] = <<>>
  BY DEF OnceInv, SentMeansOneSummary
<1>4. expectPc[e] # "done" => ~sent[e]
  BY DEF OnceInv, NotSentBeforeStore
<1> QED
  BY <1>2, <1>3, <1>4 DEF Phase

\* A step that only moves program counters, timers and posts.
LEMMA NoPhaseChanges ==
    ASSUME UNCHANGED <<groups, expected, results, summaries>>
    PROVE  UNCHANGED Abstract!gvars
BY DEF Abstract!gvars

LEMMA WantImplemented ==
    ASSUME KeepsPromise, NEW e \in Expectations, ExpectStart(e)
    PROVE  Abstract!Want(e) \/ UNCHANGED Abstract!gvars
<1>1. UNCHANGED <<groups, results, summaries>> /\ expectPc[e] = "idle"
  BY DEF ExpectStart
<1>2. Phase(e) = "unused"
  BY <1>1, PhaseMeans DEF KeepsPromise, CompleteInv
<1>3. PICK list \in TargetLists :
          \/ expected' = expected
          \/ expected' = [expected EXCEPT ![e] = Dedupe(list)]
  BY DEF ExpectStart
<1>4. Dedupe(list) \subseteq Targets
  BY NotifierAssumption, RangeOfList DEF Dedupe
<1>5. CASE expected' = expected
  BY <1>1, <1>5, NoPhaseChanges
<1>6. CASE expected' = [expected EXCEPT ![e] = Dedupe(list)]
  BY <1>1, <1>2, <1>4, <1>6 DEF Abstract!Want, Phase
<1> QED
  BY <1>3, <1>5, <1>6

LEMMA OpenImplemented ==
    ASSUME UniqueGroupIds, KeepsPromise, NEW e \in Expectations, ExpectStore(e)
    PROVE  Abstract!Open(e)
<1>1. /\ UNCHANGED <<expected, results, summaries>>
      /\ expectPc[e] = "store"
      /\ groups' = [groups EXCEPT ![GroupOf[e]] = e]
  BY DEF ExpectStore
<1>2. Phase(e) = "unused" /\ summaries[e] = <<>>
  BY <1>1, PhaseMeans DEF KeepsPromise, CompleteInv, Phase
<1>3. expected[e] # {}
  BY <1>1 DEF KeepsPromise, FreshBeforeStore
<1>4. GroupOf[e] \in Groups /\ \A f \in Expectations : f # e => GroupOf[f] \in Groups /\ GroupOf[f] # GroupOf[e]
  BY NotifierAssumption DEF UniqueGroupIds
<1>5. Phase(e)' = "open" /\ \A f \in Expectations : f # e => Phase(f)' = Phase(f)
  BY <1>1, <1>2, <1>4 DEF Phase, KeepsPromise, CompleteInv, OnceInv, TypeOK
<1> QED
  BY <1>1, <1>2, <1>3, <1>5 DEF Abstract!Open, Phase

LEMMA RecordImplemented ==
    ASSUME KeepsPromise, NEW r \in Reports, ReportRecord(r)
    PROVE  (\E e \in Expectations : Abstract!Record(e)) \/ UNCHANGED Abstract!gvars
<1>1. UNCHANGED <<groups, expected, summaries>> /\ reportPc[r] = "record"
  BY DEF ReportRecord
<1>2. CASE ~Counts(r)
  BY <1>1, <1>2, NoPhaseChanges DEF ReportRecord
<1>3. CASE Counts(r)
  <2>1. PICK e \in Expectations : e = groups[GroupOfReport[r]] /\ GroupOf[e] = GroupOfReport[r]
    BY <1>1, <1>3, ReportGroup DEF Counts, IsOpen, KeepsPromise, CompleteInv, OnceInv, InMap, TypeOK
  <2>2. Phase(e) = "open"
    BY <2>1, PhaseMeans DEF KeepsPromise, CompleteInv
  <2>3. TargetOfReport[r] \in expected[e]
    BY <1>3, <2>1 DEF Counts
  <2>4. status[r] \in {"ok", "fail"}
    BY <1>1 DEF KeepsPromise, CompleteInv, OnceInv, TypeOK, Statuses
  <2>5. results' = [results EXCEPT ![e] = [results[e] EXCEPT ![TargetOfReport[r]] = status[r]]]
    BY <1>3, <2>1 DEF ReportRecord, ResultsWith
  <2> QED
    BY <1>1, <2>2, <2>3, <2>4, <2>5 DEF Abstract!Record, Phase
<1> QED
  BY <1>2, <1>3

\* A flush closes the group it finds; without a timeout, all of its targets have
\* reported.
LEMMA CloseImplemented ==
    ASSUME KeepsPromise, NEW g \in Groups, NEW timedOut \in BOOLEAN, Flush(g, timedOut),
           UNCHANGED <<expected, results>>,
           IsOpen(g) => timedOut \/ expected[groups[g]] \subseteq Reported(groups[g])
    PROVE  (\E e \in Expectations : Abstract!Close(e)) \/ UNCHANGED Abstract!gvars
<1>1. CASE ~IsOpen(g)
  BY <1>1, NoPhaseChanges DEF Flush
<1>2. CASE IsOpen(g)
  <2>1. PICK e \in Expectations : e = groups[g] /\ GroupOf[e] = g /\ ~sent[e]
    BY <1>2 DEF IsOpen, KeepsPromise, CompleteInv, OnceInv, InMap, TypeOK
  <2>2. Phase(e) = "open" /\ summaries[e] = <<>>
    BY <2>1, PhaseMeans DEF KeepsPromise, CompleteInv, OnceInv, SentMeansOneSummary
  <2>3. /\ groups' = [groups EXCEPT ![g] = None]
        /\ summaries' = [summaries EXCEPT ![e] = Append(@, FormatGroup(e, timedOut))]
    BY <1>2, <2>1 DEF Flush
  <2>4. summaries' = [summaries EXCEPT ![e] = <<FormatGroup(e, timedOut)>>]
    BY <2>2, <2>3 DEF KeepsPromise, CompleteInv, OnceInv, TypeOK
  <2>5. Phase(e)' = "closed"
    BY <2>4 DEF Phase, KeepsPromise, CompleteInv, OnceInv, TypeOK
  <2>6. ASSUME NEW f \in Expectations, f # e PROVE Phase(f)' = Phase(f)
    <3>1. summaries'[f] = summaries[f]
      BY <2>4, <2>6 DEF KeepsPromise, CompleteInv, OnceInv, TypeOK
    <3>2. GroupOf[f] \in Groups /\ f # None
      BY NotifierAssumption
    <3>3. groups'[GroupOf[f]] = f <=> groups[GroupOf[f]] = f
      BY <2>1, <2>3, <2>6, <3>2 DEF KeepsPromise, CompleteInv, OnceInv, TypeOK
    <3> QED
      BY <3>1, <3>3 DEF Phase
  <2>7. /\ Abstract!Missing(e) = FormatGroup(e, timedOut).missing
        /\ Abstract!Failed(e) = FormatGroup(e, timedOut).failed
        /\ FormatGroup(e, timedOut) = [timedOut |-> timedOut, failed |-> Abstract!Failed(e),
                                       missing |-> Abstract!Missing(e)]
    BY DEF FormatGroup, Abstract!Missing, Abstract!Failed
  <2>8. Abstract!Missing(e) = {} \/ timedOut
    BY <1>2, <2>1 DEF Abstract!Missing, Reported
  <2>9. [f \in Expectations |-> Phase(f)]' = [[f \in Expectations |-> Phase(f)] EXCEPT ![e] = "closed"]
    BY <2>5, <2>6
  <2>10. Abstract!Close(e)
    BY <2>2, <2>4, <2>7, <2>8, <2>9 DEF Abstract!Close, Phase
  <2> QED
    BY <2>10
<1> QED
  BY <1>1, <1>2

LEMMA StepKeepsPromise ==
    ASSUME UniqueGroupIds, KeepsPromise, [Next]_vars
    PROVE  [Abstract!Next]_(Abstract!gvars)
<1>1. ASSUME NEW e \in Expectations, TimerFlush(e) PROVE [Abstract!Next]_(Abstract!gvars)
  <2>1. GroupOf[e] \in Groups /\ Flush(GroupOf[e], TRUE) /\ UNCHANGED <<expected, results>>
    BY <1>1, NotifierAssumption DEF TimerFlush
  <2> QED
    BY <2>1, CloseImplemented DEF Abstract!Next
<1>2. ASSUME NEW r \in Reports, ReportFlush(r) PROVE [Abstract!Next]_(Abstract!gvars)
  <2>1. /\ reportPc[r] = "flush"
        /\ GroupOfReport[r] \in Groups
        /\ Flush(GroupOfReport[r], FALSE)
        /\ UNCHANGED <<expected, results>>
    BY <1>2, ReportGroup DEF ReportFlush, KeepsPromise, CompleteInv, OnceInv
  <2>2. ASSUME IsOpen(GroupOfReport[r])
        PROVE  expected[groups[GroupOfReport[r]]] \subseteq Reported(groups[GroupOfReport[r]])
    <3>1. PICK e \in Expectations : e = groups[GroupOfReport[r]] /\ GroupOf[e] = GroupOfReport[r]
      BY <2>1, <2>2 DEF IsOpen, KeepsPromise, CompleteInv, OnceInv, InMap, TypeOK
    <3> QED
      BY <2>1, <3>1 DEF KeepsPromise, CompleteInv, AboutToFlush
  <2> QED
    BY <2>1, <2>2, CloseImplemented DEF Abstract!Next
<1>3. CASE UNCHANGED <<groups, expected, results, summaries>>
  BY <1>3, NoPhaseChanges
<1> QED
  BY <1>1, <1>2, <1>3, WantImplemented, OpenImplemented, RecordImplemented
     DEF Next, Expect, Timer, Report, ReportStart, TimerFires, Post, Terminated, vars, Abstract!Next

\* ImplementsGroupSummary without its fairness, Abstract!Spec: in every behaviour
\* of the notifier each group is opened at most once, collects outcomes only while
\* it is open, and is closed at most once, with a verdict on what it has collected
\* and with targets missing only after a timeout (slack.go:58-78, 136-178).
THEOREM NotifierImplementsSummary == UniqueGroupIds => (Spec => Abstract!Spec)
<1> SUFFICES ASSUME UniqueGroupIds PROVE Spec => Abstract!Spec
  OBVIOUS
<1>1. Init => Abstract!Init
  <2> SUFFICES ASSUME Init PROVE Abstract!Init
    OBVIOUS
  <2>1. \A e \in Expectations : summaries[e] = <<>> /\ groups[GroupOf[e]] # e
    BY NotifierAssumption DEF Init
  <2> QED
    BY <2>1 DEF Init, Abstract!Init
<1>2. KeepsPromise /\ [Next]_vars => [Abstract!Next]_(Abstract!gvars)
  BY StepKeepsPromise
<1>3. CompleteInv /\ FlushInv => KeepsPromise
  BY DEF FlushInv, KeepsPromise
<1> QED
  BY <1>1, <1>2, <1>3, InitCompleteInv, StepCompleteInv, InitFlushInv, StepFlushInv, PTL
     DEF Spec, Abstract!Spec

-----------------------------------------------------------------------------
(***************************************************************************)
(* What a summary says of the reports that counted for its group.          *)
(***************************************************************************)

\* What has been reported of target t and counted for the state of call e.
ReportedOf(e, t) == {status[r] : r \in {x \in counted[e] : TargetOfReport[x] = t}}

\* Nothing counts for a state that has not been stored.
CountedAfterStore == \A e \in Expectations : expectPc[e] # "done" => counted[e] = {}

\* A report counts once, for a target of its group.
CountedIsRecorded ==
    \A e \in Expectations : \A r \in counted[e] :
        /\ r \in Reports
        /\ reportPc[r] \in {"flush", "done"}
        /\ GroupOfReport[r] = GroupOf[e]
        /\ TargetOfReport[r] \in expected[e]

\* The results of a state are those of reports that counted for it.
ResultsAreReported ==
    \A e \in Expectations, t \in Targets :
        IF results[e][t] = "missing" THEN ReportedOf(e, t) = {}
                                     ELSE results[e][t] \in ReportedOf(e, t)

TellInv == CountedAfterStore /\ CountedIsRecorded /\ ResultsAreReported /\ SummaryTellsReports

LEMMA TellInit == Init => TellInv
<1> SUFFICES ASSUME Init PROVE TellInv
  OBVIOUS
<1>1. /\ \A e \in Expectations : summaries[e] = <<>> /\ counted[e] = {}
      /\ \A e \in Expectations, t \in Targets : results[e][t] = "missing"
  BY DEF Init
<1>2. \A e \in Expectations, t \in Targets : ReportedOf(e, t) = {}
  BY <1>1 DEF ReportedOf
<1> QED
  BY <1>1, <1>2 DEF TellInv, CountedAfterStore, CountedIsRecorded, ResultsAreReported, SummaryTellsReports

\* SummaryTellsReports, of one summary.
Tells(e, summary) ==
    \A t \in expected[e] :
        /\ t \in summary.missing <=> ReportedOf(e, t) = {}
        /\ t \in summary.failed => "fail" \in ReportedOf(e, t)
        /\ t \notin summary.failed \cup summary.missing => "ok" \in ReportedOf(e, t)

LEMMA TellsOne ==
    SummaryTellsReports <=>
        \A e \in Expectations : \A i \in DOMAIN summaries[e] : Tells(e, summaries[e][i])
BY DEF SummaryTellsReports, Tells, ReportedOf

\* Two states in which the same has been reported of the targets of e.
LEMMA TellsStays ==
    ASSUME NEW e \in Expectations, NEW summary, Tells(e, summary),
           expected'[e] = expected[e],
           \A t \in expected[e] : ReportedOf(e, t)' = ReportedOf(e, t)
    PROVE  Tells(e, summary)'
BY DEF Tells

LEMMA TellStays ==
    ASSUME ResultsAreReported, SummaryTellsReports,
           UNCHANGED <<expected, results, status, summaries, counted>>
    PROVE  ResultsAreReported' /\ SummaryTellsReports'
<1>1. \A e, t : ReportedOf(e, t)' = ReportedOf(e, t)
  BY DEF ReportedOf
<1>2. ResultsAreReported'
  BY <1>1 DEF ResultsAreReported
<1>3. ASSUME NEW e \in Expectations, NEW i \in DOMAIN summaries[e] PROVE Tells(e, summaries[e][i])'
  BY <1>1, TellsOne DEF Tells
<1>4. SummaryTellsReports'
  BY <1>3 DEF SummaryTellsReports, Tells, ReportedOf
<1> QED
  BY <1>2, <1>4

\* The text of a flush is rendered from the results.
LEMMA FormatTells ==
    ASSUME TypeOK, ResultsAreReported, NEW e \in Expectations, NEW timedOut \in BOOLEAN
    PROVE  Tells(e, FormatGroup(e, timedOut))
<1> SUFFICES ASSUME NEW t \in expected[e]
             PROVE  /\ t \in FormatGroup(e, timedOut).missing <=> ReportedOf(e, t) = {}
                    /\ t \in FormatGroup(e, timedOut).failed => "fail" \in ReportedOf(e, t)
                    /\ t \notin FormatGroup(e, timedOut).failed \cup FormatGroup(e, timedOut).missing =>
                          "ok" \in ReportedOf(e, t)
  BY DEF Tells
<1>1. t \in Targets /\ results[e][t] \in {"ok", "fail", "missing"}
  BY DEF TypeOK, Statuses
<1>2. /\ t \in FormatGroup(e, timedOut).missing <=> results[e][t] = "missing"
      /\ t \in FormatGroup(e, timedOut).failed <=> results[e][t] = "fail"
  BY DEF FormatGroup
<1> QED
  BY <1>1, <1>2 DEF ResultsAreReported

LEMMA FlushTellInv ==
    ASSUME OnceInv, TellInv, NEW g \in Groups, NEW timedOut \in BOOLEAN, Flush(g, timedOut),
           UNCHANGED <<expected, results, expectPc, status, counted>>,
           \A r \in Reports : reportPc[r] \in {"flush", "done"} => reportPc'[r] \in {"flush", "done"}
    PROVE  TellInv'
<1>1. \A e \in Expectations, t \in Targets : ReportedOf(e, t)' = ReportedOf(e, t)
  BY DEF ReportedOf
<1>2. CountedAfterStore' /\ CountedIsRecorded' /\ ResultsAreReported'
  BY <1>1 DEF TellInv, CountedAfterStore, CountedIsRecorded, ResultsAreReported
<1>3. ASSUME NEW e \in Expectations, NEW summary, Tells(e, summary) PROVE Tells(e, summary)'
  <2>1. expected[e] \subseteq Targets
    BY DEF OnceInv, TypeOK
  <2> QED
    BY <1>1, <1>3, <2>1, TellsStays
<1>4. ASSUME NEW e \in Expectations, NEW i \in DOMAIN summaries'[e]
      PROVE  Tells(e, summaries[e][i])'
  <2>1. CASE summaries'[e] = summaries[e]
    <3>1. Tells(e, summaries[e][i])
      BY <1>4, <2>1, TellsOne DEF TellInv
    <3>2. PICK text : text = summaries[e][i]
      OBVIOUS
    <3>3. Tells(e, text)'
      BY <1>3, <3>1, <3>2
    <3> QED
      BY <2>1, <3>2, <3>3 DEF Tells
  <2>2. CASE summaries'[e] # summaries[e]
    <3>1. PICK text : text = FormatGroup(e, timedOut)
      OBVIOUS
    <3>2. IsOpen(g) /\ summaries' = [summaries EXCEPT ![groups[g]] = Append(@, FormatGroup(groups[g], timedOut))]
      BY <2>2 DEF Flush
    <3>3. groups[g] = e /\ ~sent[e]
      BY <2>2, <3>2 DEF IsOpen, OnceInv, TypeOK
    <3>4. summaries[e] = <<>>
      BY <3>3 DEF OnceInv, SentMeansOneSummary
    <3>5. summaries'[e] = <<text>>
      BY <3>1, <3>2, <3>3, <3>4 DEF OnceInv, TypeOK
    <3>6. Tells(e, text)
      BY <3>1, FormatTells DEF TellInv, OnceInv
    <3>7. Tells(e, text)'
      BY <1>3, <3>6
    <3>8. summaries'[e][i] = text
      BY <1>4, <3>5
    <3> QED
      BY <3>7, <3>8 DEF Tells
  <2> QED
    BY <2>1, <2>2
<1>5. SummaryTellsReports'
  BY <1>4 DEF SummaryTellsReports, Tells, ReportedOf
<1> QED
  BY <1>2, <1>5 DEF TellInv

LEMMA RecordTellInv ==
    ASSUME OnceInv, TellInv, NEW r \in Reports, ReportRecord(r)
    PROVE  TellInv'
<1>1. /\ UNCHANGED <<groups, expected, expectPc, status, summaries>>
      /\ reportPc[r] = "record" /\ reportPc'[r] \in {"flush", "done"}
      /\ \A x \in Reports : x # r => reportPc'[x] = reportPc[x]
  BY DEF ReportRecord, OnceInv, TypeOK
<1>2. \A e \in Expectations : r \notin counted[e]
  BY <1>1 DEF TellInv, CountedIsRecorded
<1>3. CASE ~Counts(r)
  <2>1. UNCHANGED <<results, counted>>
    BY <1>3 DEF ReportRecord
  <2>2. CountedIsRecorded'
    BY <1>1, <1>2, <2>1 DEF TellInv, CountedIsRecorded
  <2>3. CountedAfterStore'
    BY <1>1, <2>1 DEF TellInv, CountedAfterStore
  <2> QED
    BY <1>1, <2>1, <2>2, <2>3, TellStays DEF TellInv
<1>4. CASE Counts(r)
  <2>1. PICK t \in Targets : t = TargetOfReport[r]
    BY <1>1, ReportGroup DEF OnceInv
  <2>2. PICK e \in Expectations :
            /\ e = groups[GroupOfReport[r]] /\ GroupOf[e] = GroupOfReport[r]
            /\ expectPc[e] = "done" /\ ~sent[e] /\ t \in expected[e]
    BY <1>1, <1>4, <2>1, ReportGroup DEF Counts, IsOpen, OnceInv, InMap, TypeOK
  <2>3. /\ results' = [results EXCEPT ![e] = [results[e] EXCEPT ![t] = status[r]]]
        /\ counted' = [counted EXCEPT ![e] = @ \cup {r}]
    BY <1>4, <2>1, <2>2 DEF ReportRecord, ResultsWith
  <2>4. /\ results'[e][t] = status[r] /\ status[r] # "missing"
        /\ \A f \in Expectations, u \in Targets : ~(f = e /\ u = t) => results'[f][u] = results[f][u]
    BY <1>1, <2>1, <2>3 DEF OnceInv, TypeOK, Statuses
  <2>5. counted'[e] = counted[e] \cup {r} /\ \A f \in Expectations : f # e => counted'[f] = counted[f]
    BY <2>3 DEF OnceInv, TypeOK
  <2>6. summaries[e] = <<>>
    BY <2>2 DEF OnceInv, SentMeansOneSummary
  <2>7. /\ status[r] \in ReportedOf(e, t)'
        /\ \A f \in Expectations, u \in Targets : ~(f = e /\ u = t) => ReportedOf(f, u)' = ReportedOf(f, u)
    BY <1>1, <2>1, <2>5 DEF ReportedOf
  <2>8. CountedAfterStore'
    BY <1>1, <2>2, <2>5 DEF TellInv, CountedAfterStore
  <2>9. CountedIsRecorded'
    BY <1>1, <1>2, <2>1, <2>2, <2>5 DEF TellInv, CountedIsRecorded
  <2>10. ResultsAreReported'
    BY <1>1, <2>4, <2>7 DEF TellInv, ResultsAreReported
  <2>11. SummaryTellsReports'
    <3>1. ASSUME NEW f \in Expectations, NEW i \in DOMAIN summaries[f] PROVE Tells(f, summaries[f][i])'
      <4>1. f # e
        BY <2>6
      <4>2. Tells(f, summaries[f][i])
        BY TellsOne DEF TellInv
      <4>3. expected[f] \subseteq Targets
        BY DEF OnceInv, TypeOK
      <4> QED
        BY <1>1, <2>7, <4>1, <4>2, <4>3 DEF Tells
    <3> QED
      BY <1>1, <3>1 DEF SummaryTellsReports, Tells, ReportedOf
  <2> QED
    BY <2>8, <2>9, <2>10, <2>11 DEF TellInv
<1> QED
  BY <1>3, <1>4

LEMMA StepTellInv == OnceInv /\ TellInv /\ [Next]_vars => TellInv'
<1> SUFFICES ASSUME OnceInv, TellInv, [Next]_vars PROVE TellInv'
  OBVIOUS
<1>1. ASSUME UNCHANGED <<expected, results, expectPc, reportPc, status, summaries, counted>> PROVE TellInv'
  <2>1. CountedAfterStore' /\ CountedIsRecorded'
    BY <1>1 DEF TellInv, CountedAfterStore, CountedIsRecorded
  <2> QED
    BY <1>1, <2>1, TellStays DEF TellInv
<1>2. ASSUME NEW e \in Expectations, ExpectStart(e) PROVE TellInv'
  <2>1. /\ expectPc[e] = "idle" /\ UNCHANGED <<sent, results, reportPc, status, summaries, counted>>
        /\ expectPc'[e] # "idle" /\ \A f \in Expectations : f # e => expectPc'[f] = expectPc[f]
        /\ \A f \in Expectations : f # e => expected'[f] = expected[f]
    BY <1>2 DEF ExpectStart, OnceInv, TypeOK
  <2>2. counted[e] = {} /\ summaries[e] = <<>>
    BY <2>1 DEF TellInv, CountedAfterStore, OnceInv, NotSentBeforeStore, SentMeansOneSummary
  <2>3. CountedAfterStore' /\ CountedIsRecorded'
    BY <2>1, <2>2 DEF TellInv, CountedAfterStore, CountedIsRecorded
  <2>4. ResultsAreReported'
    BY <2>1 DEF TellInv, ResultsAreReported, ReportedOf
  <2>5. SummaryTellsReports'
    <3>1. ASSUME NEW f \in Expectations, NEW i \in DOMAIN summaries[f] PROVE Tells(f, summaries[f][i])'
      <4>1. f # e
        BY <2>2
      <4>2. Tells(f, summaries[f][i])
        BY TellsOne DEF TellInv
      <4> QED
        BY <2>1, <4>1, <4>2 DEF Tells, ReportedOf
    <3> QED
      BY <2>1, <3>1 DEF SummaryTellsReports, Tells, ReportedOf
  <2> QED
    BY <2>3, <2>4, <2>5 DEF TellInv
<1>3. ASSUME NEW e \in Expectations, ExpectStore(e) PROVE TellInv'
  <2>1. /\ UNCHANGED <<expected, results, reportPc, status, summaries, counted>>
        /\ \A f \in Expectations : expectPc'[f] # "done" => expectPc[f] # "done"
    BY <1>3 DEF ExpectStore, OnceInv, TypeOK
  <2>2. CountedAfterStore' /\ CountedIsRecorded'
    BY <2>1 DEF TellInv, CountedAfterStore, CountedIsRecorded
  <2> QED
    BY <2>1, <2>2, TellStays DEF TellInv
<1>4. ASSUME NEW e \in Expectations, TimerFlush(e) PROVE TellInv'
  <2>1. GroupOf[e] \in Groups /\ Flush(GroupOf[e], TRUE)
        /\ UNCHANGED <<expected, results, expectPc, reportPc, status, counted>>
    BY <1>4, NotifierAssumption DEF TimerFlush
  <2> QED
    BY <2>1, FlushTellInv
<1>5. ASSUME NEW r \in Reports, ReportStart(r) PROVE TellInv'
  <2>1. /\ reportPc[r] = "idle" /\ UNCHANGED <<expected, results, expectPc, summaries, counted>>
        /\ \A x \in Reports : x # r => reportPc'[x] = reportPc[x] /\ status'[x] = status[x]
    BY <1>5 DEF ReportStart, OnceInv, TypeOK
  <2>2. \A e \in Expectations : \A x \in counted[e] : x \in Reports /\ status'[x] = status[x]
    BY <2>1 DEF TellInv, CountedIsRecorded
  <2>3. \A e \in Expectations : \A t : ReportedOf(e, t)' = ReportedOf(e, t)
    BY <2>1, <2>2 DEF ReportedOf
  <2>4. CountedAfterStore' /\ CountedIsRecorded' /\ ResultsAreReported'
    BY <2>1, <2>3 DEF TellInv, CountedAfterStore, CountedIsRecorded, ResultsAreReported
  <2>5. SummaryTellsReports'
    <3>1. ASSUME NEW e \in Expectations, NEW i \in DOMAIN summaries[e] PROVE Tells(e, summaries[e][i])'
      BY <2>1, <2>3, TellsOne DEF TellInv, Tells
    <3> QED
      BY <2>1, <3>1 DEF SummaryTellsReports, Tells, ReportedOf
  <2> QED
    BY <2>4, <2>5 DEF TellInv
<1>6. ASSUME NEW r \in Reports, ReportFlush(r) PROVE TellInv'
  <2>1. GroupOfReport[r] \in Groups
    BY <1>6, ReportGroup DEF ReportFlush, OnceInv
  <2>2. Flush(GroupOfReport[r], FALSE) /\ UNCHANGED <<expected, results, expectPc, status, counted>>
    BY <1>6 DEF ReportFlush
  <2>3. \A x \in Reports : reportPc[x] \in {"flush", "done"} => reportPc'[x] \in {"flush", "done"}
    BY <1>6 DEF ReportFlush, OnceInv, TypeOK
  <2> QED
    BY <2>1, <2>2, <2>3, FlushTellInv
<1> QED
  BY <1>1, <1>2, <1>3, <1>4, <1>5, <1>6, RecordTellInv
     DEF Next, Expect, Timer, Report, TimerFires, Post, Terminated, vars

LEMMA TellInvHolds == Spec => []TellInv
BY TellInit, StepTellInv, OnceInvHolds, PTL DEF Spec

\* SummaryTellsReports: no summary invents or drops an outcome, whatever arrives while
\* it is rendered, and although group ids may be shared and targets reported twice
\* (slack.go:133-178, 189).
THEOREM SummariesTellReports == Spec => []SummaryTellsReports
BY TellInvHolds, PTL DEF TellInv

\* No two reports of a group are for the same target (they are when two entries of
\* targets.json have the same type and label, or when collectAll reports on behalf
\* of a collection whose answer was lost).
DistinctReports ==
    \A r, s \in Reports :
        /\ GroupOfReport[r] \in Groups
        /\ GroupOfReport[r] = GroupOfReport[s]
        /\ TargetOfReport[r] = TargetOfReport[s]
        => r = s

\* FailuresAreListed: a failure that counted for a group makes its summary a warning
\* and is listed there (README.md:33), as long as the targets of a group differ in
\* type or label.
THEOREM CountedFailuresAreListed == DistinctReports => (Spec => []FailuresAreListed)
<1> SUFFICES ASSUME DistinctReports PROVE Spec => []FailuresAreListed
  OBVIOUS
<1>1. TellInv => FailuresAreListed
  <2> SUFFICES ASSUME TellInv, NEW e \in Expectations, NEW i \in DOMAIN summaries[e],
                      NEW r \in counted[e], status[r] = "fail"
               PROVE  TargetOfReport[r] \in summaries[e][i].failed
    BY DEF FailuresAreListed, Warns
  <2>1. PICK t \in expected[e] : t = TargetOfReport[r]
    BY DEF TellInv, CountedIsRecorded
  <2>2. ReportedOf(e, t) = {"fail"}
    <3>1. ASSUME NEW x \in counted[e], TargetOfReport[x] = t PROVE x = r
      <4>1. /\ x \in Reports /\ GroupOfReport[x] = GroupOf[e]
            /\ r \in Reports /\ GroupOfReport[r] = GroupOf[e]
        BY DEF TellInv, CountedIsRecorded
      <4> QED
        BY <2>1, <3>1, <4>1, NotifierAssumption DEF DistinctReports
    <3> QED
      BY <2>1, <3>1 DEF ReportedOf
  <2>3. Tells(e, summaries[e][i])
    BY TellsOne DEF TellInv
  <2> QED
    BY <2>1, <2>2, <2>3 DEF Tells
<1> QED
  BY <1>1, TellInvHolds, PTL

=============================================================================
