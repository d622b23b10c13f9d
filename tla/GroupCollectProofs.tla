-------------------------- MODULE GroupCollectProofs --------------------------
(***************************************************************************)
(* Theorems about GroupCollect, for any targets, group collections and     *)
(* requests of other clients.  The notifier of a group collection behaves  *)
(* as SlackNotifier says, so what SlackNotifierProofs has about its state  *)
(* is used here and not proved again.                                      *)
(***************************************************************************)
EXTENDS GroupCollect, TLAPS, FiniteSetTheorems

USE GroupCollectAssumption

NotifierProofs == INSTANCE SlackNotifierProofs WITH
    Expectations   <- Collections,
    GroupOf        <- GroupIdOf,
    TargetLists    <- ExpectLists,
    TimerMayWin    <- FALSE

-----------------------------------------------------------------------------
(***************************************************************************)
(* The requests, their reports and the notifier's assumptions.             *)
(***************************************************************************)

LEMMA RequestParts ==
    /\ \A c \in Collections : \A q \in RequestsOf(c) :
          /\ q \in Requests /\ q \notin Direct /\ q[1] = c /\ q[2] \in DOMAIN TargetsFile
          /\ TargetOf(q) = TargetsFile[q[2]] /\ GroupOfRequest(q) = GroupIdOf[c]
    /\ \A q \in Requests :
          q \in Direct \/ (q[1] \in Collections /\ q \in RequestsOf(q[1]))
<1>1. ASSUME NEW c \in Collections, NEW q \in RequestsOf(c)
      PROVE  /\ q \in Requests /\ q \notin Direct /\ q[1] = c /\ q[2] \in DOMAIN TargetsFile
  <2>1. q \in {c} \X DOMAIN TargetsFile
    BY DEF RequestsOf
  <2>2. q[1] = c /\ q[2] \in DOMAIN TargetsFile
    BY <2>1
  <2>3. q \in Requests
    BY DEF Requests
  <2> QED
    BY <2>2, <2>3
<1>2. ASSUME NEW q \in Requests, q \notin Direct
      PROVE  q[1] \in Collections /\ q \in RequestsOf(q[1])
  <2>1. PICK c \in Collections : q \in RequestsOf(c)
    <3>1. PICK S \in {RequestsOf(c) : c \in Collections} : q \in S
      BY <1>2 DEF Requests
    <3> QED
      BY <3>1
  <2> QED
    BY <1>1, <2>1
<1> QED
  BY <1>1, <1>2 DEF TargetOf, GroupOfRequest

LEMMA RequestTypes ==
    ASSUME NEW q \in Requests
    PROVE  TargetOf(q) \in Targets /\ GroupOfRequest(q) \in Groups \cup {NoGroup}
<1>1. CASE q \in Direct
  BY <1>1 DEF TargetOf, GroupOfRequest
<1>2. CASE q \notin Direct
  <2>1. q[1] \in Collections /\ q[2] \in DOMAIN TargetsFile
    BY <1>2, RequestParts
  <2>2. TargetsFile[q[2]] \in Targets
    BY <2>1
  <2> QED
    BY <1>2, <2>1, <2>2 DEF TargetOf, GroupOfRequest
<1> QED
  BY <1>1, <1>2

LEMMA ReportParts ==
    ASSUME NEW q \in Requests
    PROVE  /\ HookReport(q) \in Reports /\ ProxyReport(q) \in Reports
           /\ HookReport(q) # ProxyReport(q)
           /\ GroupOfReport[HookReport(q)] = GroupOfRequest(q)
           /\ GroupOfReport[ProxyReport(q)] = GroupOfRequest(q)
           /\ TargetOfReport[HookReport(q)] = TargetOf(q)
           /\ TargetOfReport[ProxyReport(q)] = TargetOf(q)
BY DEF HookReport, ProxyReport, Reports, GroupOfReport, TargetOfReport

LEMMA ReportsAreOfRequests ==
    ASSUME NEW r \in Reports
    PROVE  r[1] \in Requests /\ (r = HookReport(r[1]) \/ r = ProxyReport(r[1]))
BY DEF HookReport, ProxyReport, Reports

LEMMA NotifierMayAssume == NotifierProofs!NotifierAssumption
<1>1. NotifierProofs!IsFiniteSet(Targets)
  BY DEF IsFiniteSet, NotifierProofs!IsFiniteSet
<1>2. ExpectLists \subseteq Seq(Targets)
  BY DEF ExpectLists
<1>3. GroupOfReport \in [Reports -> Groups \cup {NoGroup}]
  BY RequestTypes DEF GroupOfReport, Reports
<1>4. TargetOfReport \in [Reports -> Targets]
  BY RequestTypes DEF TargetOfReport, Reports
<1> QED
  BY <1>1, <1>2, <1>3, <1>4 DEF NotifierProofs!NotifierAssumption


-----------------------------------------------------------------------------
(***************************************************************************)
(* A group collection does with the notifier only what the notifier lets   *)
(* anybody do.                                                             *)
(***************************************************************************)

LEMMA StepsAreTheNotifiers == [Next]_vars => [NotifierProofs!Next]_(NotifierProofs!vars)
<1> SUFFICES ASSUME [Next]_vars PROVE NotifierProofs!Next \/ UNCHANGED NotifierProofs!vars
  OBVIOUS
<1>1. notifierVars' = notifierVars => UNCHANGED NotifierProofs!vars
  BY DEF notifierVars, NotifierProofs!vars
<1>2. ASSUME NEW r \in Reports, Notifier!ReportStart(r) PROVE NotifierProofs!Next
  <2>1. NotifierProofs!ReportStart(r)
    BY <1>2 DEF Notifier!ReportStart, NotifierProofs!ReportStart, Notifier!FailurePost,
                NotifierProofs!FailurePost, Notifier!Statuses, NotifierProofs!Statuses
  <2> QED
    BY <2>1 DEF NotifierProofs!Next, NotifierProofs!Report
<1>3. ASSUME NEW c \in Collections, Notifier!Expect(c) PROVE NotifierProofs!Next
  <2>1. NotifierProofs!Expect(c)
    BY <1>3 DEF Notifier!Expect, NotifierProofs!Expect, Notifier!ExpectStart, NotifierProofs!ExpectStart,
                Notifier!ExpectStore, NotifierProofs!ExpectStore, Notifier!Dedupe, NotifierProofs!Dedupe,
                Notifier!Range, NotifierProofs!Range
  <2> QED
    BY <2>1 DEF NotifierProofs!Next
<1>4. CASE NotifierStep
  <2>1. ASSUME NEW g, NEW b PROVE Notifier!Flush(g, b) <=> NotifierProofs!Flush(g, b)
    BY DEF Notifier!Flush, NotifierProofs!Flush, Notifier!IsOpen, NotifierProofs!IsOpen,
           Notifier!FormatGroup, NotifierProofs!FormatGroup, Notifier!SummaryPost, NotifierProofs!SummaryPost
  <2>2. ASSUME NEW g, NEW t PROVE Notifier!StopTimer(g, t) = NotifierProofs!StopTimer(g, t)
    BY DEF Notifier!StopTimer, NotifierProofs!StopTimer, Notifier!IsOpen, NotifierProofs!IsOpen
  <2>3. ASSUME NEW c \in Collections, Notifier!Timer(c) PROVE NotifierProofs!Next
    <3>1. NotifierProofs!Timer(c)
      BY <2>1, <2>2, <2>3 DEF Notifier!Timer, NotifierProofs!Timer, Notifier!TimerFires, NotifierProofs!TimerFires,
                  Notifier!TimerFlush, NotifierProofs!TimerFlush
    <3> QED
      BY <3>1 DEF NotifierProofs!Next
  <2>4. ASSUME NEW r \in Reports, Notifier!ReportRecord(r) PROVE NotifierProofs!Next
    <3>1. \A res, e : Notifier!Complete(res, e) <=> NotifierProofs!Complete(res, e)
      BY DEF Notifier!Complete, NotifierProofs!Complete, Notifier!Cardinality, NotifierProofs!Cardinality,
             Notifier!IsFiniteSet, NotifierProofs!IsFiniteSet
    <3>2. NotifierProofs!ReportRecord(r)
      BY <2>4, <3>1 DEF Notifier!ReportRecord, NotifierProofs!ReportRecord, Notifier!Counts, NotifierProofs!Counts,
                  Notifier!IsOpen, NotifierProofs!IsOpen, Notifier!ResultsWith, NotifierProofs!ResultsWith
    <3> QED
      BY <3>2 DEF NotifierProofs!Next, NotifierProofs!Report
  <2>5. ASSUME NEW r \in Reports, Notifier!ReportFlush(r) PROVE NotifierProofs!Next
    <3>1. NotifierProofs!ReportFlush(r)
      BY <2>1, <2>2, <2>5 DEF Notifier!ReportFlush, NotifierProofs!ReportFlush
    <3> QED
      BY <3>1 DEF NotifierProofs!Next, NotifierProofs!Report
  <2>6. ASSUME NEW m \in Notifier!Posts, Notifier!Post(m) PROVE NotifierProofs!Next
    <3>1. NotifierProofs!Post(m) /\ m \in NotifierProofs!Posts
      BY <2>6 DEF Notifier!Post, NotifierProofs!Post, Notifier!Posts, NotifierProofs!Posts,
                  Notifier!FailurePost, NotifierProofs!FailurePost, Notifier!SummaryPost, NotifierProofs!SummaryPost
    <3> QED
      BY <3>1 DEF NotifierProofs!Next
  <2> QED
    BY <1>4, <2>3, <2>4, <2>5, <2>6 DEF NotifierStep
<1>5. ASSUME NEW c \in Collections, CollectStep(c) PROVE NotifierProofs!Next \/ UNCHANGED NotifierProofs!vars
  BY <1>1, <1>3, <1>5 DEF CollectStep, ReadTargets, Expect, Answer
<1>6. ASSUME NEW q \in Requests, ReportFailure(q) \/ \E outcome \in {"ok", "fail"} : Settle(q, outcome)
      PROVE  NotifierProofs!Next
  BY <1>2, <1>6, ReportParts DEF ReportFailure, Settle, CallReport
<1>7. ASSUME NEW q \in Requests, Accept(q) \/ Refuse(q) \/ Answered(q) \/ Reject(q)
      PROVE  UNCHANGED NotifierProofs!vars
  BY <1>1, <1>7 DEF Accept, Refuse, Answered, Reject
<1>8. CASE UNCHANGED vars
  BY <1>1, <1>8 DEF vars
<1> QED
  BY <1>4, <1>5, <1>6, <1>7, <1>8 DEF Next, RequestStep, Terminated


LEMMA StartIsTheNotifiers == Init => NotifierProofs!Init
BY DEF Init, Notifier!Init, NotifierProofs!Init

\* What is known of the notifier's state, from its own proofs.
NotifierFacts ==
    /\ groups \in [Groups -> Collections \cup {None}]
    /\ expected \in [Collections -> SUBSET Targets]
    /\ results \in [Collections -> [Targets -> {"ok", "fail", "missing"}]]
    /\ sent \in [Collections -> BOOLEAN]
    /\ expectPc \in [Collections -> {"idle", "store", "done"}]
    /\ reportPc \in [Reports -> {"idle", "record", "flush", "done"}]
    /\ status \in [Reports -> {"ok", "fail", "none"}]
    /\ summaries \in [Collections -> Seq(Notifier!Summary)]
    /\ \A r \in Reports :
          /\ reportPc[r] # "idle" => status[r] \in {"ok", "fail"}
          /\ reportPc[r] \in {"record", "flush"} => GroupOfReport[r] \in Groups
    /\ \A g \in Groups : groups[g] # None =>
          /\ groups[g] \in Collections /\ GroupIdOf[groups[g]] = g
          /\ expectPc[groups[g]] = "done" /\ ~sent[groups[g]]
    /\ \A c \in Collections :
          /\ expectPc[c] # "done" => ~sent[c]
          /\ sent[c] <=> summaries[c] # <<>>

LEMMA NotifierIsItself == NotifierProofs!OnceInv => NotifierFacts
<1> SUFFICES ASSUME NotifierProofs!OnceInv PROVE NotifierFacts
  OBVIOUS
<1>1. NotifierProofs!TypeOK
  BY DEF NotifierProofs!OnceInv
<1>2. Notifier!Summary = NotifierProofs!Summary
  BY DEF Notifier!Summary, NotifierProofs!Summary
<1>3. /\ groups \in [Groups -> Collections \cup {None}]
      /\ expected \in [Collections -> SUBSET Targets]
      /\ results \in [Collections -> [Targets -> {"ok", "fail", "missing"}]]
      /\ sent \in [Collections -> BOOLEAN]
      /\ expectPc \in [Collections -> {"idle", "store", "done"}]
      /\ reportPc \in [Reports -> {"idle", "record", "flush", "done"}]
      /\ status \in [Reports -> {"ok", "fail", "none"}]
      /\ summaries \in [Collections -> Seq(Notifier!Summary)]
  <2>1. NotifierProofs!Statuses \cup {"missing"} = {"ok", "fail", "missing"}
    BY DEF NotifierProofs!Statuses
  <2>2. NotifierProofs!Statuses \cup {"none"} = {"ok", "fail", "none"}
    BY DEF NotifierProofs!Statuses
  <2> QED
    BY <1>1, <1>2, <2>1, <2>2 DEF NotifierProofs!TypeOK
<1>4. GroupOfReport \in [Reports -> Groups \cup {NoGroup}]
  BY NotifierMayAssume DEF NotifierProofs!NotifierAssumption
<1>5. ASSUME NEW r \in Reports
      PROVE  /\ reportPc[r] # "idle" => status[r] \in {"ok", "fail"}
             /\ reportPc[r] \in {"record", "flush"} => GroupOfReport[r] \in Groups
  BY <1>1, <1>4 DEF NotifierProofs!TypeOK, NotifierProofs!Statuses
<1>6. ASSUME NEW g \in Groups, groups[g] # None
      PROVE  /\ groups[g] \in Collections /\ GroupIdOf[groups[g]] = g
             /\ expectPc[groups[g]] = "done" /\ ~sent[groups[g]]
  BY <1>3, <1>6 DEF NotifierProofs!OnceInv, NotifierProofs!InMap
<1>7. ASSUME NEW c \in Collections
      PROVE  /\ expectPc[c] # "done" => ~sent[c]
             /\ sent[c] <=> summaries[c] # <<>>
  <2>1. /\ ~sent[c] => summaries[c] = <<>>
        /\ sent[c] => Len(summaries[c]) = 1
        /\ expectPc[c] # "done" => ~sent[c]
    BY DEF NotifierProofs!OnceInv, NotifierProofs!SentMeansOneSummary, NotifierProofs!NotSentBeforeStore
  <2>2. Len(<<>>) # 1
    OBVIOUS
  <2> QED
    BY <1>3, <2>1, <2>2
<1> QED
  BY <1>3, <1>5, <1>6, <1>7 DEF NotifierFacts

LEMMA RunsTheNotifier == Spec => NotifierProofs!Spec
BY StartIsTheNotifiers, StepsAreTheNotifiers, PTL DEF Spec, NotifierProofs!Spec

LEMMA NotifierHolds == Spec => [](NotifierFacts /\ NotifierProofs!TypeOK /\ NotifierProofs!CompleteGroupIsFlushed)
<1>1. NotifierProofs!Spec => []NotifierProofs!OnceInv
  BY NotifierMayAssume, NotifierProofs!OnceInvHolds
<1>2. NotifierProofs!Spec => []NotifierProofs!CompleteGroupIsFlushed
  BY NotifierMayAssume, NotifierProofs!CompleteGroupsAreFlushed
<1>3. NotifierProofs!Spec => []NotifierProofs!TypeOK
  BY NotifierMayAssume, NotifierProofs!TypeCorrect
<1> QED
  BY <1>1, <1>2, <1>3, RunsTheNotifier, NotifierIsItself, PTL

-----------------------------------------------------------------------------
(***************************************************************************)
(* Who has told the notifier what.                                         *)
(***************************************************************************)

\* Report is called: nothing but this report changes.
LEMMA CallIsReport ==
    ASSUME NotifierFacts, NEW r \in Reports, NEW s, CallReport(r, s)
    PROVE  /\ reportPc[r] = "idle" /\ s \in {"ok", "fail"}
           /\ status' = [status EXCEPT ![r] = s]
           /\ reportPc' = [reportPc EXCEPT ![r] = IF GroupOfReport[r] = NoGroup THEN "done" ELSE "record"]
           /\ UNCHANGED <<groups, expected, results, sent, expectPc, summaries>>
<1>1. PICK x \in {"ok", "fail"} : status' = [status EXCEPT ![r] = x]
  BY DEF CallReport, Notifier!ReportStart, Notifier!Statuses
<1>2. x = s
  BY <1>1 DEF CallReport, NotifierFacts
<1> QED
  BY <1>1, <1>2 DEF CallReport, Notifier!ReportStart

\* What the notifier does by itself begins no report.
LEMMA NotifierCallsNobody ==
    ASSUME NotifierFacts, NotifierStep \/ \E c \in Collections : Notifier!Expect(c)
    PROVE  status' = status /\ \A r \in Reports : reportPc'[r] = "idle" <=> reportPc[r] = "idle"
<1>1. ASSUME NEW r \in Reports, reportPc[r] # "idle", NEW x \in {"flush", "done"}, status' = status,
             reportPc' = [reportPc EXCEPT ![r] = x]
      PROVE  status' = status /\ \A y \in Reports : reportPc'[y] = "idle" <=> reportPc[y] = "idle"
  BY <1>1 DEF NotifierFacts
<1>2. ASSUME NEW r \in Reports, Notifier!ReportRecord(r) \/ Notifier!ReportFlush(r)
      PROVE  reportPc[r] # "idle" /\ status' = status
             /\ \E x \in {"flush", "done"} : reportPc' = [reportPc EXCEPT ![r] = x]
  BY <1>2 DEF Notifier!ReportRecord, Notifier!ReportFlush
<1>3. CASE UNCHANGED <<status, reportPc>>
  BY <1>3
<1> QED
  BY <1>1, <1>2, <1>3 DEF NotifierStep, Notifier!Timer, Notifier!TimerFires, Notifier!TimerFlush,
     Notifier!Post, Notifier!Expect, Notifier!ExpectStart, Notifier!ExpectStore

RequestsTypeOK ==
    /\ collectPc \in [Collections -> {"idle", "expect", "requests", "answered"}]
    /\ answer \in [Collections -> {"none", "200", "500"}]
    /\ request \in [Requests -> {"idle", "accepted", "waiting", "ok", "failed", "reported"}]
    /\ collection \in [Requests -> {"none", "running", "ok", "fail", "rejected"}]
    /\ lost \subseteq Requests

\* The hook has reported a collection that has ended, and as what it has ended.
HookTells ==
    \A q \in Requests :
        IF collection[q] \in {"ok", "fail"}
        THEN reportPc[HookReport(q)] # "idle" /\ status[HookReport(q)] = collection[q]
        ELSE reportPc[HookReport(q)] = "idle" /\ status[HookReport(q)] = "none"

\* A failed request is reported as a failure.
ProxyTells ==
    \A q \in Requests :
        IF request[q] = "reported"
        THEN reportPc[ProxyReport(q)] # "idle" /\ status[ProxyReport(q)] = "fail"
        ELSE reportPc[ProxyReport(q)] = "idle" /\ status[ProxyReport(q)] = "none"

\* What a request that has got so far has started.
RequestStarts ==
    \A q \in Requests :
        /\ q \in Direct => request[q] \in {"idle", "accepted", "waiting"}
        /\ request[q] = "idle" => collection[q] = "none"
        /\ request[q] \in {"accepted", "waiting", "ok"} => collection[q] # "none"
        /\ request[q] = "waiting" => HandlerOf[TargetOf(q)] = "memo"
        /\ request[q] \in {"failed", "reported"} /\ q \notin lost /\ HandlerOf[TargetOf(q)] # "memo" =>
              collection[q] = "none"
        /\ collection[q] = "rejected" => q \in Direct

TellInv == RequestsTypeOK /\ HookTells /\ ProxyTells /\ RequestStarts

LEMMA TellStart == Init => TellInv
<1> SUFFICES ASSUME Init PROVE TellInv
  OBVIOUS
<1>1. /\ \A q \in Requests : request[q] = "idle" /\ collection[q] = "none"
      /\ \A r \in Reports : reportPc[r] = "idle" /\ status[r] = "none"
  BY DEF Init, Notifier!Init
<1>2. RequestsTypeOK
  BY DEF Init, RequestsTypeOK
<1>3. HookTells /\ ProxyTells
  BY <1>1, ReportParts DEF HookTells, ProxyTells
<1>4. RequestStarts
  BY <1>1 DEF RequestStarts
<1> QED
  BY <1>2, <1>3, <1>4 DEF TellInv

\* Reports are told apart by their requests.
LEMMA ReportsDiffer ==
    ASSUME NEW q \in Requests, NEW p \in Requests
    PROVE  /\ HookReport(q) # ProxyReport(p)
           /\ HookReport(q) = HookReport(p) => q = p
           /\ ProxyReport(q) = ProxyReport(p) => q = p
BY DEF HookReport, ProxyReport

LEMMA TellStep == ASSUME NotifierFacts, TellInv, [Next]_vars PROVE TellInv'
<1> USE DEF TellInv
<1>1. ASSUME UNCHANGED <<request, collection, lost>>, RequestsTypeOK',
             status' = status, \A r \in Reports : reportPc'[r] = "idle" <=> reportPc[r] = "idle"
      PROVE  TellInv'
  BY <1>1, ReportParts DEF HookTells, ProxyTells, RequestStarts
<1>2. ASSUME NEW c \in Collections, CollectStep(c) PROVE TellInv'
  <2>1. RequestsTypeOK'
    BY <1>2 DEF CollectStep, ReadTargets, Expect, Answer, RequestsTypeOK
  <2>2. Notifier!Expect(c) \/ UNCHANGED notifierVars
    BY <1>2 DEF CollectStep, ReadTargets, Expect, Answer
  <2>3. status' = status /\ \A r \in Reports : reportPc'[r] = "idle" <=> reportPc[r] = "idle"
    BY <2>2, NotifierCallsNobody DEF notifierVars
  <2> QED
    BY <1>1, <1>2, <2>1, <2>3 DEF CollectStep, ReadTargets, Expect, Answer
<1>3. CASE NotifierStep
  <2>1. RequestsTypeOK'
    BY <1>3 DEF NotifierStep, requestVars, RequestsTypeOK
  <2> QED
    BY <1>1, <1>3, <2>1, NotifierCallsNobody DEF NotifierStep, requestVars
<1>4. CASE UNCHANGED vars
  <2>1. RequestsTypeOK'
    BY <1>4 DEF vars, requestVars, RequestsTypeOK
  <2> QED
    BY <1>1, <1>4, <2>1 DEF vars, requestVars, notifierVars
<1>5. ASSUME NEW q \in Requests, Accept(q) \/ Refuse(q) \/ Answered(q) \/ Reject(q) PROVE TellInv'
  <2>1. UNCHANGED <<reportPc, status>>
    BY <1>5 DEF Accept, Refuse, Answered, Reject, notifierVars
  <2>2. RequestsTypeOK'
    BY <1>5 DEF Accept, Refuse, Answered, Reject, RequestsTypeOK
  <2>3. /\ \A p \in Requests : p # q => request'[p] = request[p] /\ collection'[p] = collection[p]
        /\ \A p \in Requests : p # q => (p \in lost' <=> p \in lost)
    <3>1. CASE Accept(q)
      BY <3>1 DEF Accept, RequestsTypeOK
    <3>2. CASE Refuse(q)
      BY <3>2 DEF Refuse, RequestsTypeOK
    <3>3. CASE Answered(q)
      BY <3>3 DEF Answered, RequestsTypeOK
    <3>4. CASE Reject(q)
      BY <3>4 DEF Reject, RequestsTypeOK
    <3> QED
      BY <1>5, <3>1, <3>2, <3>3, <3>4
  <2>4. request[q] # "reported" /\ request'[q] # "reported"
    BY <1>5 DEF Accept, Refuse, Answered, Reject, MaySend, RequestsTypeOK, RequestStarts
  <2>5. collection'[q] \in {"ok", "fail"} <=> collection[q] \in {"ok", "fail"}
    BY <1>5 DEF Accept, Refuse, Answered, Reject, MaySend, RequestsTypeOK, RequestStarts
  <2>6. collection[q] \in {"ok", "fail"} => collection'[q] = collection[q]
    BY <1>5 DEF Accept, Refuse, Answered, Reject, MaySend, RequestsTypeOK, RequestStarts
  <2>7. HookTells' /\ ProxyTells'
    BY <2>1, <2>3, <2>4, <2>5, <2>6 DEF HookTells, ProxyTells
  <2>8. RequestStarts'
    <3>1. CASE Accept(q)
      BY <3>1, <2>3 DEF Accept, MaySend, RequestsTypeOK, RequestStarts
    <3>2. CASE Refuse(q)
      BY <3>2, <2>3 DEF Refuse, MaySend, RequestsTypeOK, RequestStarts
    <3>3. CASE Answered(q)
      BY <3>3, <2>3 DEF Answered, RequestsTypeOK, RequestStarts
    <3>4. CASE Reject(q)
      BY <3>4, <2>3 DEF Reject, RequestsTypeOK, RequestStarts
    <3> QED
      BY <1>5, <3>1, <3>2, <3>3, <3>4
  <2> QED
    BY <2>2, <2>7, <2>8
<1>6. ASSUME NEW q \in Requests, ReportFailure(q) PROVE TellInv'
  <2>1. CallReport(ProxyReport(q), "fail") /\ request[q] = "failed"
    BY <1>6 DEF ReportFailure
  <2>2. /\ status' = [status EXCEPT ![ProxyReport(q)] = "fail"]
        /\ \E x \in {"record", "done"} : reportPc' = [reportPc EXCEPT ![ProxyReport(q)] = x]
    BY <2>1, CallIsReport, ReportParts
  <2>3. RequestsTypeOK' /\ request' = [request EXCEPT ![q] = "reported"] /\ UNCHANGED <<collection, lost>>
    BY <1>6 DEF ReportFailure, RequestsTypeOK
  <2>4. \A r \in Reports : r # ProxyReport(q) => reportPc'[r] = reportPc[r] /\ status'[r] = status[r]
    BY <2>2 DEF NotifierFacts
  <2>5. reportPc'[ProxyReport(q)] # "idle" /\ status'[ProxyReport(q)] = "fail"
    BY <2>2, ReportParts DEF NotifierFacts
  <2>6. HookTells'
    BY <2>3, <2>4, ReportParts, ReportsDiffer DEF HookTells
  <2>7. ProxyTells'
    <3>1. ASSUME NEW p \in Requests, p # q
          PROVE  /\ request'[p] = request[p] /\ reportPc'[ProxyReport(p)] = reportPc[ProxyReport(p)]
                 /\ status'[ProxyReport(p)] = status[ProxyReport(p)]
      BY <2>3, <2>4, <3>1, ReportParts, ReportsDiffer DEF RequestsTypeOK
    <3>2. request'[q] = "reported"
      BY <2>3 DEF RequestsTypeOK
    <3> QED
      BY <2>5, <3>1, <3>2 DEF ProxyTells
  <2>8. RequestStarts'
    BY <2>1, <2>3 DEF RequestStarts, RequestsTypeOK
  <2> QED
    BY <2>3, <2>6, <2>7, <2>8
<1>7. ASSUME NEW q \in Requests, NEW outcome \in {"ok", "fail"}, Settle(q, outcome) PROVE TellInv'
  <2>1. CallReport(HookReport(q), outcome) /\ collection[q] = "running"
    BY <1>7 DEF Settle
  <2>2. /\ status' = [status EXCEPT ![HookReport(q)] = outcome]
        /\ \E x \in {"record", "done"} : reportPc' = [reportPc EXCEPT ![HookReport(q)] = x]
    BY <2>1, CallIsReport, ReportParts
  <2>3. RequestsTypeOK' /\ collection' = [collection EXCEPT ![q] = outcome] /\ UNCHANGED <<request, lost>>
    BY <1>7 DEF Settle, RequestsTypeOK
  <2>4. \A r \in Reports : r # HookReport(q) => reportPc'[r] = reportPc[r] /\ status'[r] = status[r]
    BY <2>2 DEF NotifierFacts
  <2>5. reportPc'[HookReport(q)] # "idle" /\ status'[HookReport(q)] = outcome
    BY <2>2, ReportParts DEF NotifierFacts
  <2>6. ProxyTells'
    BY <2>3, <2>4, ReportParts, ReportsDiffer DEF ProxyTells
  <2>7. HookTells'
    <3>1. ASSUME NEW p \in Requests, p # q
          PROVE  /\ collection'[p] = collection[p] /\ reportPc'[HookReport(p)] = reportPc[HookReport(p)]
                 /\ status'[HookReport(p)] = status[HookReport(p)]
      BY <2>3, <2>4, <3>1, ReportParts, ReportsDiffer DEF RequestsTypeOK
    <3>2. collection'[q] = outcome
      BY <2>3 DEF RequestsTypeOK
    <3> QED
      BY <2>5, <3>1, <3>2 DEF HookTells
  <2>8. RequestStarts'
    BY <2>1, <2>3 DEF RequestStarts, RequestsTypeOK
  <2> QED
    BY <2>3, <2>6, <2>7, <2>8
<1> QED
  BY <1>2, <1>3, <1>4, <1>5, <1>6, <1>7 DEF Next, RequestStep, Terminated

LEMMA TellHolds == Spec => []TellInv
<1>1. Spec => []NotifierFacts
  BY NotifierHolds, PTL
<1>2. TellInv /\ [Next]_vars /\ NotifierFacts => TellInv'
  BY TellStep
<1> QED
  BY <1>1, <1>2, TellStart, PTL DEF Spec

\* The variables stay in their types, those of the notifier included.
THEOREM TypeCorrect == Spec => []TypeOK
<1>1. NotifierProofs!TypeOK => Notifier!TypeOK
  BY DEF Notifier!TypeOK, NotifierProofs!TypeOK, Notifier!Summary, NotifierProofs!Summary,
         Notifier!Statuses, NotifierProofs!Statuses, Notifier!Posts, NotifierProofs!Posts,
         Notifier!FailurePost, NotifierProofs!FailurePost, Notifier!SummaryPost, NotifierProofs!SummaryPost
<1>2. NotifierProofs!TypeOK /\ TellInv => TypeOK
  BY <1>1 DEF TypeOK, TellInv, RequestsTypeOK
<1> QED
  BY <1>2, NotifierHolds, TellHolds, PTL

\* A failure is told once, by the hook of the collection or on its behalf, however
\* the requests, the collections and the notifier interleave (README.md:35).
THEOREM FailuresAreToldOnce == Spec => []FailureToldOnce
<1>1. TellInv => FailureToldOnce
  <2> SUFFICES ASSUME TellInv, NEW q \in Requests, q \notin lost, HandlerOf[TargetOf(q)] # "memo"
               PROVE  Cardinality(Told(q)) <= 1
    BY DEF FailureToldOnce
  <2>1. ~(status[HookReport(q)] = "fail" /\ status[ProxyReport(q)] = "fail")
    BY DEF TellInv, HookTells, ProxyTells, RequestStarts
  <2>2. Told(q) = {} \/ Told(q) = {HookReport(q)} \/ Told(q) = {ProxyReport(q)}
    BY <2>1 DEF Told
  <2>3. Cardinality({}) = 0 /\ Cardinality({HookReport(q)}) = 1 /\ Cardinality({ProxyReport(q)}) = 1
    BY FS_EmptySet, FS_Singleton
  <2>4. Cardinality(Told(q)) \in {0, 1}
    BY <2>2, <2>3, Zenon
  <2> QED
    BY <2>4
<1> QED
  BY <1>1, TellHolds, PTL


-----------------------------------------------------------------------------
(***************************************************************************)
(* What the notifier knows of a group.                                     *)
(***************************************************************************)

\* No two group collections take the same id from the clock (group/collector.go:100).
UniqueGroupIds == \A c, d \in Collections : GroupIdOf[c] = GroupIdOf[d] => c = d

Wanted == {TargetsFile[i] : i \in DOMAIN TargetsFile}

\* A group is expected before its requests are sent, and is in the notifier's map
\* from then until it is summarised.
GroupIsExpected ==
    \A c \in Collections :
        /\ expected[c] \in {{}, Wanted}
        /\ expectPc[c] = "idle" => expected[c] = {}
        /\ expectPc[c] = "store" => expected[c] # {}
        /\ collectPc[c] = "idle" => expectPc[c] = "idle"
        /\ collectPc[c] = "requests" => expectPc[c] = "done"
        /\ collectPc[c] = "answered" => expectPc[c] = "done" \/ expected[c] = {}
        /\ expectPc[c] = "done" => \/ expected[c] = {} \/ summaries[c] # <<>>
                                   \/ groups[GroupIdOf[c]] = c
        /\ \A g \in Groups : groups[g] = c => expected[c] # {}
        /\ summaries[c] # <<>> => expected[c] # {}

\* Requests are sent when the group is expected, and answered before the group is.
RequestsFollow ==
    \A c \in Collections : \A q \in RequestsOf(c) :
        /\ request[q] # "idle" => collectPc[c] \in {"requests", "answered"}
        /\ collectPc[c] = "answered" /\ expected[c] # {} => Finished(q)

\* A report of a group that has had its turn counts, unless it is too late.
ReportsCount ==
    \A c \in Collections : \A q \in RequestsOf(c) : \A r \in {HookReport(q), ProxyReport(q)} :
        reportPc[r] \in {"flush", "done"} =>
            results[c][TargetOf(q)] # "missing" \/ summaries[c] # <<>> \/ expected[c] = {}

GroupInv == GroupIsExpected /\ RequestsFollow /\ ReportsCount

LEMMA GroupStart == Init => GroupInv
<1> SUFFICES ASSUME Init PROVE GroupInv
  OBVIOUS
<1>1. /\ expected = [c \in Collections |-> {}] /\ expectPc = [c \in Collections |-> "idle"]
      /\ collectPc = [c \in Collections |-> "idle"] /\ groups = [g \in Groups |-> None]
      /\ \A c \in Collections, t \in Targets : results[c][t] = "missing"
      /\ \A c \in Collections : summaries[c] = <<>>
      /\ \A q \in Requests : request[q] = "idle"
      /\ \A r \in Reports : reportPc[r] = "idle"
  BY DEF Init, Notifier!Init
<1>2. GroupIsExpected
  BY <1>1 DEF GroupIsExpected
<1>3. RequestsFollow /\ ReportsCount
  BY <1>1, RequestParts, ReportParts DEF RequestsFollow, ReportsCount
<1> QED
  BY <1>2, <1>3 DEF GroupInv

LEMMA RequestGroupStep ==
    ASSUME NotifierFacts, TellInv, GroupInv, NEW q \in Requests,
           Accept(q) \/ Refuse(q) \/ Answered(q) \/ Reject(q)
    PROVE  GroupInv'
<1>1. /\ UNCHANGED <<groups, expected, results, expectPc, reportPc, summaries, collectPc>>
      /\ \A p \in Requests : p # q => request'[p] = request[p]
  BY DEF Accept, Refuse, Answered, Reject, notifierVars, TellInv, RequestsTypeOK
<1>2. GroupIsExpected' /\ ReportsCount'
  BY <1>1 DEF GroupInv, GroupIsExpected, ReportsCount
<1>3. ~(request[q] = "ok" \/ (request[q] = "reported" /\ reportPc[ProxyReport(q)] = "done"))
      \/ request'[q] = request[q]
  BY DEF Accept, Refuse, Answered, Reject, MaySend
<1>4. q \notin Direct /\ request'[q] # "idle" => request[q] # "idle" \/ collectPc[q[1]] = "requests"
  BY DEF Accept, Refuse, Answered, Reject, MaySend
<1>5. RequestsFollow'
  BY <1>1, <1>3, <1>4, RequestParts DEF GroupInv, RequestsFollow, Finished
<1> QED
  BY <1>2, <1>5 DEF GroupInv

LEMMA CallGroupStep ==
    ASSUME NotifierFacts, TellInv, GroupInv, NEW q \in Requests,
           ReportFailure(q) \/ \E outcome \in {"ok", "fail"} : Settle(q, outcome)
    PROVE  GroupInv'
<1>1. PICK r \in {HookReport(q), ProxyReport(q)} : \E s : CallReport(r, s)
  BY DEF ReportFailure, Settle
<1>2. /\ r \in Reports /\ reportPc[r] = "idle"
      /\ reportPc' = [reportPc EXCEPT ![r] = IF GroupOfReport[r] = NoGroup THEN "done" ELSE "record"]
      /\ UNCHANGED <<groups, expected, results, sent, expectPc, summaries>>
  BY <1>1, CallIsReport, ReportParts
<1>3. /\ UNCHANGED collectPc
      /\ \A p \in Requests : request[p] # "failed" => request'[p] = request[p]
      /\ \A p \in Requests : request[p] = "failed" => request'[p] # "idle"
  BY DEF ReportFailure, Settle, TellInv, RequestsTypeOK
<1>4. /\ \A x \in Reports : x # r => reportPc'[x] = reportPc[x]
      /\ reportPc'[r] = IF GroupOfReport[r] = NoGroup THEN "done" ELSE "record"
  BY <1>2 DEF NotifierFacts
<1>5. GroupIsExpected'
  BY <1>2, <1>3 DEF GroupInv, GroupIsExpected
<1>6. RequestsFollow'
  <2>1. \A p \in Requests : Finished(p) => Finished(p)'
    BY <1>2, <1>3, <1>4, ReportParts DEF Finished
  <2> QED
    BY <1>2, <1>3, <2>1, RequestParts DEF GroupInv, RequestsFollow
<1>7. ReportsCount'
  <2> SUFFICES ASSUME NEW c \in Collections, NEW p \in RequestsOf(c), NEW x \in {HookReport(p), ProxyReport(p)},
                      reportPc'[x] \in {"flush", "done"}
               PROVE  results[c][TargetOf(p)] # "missing" \/ summaries[c] # <<>> \/ expected[c] = {}
    BY <1>2 DEF ReportsCount
  <2>1. p \in Requests /\ x \in Reports /\ GroupOfReport[x] \in Groups
    BY RequestParts, ReportParts
  <2>2. x # r
    BY <1>4, <2>1
  <2> QED
    BY <1>4, <2>1, <2>2 DEF GroupInv, ReportsCount
<1> QED
  BY <1>5, <1>6, <1>7 DEF GroupInv


LEMMA CollectGroupStep ==
    ASSUME UniqueGroupIds, NotifierFacts, TellInv, GroupInv, NEW c \in Collections, CollectStep(c)
    PROVE  GroupInv'
<1>1. UNCHANGED <<results, reportPc, summaries, request>>
  BY DEF CollectStep, ReadTargets, Expect, Answer, notifierVars, Notifier!Expect,
         Notifier!ExpectStart, Notifier!ExpectStore
<1>2. \A d \in Collections : d # c =>
         collectPc'[d] = collectPc[d] /\ expectPc'[d] = expectPc[d] /\ expected'[d] = expected[d]
  BY DEF CollectStep, ReadTargets, Expect, Answer, notifierVars, Notifier!Expect, Notifier!ExpectStart,
         Notifier!ExpectStore, NotifierFacts, TellInv, RequestsTypeOK
<1>3. CASE UNCHANGED notifierVars
  <2>1. UNCHANGED <<expected, groups, expectPc>>
    BY <1>3 DEF notifierVars
  <2>2. /\ collectPc[c] # "answered"
        /\ collectPc'[c] # "idle"
        /\ collectPc'[c] = "requests" => expectPc[c] = "done"
        /\ collectPc'[c] = "answered" =>
              \/ collectPc[c] = "idle"
              \/ collectPc[c] = "requests" /\ \A q \in RequestsOf(c) : Finished(q)
        /\ collectPc[c] = "requests" => collectPc'[c] = "answered"
    BY <1>3 DEF CollectStep, ReadTargets, Expect, Answer, Notifier!Expect, Notifier!ExpectStart,
           Notifier!ExpectStore, TellInv, RequestsTypeOK, notifierVars, NotifierFacts
  <2>3. GroupIsExpected'
    BY <1>1, <1>2, <2>1, <2>2 DEF GroupInv, GroupIsExpected
  <2>4. \A q : Finished(q)' <=> Finished(q)
    BY <1>1 DEF Finished
  <2>5. RequestsFollow'
    BY <1>1, <1>2, <2>1, <2>2, <2>4 DEF GroupInv, RequestsFollow, GroupIsExpected
  <2>6. ReportsCount'
    BY <1>1, <2>1 DEF GroupInv, ReportsCount
  <2> QED
    BY <2>3, <2>5, <2>6 DEF GroupInv
<1>4. CASE collectPc[c] = "expect" /\ UNCHANGED collectPc /\ Notifier!ExpectStart(c)
  <2>1. expectPc[c] = "idle" /\ expected[c] = {} /\ UNCHANGED <<groups, collectPc>>
    BY <1>4 DEF Notifier!ExpectStart, GroupInv, GroupIsExpected
  <2>2. ASSUME NEW g \in Groups, groups[g] = c PROVE FALSE
    <3>1. groups[g] # None
      BY <2>2
    <3>2. expectPc[groups[g]] = "done"
      BY <3>1 DEF NotifierFacts
    <3> QED
      BY <2>1, <2>2, <3>2
  <2>3. Notifier!Dedupe(TargetsFile) = Wanted
    BY DEF Notifier!Dedupe, Notifier!Range, Wanted
  <2>4. \/ expectPc'[c] = "done" /\ expected'[c] = {}
        \/ expectPc'[c] = "store" /\ expected'[c] = Wanted /\ Wanted # {}
    BY <1>4, <2>1, <2>3 DEF Notifier!ExpectStart, ExpectLists, NotifierFacts
  <2>5. GroupIsExpected'
    BY <1>1, <1>2, <1>4, <2>1, <2>2, <2>4 DEF GroupInv, GroupIsExpected
  <2>6. \A q \in RequestsOf(c) : request[q] = "idle"
    BY <1>4 DEF GroupInv, RequestsFollow
  <2>7. \A q : Finished(q)' <=> Finished(q)
    BY <1>1 DEF Finished
  <2>8. RequestsFollow'
    BY <1>1, <1>2, <1>4, <2>7 DEF GroupInv, RequestsFollow
  <2>9. \A q \in RequestsOf(c) : \A r \in {HookReport(q), ProxyReport(q)} : reportPc[r] = "idle"
    BY <2>6, RequestParts DEF TellInv, HookTells, ProxyTells, RequestStarts
  <2>10. ReportsCount'
    BY <1>1, <1>2, <2>9 DEF GroupInv, ReportsCount
  <2> QED
    BY <2>5, <2>8, <2>10 DEF GroupInv
<1>5. CASE collectPc[c] = "expect" /\ UNCHANGED collectPc /\ Notifier!ExpectStore(c)
  <2>1. /\ expectPc[c] = "store" /\ UNCHANGED expected
        /\ groups' = [groups EXCEPT ![GroupIdOf[c]] = c] /\ expectPc' = [expectPc EXCEPT ![c] = "done"]
    BY <1>5 DEF Notifier!ExpectStore
  <2>2. groups'[GroupIdOf[c]] = c /\ \A g \in Groups : g # GroupIdOf[c] => groups'[g] = groups[g]
    BY <2>1 DEF NotifierFacts
  <2>3. \A d \in Collections : d # c => GroupIdOf[d] # GroupIdOf[c]
    BY DEF UniqueGroupIds
  <2>4. expectPc'[c] = "done" /\ expected[c] # {}
    BY <2>1 DEF NotifierFacts, GroupInv, GroupIsExpected
  <2>5. GroupIsExpected'
    BY <1>1, <1>2, <1>5, <2>1, <2>2, <2>3, <2>4 DEF GroupInv, GroupIsExpected
  <2>6. \A q : Finished(q)' <=> Finished(q)
    BY <1>1 DEF Finished
  <2>7. RequestsFollow' /\ ReportsCount'
    BY <1>1, <1>5, <2>1, <2>6 DEF GroupInv, RequestsFollow, ReportsCount
  <2> QED
    BY <2>5, <2>7 DEF GroupInv
<1> QED
  BY <1>3, <1>4, <1>5 DEF CollectStep, ReadTargets, Expect, Answer, Notifier!Expect

\* What the reports and the requests rely on does not go away.
LEMMA FinishedStays ==
    ASSUME NotifierFacts, UNCHANGED request,
           \A r \in Reports : reportPc[r] = "done" => reportPc'[r] = "done", NEW q \in Requests, Finished(q)
    PROVE  Finished(q)'
BY ReportParts DEF Finished

LEMMA FlushGroupStep ==
    ASSUME UniqueGroupIds, NotifierFacts, TellInv, GroupInv,
           NEW g \in Groups, NEW b \in BOOLEAN, Notifier!Flush(g, b),
           UNCHANGED <<requestVars, expected, results, expectPc>>,
           \A x \in Reports :
               \/ reportPc'[x] = reportPc[x]
               \/ reportPc[x] = "flush" /\ reportPc'[x] = "done"
    PROVE  GroupInv'
<1>1. UNCHANGED <<collectPc, request>>
  BY DEF requestVars
<1>2. /\ \A x \in Reports : reportPc[x] = "done" => reportPc'[x] = "done"
      /\ \A x \in Reports : reportPc'[x] \in {"flush", "done"} => reportPc[x] \in {"flush", "done"}
  OBVIOUS
<1>3. RequestsFollow'
  BY <1>1, <1>2, FinishedStays, RequestParts DEF GroupInv, RequestsFollow
<1>4. CASE ~Notifier!IsOpen(g)
  <2>1. UNCHANGED <<groups, summaries>>
    BY <1>4 DEF Notifier!Flush
  <2>2. GroupIsExpected'
    BY <1>1, <2>1 DEF GroupInv, GroupIsExpected
  <2>3. ReportsCount'
    BY <1>2, <2>1, RequestParts, ReportParts DEF GroupInv, ReportsCount
  <2> QED
    BY <1>3, <2>2, <2>3 DEF GroupInv
<1>5. CASE Notifier!IsOpen(g)
  <2>1. PICK e \in Collections : e = groups[g] /\ GroupIdOf[e] = g
    BY <1>5 DEF Notifier!IsOpen, NotifierFacts
  <2>2. PICK text : text = Notifier!FormatGroup(e, b)
    OBVIOUS
  <2>3. /\ groups' = [groups EXCEPT ![g] = None]
        /\ summaries' = [summaries EXCEPT ![e] = Append(@, text)]
    BY <1>5, <2>1, <2>2 DEF Notifier!Flush
  <2>4. summaries[e] = <<>>
    BY <1>5, <2>1 DEF NotifierFacts, Notifier!IsOpen
  <2>5. /\ summaries'[e] = <<text>>
        /\ \A c \in Collections : c # e => summaries'[c] = summaries[c]
        /\ groups'[g] = None /\ \A h \in Groups : h # g => groups'[h] = groups[h]
    BY <2>3, <2>4 DEF NotifierFacts
  <2>6. summaries'[e] # <<>> /\ DOMAIN summaries'[e] = {1} /\ summaries'[e][1] = text
    BY <2>5
  <2>7. GroupIsExpected'
    <3>1. \A c \in Collections : GroupIdOf[c] = g => c = e
      BY <2>1 DEF UniqueGroupIds
    <3>2. ASSUME NEW c \in Collections, NEW h \in Groups, groups'[h] = c PROVE groups[h] = c
      <4>1. h # g
        BY <2>5, <3>2
      <4> QED
        BY <2>5, <3>2, <4>1
    <3>3. ASSUME NEW c \in Collections, groups[GroupIdOf[c]] = c
          PROVE  summaries'[c] # <<>> \/ groups'[GroupIdOf[c]] = c
      BY <2>5, <2>6, <3>1, <3>3
    <3>4. \A c \in Collections : summaries[c] # <<>> => summaries'[c] # <<>>
      BY <2>5, <2>6
    <3>5. \A c \in Collections : summaries'[c] # <<>> => expected[c] # {}
      BY <2>1, <2>5 DEF GroupInv, GroupIsExpected
    <3> QED
      BY <1>1, <3>2, <3>3, <3>4, <3>5 DEF GroupInv, GroupIsExpected
  <2>8. ReportsCount'
    <3>1. \A c \in Collections : summaries[c] # <<>> => summaries'[c] # <<>>
      BY <2>5, <2>6
    <3>2. \A c \in Collections : \A q \in RequestsOf(c) : HookReport(q) \in Reports /\ ProxyReport(q) \in Reports
      BY RequestParts, ReportParts
    <3> QED
      BY <1>2, <3>1, <3>2 DEF GroupInv, ReportsCount
  <2> QED
    BY <1>3, <2>7, <2>8 DEF GroupInv
<1> QED
  BY <1>4, <1>5

\* A report that reaches the map does so for the group it was collected for.
LEMMA RecordGroupStep ==
    ASSUME UniqueGroupIds, NotifierFacts, TellInv, GroupInv,
           NEW r \in Reports, Notifier!ReportRecord(r), UNCHANGED requestVars
    PROVE  GroupInv'
<1> DEFINE g == GroupOfReport[r]
           t == TargetOfReport[r]
           q == r[1]
<1>1. /\ UNCHANGED <<groups, expected, expectPc, summaries, collectPc, request>>
      /\ reportPc[r] = "record" /\ reportPc'[r] \in {"flush", "done"}
      /\ \A x \in Reports : x # r => reportPc'[x] = reportPc[x]
  BY DEF Notifier!ReportRecord, requestVars, NotifierFacts
<1>2. g \in Groups /\ status[r] \in {"ok", "fail"}
  BY <1>1 DEF NotifierFacts
<1>3. /\ q \in Requests /\ (r = HookReport(q) \/ r = ProxyReport(q))
      /\ g = GroupOfRequest(q) /\ t = TargetOf(q) /\ t \in Targets
  BY ReportsAreOfRequests, ReportParts, RequestTypes
<1>4. q \notin Direct
  BY <1>2, <1>3 DEF GroupOfRequest
<1>5. PICK c \in Collections : q \in RequestsOf(c) /\ GroupIdOf[c] = g /\ q[2] \in DOMAIN TargetsFile
  <2>1. q[1] \in Collections /\ q \in RequestsOf(q[1])
    BY <1>3, <1>4, RequestParts
  <2>2. GroupOfRequest(q) = GroupIdOf[q[1]] /\ q[2] \in DOMAIN TargetsFile
    BY <2>1, RequestParts
  <2> QED
    BY <1>3, <2>1, <2>2
<1>6. t \in Wanted
  BY <1>3, <1>5, RequestParts DEF Wanted
<1>7. GroupIsExpected'
  BY <1>1 DEF GroupInv, GroupIsExpected
<1>8. RequestsFollow'
  <2>1. \A x \in Reports : reportPc[x] = "done" => reportPc'[x] = "done"
    BY <1>1
  <2> QED
    BY <1>1, <2>1, FinishedStays, RequestParts DEF GroupInv, RequestsFollow
<1>9. ASSUME NEW d \in Collections, NEW p \in RequestsOf(d), r \in {HookReport(p), ProxyReport(p)}
      PROVE  d = c /\ p = q
  BY <1>5, <1>9, RequestParts DEF HookReport, ProxyReport
<1>10. CASE ~Notifier!Counts(r)
  <2>1. UNCHANGED results
    BY <1>10 DEF Notifier!ReportRecord
  <2>2. request[q] # "idle"
    BY <1>1, <1>3 DEF TellInv, HookTells, ProxyTells, RequestStarts
  <2>3. expected[c] = {} \/ summaries[c] # <<>> \/ groups[g] = c
    BY <1>5, <2>2 DEF GroupInv, GroupIsExpected, RequestsFollow
  <2>4. groups[g] = c => expected[c] = {}
    <3> SUFFICES ASSUME groups[g] = c, expected[c] = Wanted PROVE FALSE
      BY DEF GroupInv, GroupIsExpected
    <3>1. groups[g] # None
      OBVIOUS
    <3>2. Notifier!IsOpen(g)
      BY <1>2, <3>1 DEF Notifier!IsOpen, NotifierFacts
    <3> QED
      BY <1>6, <1>10, <3>2 DEF Notifier!Counts
  <2>5. ReportsCount'
    <3> SUFFICES ASSUME NEW d \in Collections, NEW p \in RequestsOf(d), NEW x \in {HookReport(p), ProxyReport(p)},
                        reportPc'[x] \in {"flush", "done"}
                 PROVE  results[d][TargetOf(p)] # "missing" \/ summaries[d] # <<>> \/ expected[d] = {}
      BY <1>1, <2>1 DEF ReportsCount
    <3>1. x \in Reports
      BY RequestParts, ReportParts
    <3>2. CASE x = r
      BY <1>9, <2>3, <2>4, <3>2
    <3>3. CASE x # r
      BY <1>1, <3>1, <3>3 DEF GroupInv, ReportsCount
    <3> QED
      BY <3>2, <3>3
  <2> QED
    BY <1>7, <1>8, <2>5 DEF GroupInv
<1>11. CASE Notifier!Counts(r)
  <2>1. groups[g] # None
    BY <1>11 DEF Notifier!Counts, Notifier!IsOpen
  <2>2. groups[g] = c
    BY <1>2, <1>5, <2>1 DEF NotifierFacts, UniqueGroupIds
  <2>3. results' = [results EXCEPT ![c] = [results[c] EXCEPT ![t] = status[r]]]
    BY <1>11, <2>2 DEF Notifier!ReportRecord, Notifier!ResultsWith
  <2>4. results'[c][t] = status[r]
    BY <1>3, <2>3 DEF NotifierFacts
  <2>5. \A d \in Collections, u \in Targets : ~(d = c /\ u = t) => results'[d][u] = results[d][u]
    BY <1>3, <2>3 DEF NotifierFacts
  <2>6. ReportsCount'
    <3> SUFFICES ASSUME NEW d \in Collections, NEW p \in RequestsOf(d), NEW x \in {HookReport(p), ProxyReport(p)},
                        reportPc'[x] \in {"flush", "done"}
                 PROVE  results'[d][TargetOf(p)] # "missing" \/ summaries[d] # <<>> \/ expected[d] = {}
      BY <1>1 DEF ReportsCount
    <3>1. x \in Reports /\ TargetOf(p) \in Targets
      BY RequestParts, ReportParts, RequestTypes
    <3>2. CASE d = c /\ TargetOf(p) = t
      BY <1>2, <2>4, <3>2
    <3>3. CASE ~(d = c /\ TargetOf(p) = t)
      <4>1. x # r
        BY <1>3, <1>9, <3>3
      <4> QED
        BY <1>1, <2>5, <3>1, <3>3, <4>1 DEF GroupInv, ReportsCount
    <3> QED
      BY <3>2, <3>3
  <2> QED
    BY <1>7, <1>8, <2>6 DEF GroupInv
<1> QED
  BY <1>10, <1>11

LEMMA NotifierGroupStep ==
    ASSUME UniqueGroupIds, NotifierFacts, TellInv, GroupInv, NotifierStep
    PROVE  GroupInv'
<1>1. UNCHANGED requestVars
  BY DEF NotifierStep
<1>2. ASSUME UNCHANGED <<groups, expected, results, expectPc, reportPc, summaries>> PROVE GroupInv'
  <2>1. UNCHANGED <<collectPc, request>>
    BY <1>1 DEF requestVars
  <2> QED
    BY <1>2, <2>1 DEF GroupInv, GroupIsExpected, RequestsFollow, ReportsCount, Finished
<1>3. ASSUME NEW c \in Collections, Notifier!Timer(c) PROVE GroupInv'
  <2>1. CASE Notifier!TimerFires(c)
    BY <1>2, <2>1 DEF Notifier!TimerFires
  <2>2. CASE Notifier!TimerFlush(c)
    <3>1. Notifier!Flush(GroupIdOf[c], TRUE) /\ UNCHANGED <<expected, results, expectPc, reportPc>>
      BY <2>2 DEF Notifier!TimerFlush
    <3> QED
      BY <1>1, <3>1, FlushGroupStep
  <2> QED
    BY <1>3, <2>1, <2>2 DEF Notifier!Timer
<1>4. ASSUME NEW r \in Reports, Notifier!ReportFlush(r) PROVE GroupInv'
  <2>1. /\ Notifier!Flush(GroupOfReport[r], FALSE) /\ UNCHANGED <<expected, results, expectPc>>
        /\ reportPc[r] = "flush" /\ reportPc' = [reportPc EXCEPT ![r] = "done"]
    BY <1>4 DEF Notifier!ReportFlush
  <2>2. GroupOfReport[r] \in Groups
    BY <2>1 DEF NotifierFacts
  <2>3. \A x \in Reports : \/ reportPc'[x] = reportPc[x]
                           \/ reportPc[x] = "flush" /\ reportPc'[x] = "done"
    BY <2>1 DEF NotifierFacts
  <2> QED
    BY <1>1, <2>1, <2>2, <2>3, FlushGroupStep
<1>5. ASSUME NEW m, Notifier!Post(m) PROVE GroupInv'
  BY <1>2, <1>5 DEF Notifier!Post
<1> QED
  BY <1>1, <1>3, <1>4, <1>5, RecordGroupStep DEF NotifierStep

LEMMA GroupStep ==
    ASSUME UniqueGroupIds, NotifierFacts, TellInv, GroupInv, [Next]_vars
    PROVE  GroupInv'
<1>1. CASE UNCHANGED vars
  <2>1. UNCHANGED <<groups, expected, results, expectPc, reportPc, summaries, collectPc, request>>
    BY <1>1 DEF vars, notifierVars, requestVars
  <2> QED
    BY <2>1 DEF GroupInv, GroupIsExpected, RequestsFollow, ReportsCount, Finished
<1> QED
  BY <1>1, RequestGroupStep, CallGroupStep, CollectGroupStep, NotifierGroupStep
  DEF Next, RequestStep, Terminated

LEMMA GroupHolds == UniqueGroupIds => (Spec => []GroupInv)
<1> SUFFICES ASSUME UniqueGroupIds PROVE Spec => []GroupInv
  OBVIOUS
<1>1. NotifierFacts /\ TellInv /\ GroupInv /\ [Next]_vars => GroupInv'
  BY GroupStep
<1> QED
  BY <1>1, GroupStart, NotifierHolds, TellHolds, PTL DEF Spec

\* When a group collection has been answered and nothing of it is under way, the
\* summary has been sent; the timeout is only for targets that never answer
\* (group/collector.go:110).
THEOREM SettledGroupsAreSummarised == UniqueGroupIds => (Spec => []SettledGroupIsSummarised)
<1> SUFFICES ASSUME UniqueGroupIds PROVE Spec => []SettledGroupIsSummarised
  OBVIOUS
<1>1. NotifierFacts /\ TellInv /\ GroupInv /\ NotifierProofs!CompleteGroupIsFlushed => SettledGroupIsSummarised
  <2> SUFFICES ASSUME NotifierFacts, TellInv, GroupInv, NotifierProofs!CompleteGroupIsFlushed,
                      NEW c \in Collections, collectPc[c] = "answered", expected[c] # {},
                      \A q \in RequestsOf(c) : collection[q] # "running",
                      \A r \in Reports : reportPc[r] \in {"idle", "done"}, summaries[c] = <<>>
               PROVE  FALSE
    BY DEF SettledGroupIsSummarised
  <2>1. expected[c] = Wanted /\ groups[GroupIdOf[c]] = c
    BY DEF GroupInv, GroupIsExpected
  <2>2. ASSUME NEW t \in expected[c] PROVE t \in NotifierProofs!Reported(c)
    <3>1. PICK i \in DOMAIN TargetsFile : t = TargetsFile[i]
      BY <2>1, <2>2 DEF Wanted
    <3>2. PICK q \in RequestsOf(c) : q = <<c, i>>
      BY DEF RequestsOf
    <3>3. q \in Requests /\ q \notin Direct /\ TargetOf(q) = t /\ Finished(q)
      BY <3>1, <3>2, RequestParts DEF GroupInv, RequestsFollow
    <3>4. \E r \in {HookReport(q), ProxyReport(q)} : reportPc[r] # "idle"
      BY <3>3 DEF Finished, TellInv, RequestsTypeOK, HookTells, RequestStarts
    <3>5. results[c][t] # "missing"
      BY <3>3, <3>4, ReportParts DEF GroupInv, ReportsCount
    <3> QED
      BY <3>5, <2>2 DEF NotifierProofs!Reported, NotifierFacts
  <2>3. PICK r \in Reports : reportPc[r] = "flush"
    BY <2>1, <2>2 DEF NotifierProofs!CompleteGroupIsFlushed
  <2> QED
    BY <2>3
<1> QED
  BY <1>1, GroupHolds, NotifierHolds, TellHolds, PTL

-----------------------------------------------------------------------------
(***************************************************************************)
(* The notifier's promise, kept inside a group collection.                 *)
(***************************************************************************)

\* ImplementsGroupSummary without its fairness: collectAll, the hooks and the
\* requests drive the notifier so that every group collection is opened before its
\* first report, collects outcomes only while it is open and is closed at most once.
THEOREM GroupsKeepThePromise == UniqueGroupIds => (Spec => Notifier!Abstract!Spec)
<1> SUFFICES ASSUME UniqueGroupIds PROVE Spec => Notifier!Abstract!Spec
  OBVIOUS
<1>1. NotifierProofs!UniqueGroupIds
  BY DEF UniqueGroupIds, NotifierProofs!UniqueGroupIds
<1>2. NotifierProofs!Spec => NotifierProofs!Abstract!Spec
  BY <1>1, NotifierMayAssume, NotifierProofs!NotifierImplementsSummary
<1>3. NotifierProofs!Abstract!Init => Notifier!Abstract!Init
  BY DEF NotifierProofs!Abstract!Init, Notifier!Abstract!Init
<1>4. [NotifierProofs!Abstract!Next]_(NotifierProofs!Abstract!gvars)
         => [Notifier!Abstract!Next]_(Notifier!Abstract!gvars)
  BY DEF NotifierProofs!Abstract!Next, NotifierProofs!Abstract!gvars,
         NotifierProofs!Abstract!Want, NotifierProofs!Abstract!Open, NotifierProofs!Abstract!Record,
         NotifierProofs!Abstract!Close, NotifierProofs!Abstract!Failed, NotifierProofs!Abstract!Missing,
         Notifier!Abstract!Next, Notifier!Abstract!gvars,
         Notifier!Abstract!Want, Notifier!Abstract!Open, Notifier!Abstract!Record,
         Notifier!Abstract!Close, Notifier!Abstract!Failed, Notifier!Abstract!Missing
<1> QED
  BY <1>2, <1>3, <1>4, RunsTheNotifier, PTL DEF NotifierProofs!Abstract!Spec, Notifier!Abstract!Spec

\* Nobody has to remember a group but its timer: from before its first request until
\* its summary has been sent, it has one that is armed or whose callback is on its way.
\* With timers that fire this is why every group is summarised (slack.go:123).
NoGroupIsForgotten ==
    \A c \in Collections :
        collectPc[c] \in {"requests", "answered"} /\ expected[c] # {} =>
            summaries[c] # <<>> \/ timer[c] \in {"armed", "firing"}

THEOREM GroupsAreWaitedFor == UniqueGroupIds => (Spec => []NoGroupIsForgotten)
<1> SUFFICES ASSUME UniqueGroupIds PROVE Spec => []NoGroupIsForgotten
  OBVIOUS
<1>1. NotifierProofs!Spec => []NotifierProofs!OpenGroupHasTimer
  BY NotifierMayAssume, NotifierProofs!OpenGroupAlwaysHasTimer
<1>2. GroupInv /\ NotifierFacts /\ NotifierProofs!OpenGroupHasTimer => NoGroupIsForgotten
  <2> SUFFICES ASSUME GroupInv, NotifierFacts, NotifierProofs!OpenGroupHasTimer, NEW c \in Collections,
                      collectPc[c] \in {"requests", "answered"}, expected[c] # {}, summaries[c] = <<>>
               PROVE  timer[c] \in {"armed", "firing"}
    BY DEF NoGroupIsForgotten
  <2>1. GroupIdOf[c] \in Groups /\ groups[GroupIdOf[c]] = c /\ c # None
    BY DEF GroupInv, GroupIsExpected
  <2> QED
    BY <2>1 DEF NotifierProofs!OpenGroupHasTimer
<1> QED
  BY <1>1, <1>2, RunsTheNotifier, NotifierHolds, GroupHolds, PTL

-----------------------------------------------------------------------------
(***************************************************************************)
(* The truth of a summary, from the targets to the text.                   *)
(***************************************************************************)

\* What a summary says of a target is true of its request in this group: what has
\* failed did not end well or was not answered as it should, what is not listed has
\* been collected and processed, and targets are missing only after the timeout.
VerdictIsTrue ==
    \A c \in Collections : \A i \in DOMAIN summaries[c] : \A t \in expected[c] :
        /\ t \in summaries[c][i].failed =>
              \E q \in RequestsOf(c) :
                 TargetOf(q) = t /\ (collection[q] = "fail" \/ request[q] = "reported")
        /\ t \notin summaries[c][i].failed \cup summaries[c][i].missing =>
              \E q \in RequestsOf(c) : TargetOf(q) = t /\ collection[q] = "ok"
        /\ t \in summaries[c][i].missing => summaries[c][i].timedOut

\* VerdictIsTrue, from the answer of the target through the hook, the notifier's map
\* and the timer to the text, also when targets.json repeats itself (slack.go:189,
\* group/collector.go:108-117, main.go:41-52).
THEOREM VerdictsAreTrue == UniqueGroupIds => (Spec => []VerdictIsTrue)
<1> SUFFICES ASSUME UniqueGroupIds PROVE Spec => []VerdictIsTrue
  OBVIOUS
<1>1. NotifierProofs!UniqueGroupIds
  BY DEF UniqueGroupIds, NotifierProofs!UniqueGroupIds
<1>2. NotifierProofs!Spec => []NotifierProofs!OnlyTimeoutsMissTargets
  BY <1>1, NotifierMayAssume, NotifierProofs!SummariesAreComplete
<1>3. NotifierProofs!Spec => []NotifierProofs!TellInv
  BY NotifierMayAssume, NotifierProofs!TellInvHolds
<1>4. TellInv /\ NotifierProofs!TellInv /\ NotifierProofs!OnlyTimeoutsMissTargets => VerdictIsTrue
  <2> SUFFICES ASSUME TellInv, NotifierProofs!TellInv, NotifierProofs!OnlyTimeoutsMissTargets,
                      NEW c \in Collections, NEW i \in DOMAIN summaries[c], NEW t \in expected[c]
               PROVE  /\ t \in summaries[c][i].failed =>
                            \E q \in RequestsOf(c) :
                               TargetOf(q) = t /\ (collection[q] = "fail" \/ request[q] = "reported")
                      /\ t \notin summaries[c][i].failed \cup summaries[c][i].missing =>
                            \E q \in RequestsOf(c) : TargetOf(q) = t /\ collection[q] = "ok"
                      /\ t \in summaries[c][i].missing => summaries[c][i].timedOut
    BY DEF VerdictIsTrue
  <2>1. ASSUME NEW r \in counted[c], TargetOfReport[r] = t
        PROVE  \E q \in RequestsOf(c) :
                  /\ TargetOf(q) = t
                  /\ status[r] = "fail" => collection[q] = "fail" \/ request[q] = "reported"
                  /\ status[r] = "ok" => collection[q] = "ok"
    <3>1. r \in Reports /\ GroupOfReport[r] = GroupIdOf[c]
      BY DEF NotifierProofs!TellInv, NotifierProofs!CountedIsRecorded
    <3>2. PICK q \in Requests : r = HookReport(q) \/ r = ProxyReport(q)
      BY <3>1, ReportsAreOfRequests
    <3>3. GroupOfRequest(q) = GroupIdOf[c] /\ TargetOf(q) = t
      BY <2>1, <3>1, <3>2, ReportParts
    <3>4. q \in RequestsOf(c)
      BY <3>3, RequestParts DEF UniqueGroupIds, GroupOfRequest
    <3>5. status[r] = "fail" => collection[q] = "fail" \/ request[q] = "reported"
      BY <3>2 DEF TellInv, HookTells, ProxyTells
    <3>6. status[r] = "ok" => collection[q] = "ok"
      BY <3>2 DEF TellInv, HookTells, ProxyTells
    <3> QED
      BY <3>3, <3>4, <3>5, <3>6
  <2>2. ASSUME NEW s, s \in NotifierProofs!ReportedOf(c, t)
        PROVE  \E r \in counted[c] : TargetOfReport[r] = t /\ status[r] = s
    BY <2>2 DEF NotifierProofs!ReportedOf
  <2>3. NotifierProofs!Tells(c, summaries[c][i])
    BY NotifierMayAssume, NotifierProofs!TellsOne DEF NotifierProofs!TellInv
  <2>4. t \in summaries[c][i].failed => "fail" \in NotifierProofs!ReportedOf(c, t)
    BY <2>3 DEF NotifierProofs!Tells
  <2>5. t \notin summaries[c][i].failed \cup summaries[c][i].missing => "ok" \in NotifierProofs!ReportedOf(c, t)
    BY <2>3 DEF NotifierProofs!Tells
  <2>6. t \in summaries[c][i].missing => summaries[c][i].timedOut
    BY DEF NotifierProofs!OnlyTimeoutsMissTargets
  <2> QED
    BY <2>1, <2>2, <2>4, <2>5, <2>6
<1> QED
  BY <1>2, <1>3, <1>4, RunsTheNotifier, TellHolds, PTL

\* No two entries of targets.json have the same type and label.
DistinctTargets == \A i, j \in DOMAIN TargetsFile : TargetsFile[i] = TargetsFile[j] => i = j

\* A summary with a check mark is never sent unless every target of the group has
\* been collected and processed: what the slack channel shows of a benchmark is so,
\* for any targets.json without repetitions and any group collections with ids of
\* their own (slack.go:189, group/collector.go:100).
THEOREM CheckMarksAreTrue == DistinctTargets /\ UniqueGroupIds => (Spec => []CheckMarkIsTrue)
<1> SUFFICES ASSUME DistinctTargets, UniqueGroupIds PROVE Spec => []CheckMarkIsTrue
  OBVIOUS
<1>1. GroupInv /\ VerdictIsTrue => CheckMarkIsTrue
  <2> SUFFICES ASSUME GroupInv, VerdictIsTrue,
                      NEW c \in Collections, NEW i \in DOMAIN summaries[c],
                      ~Notifier!Warns(summaries[c][i]), NEW q \in RequestsOf(c)
               PROVE  collection[q] = "ok"
    BY DEF CheckMarkIsTrue
  <2>1. expected[c] = Wanted
    BY DEF GroupInv, GroupIsExpected
  <2>2. q[2] \in DOMAIN TargetsFile /\ TargetOf(q) = TargetsFile[q[2]] /\ TargetOf(q) \in expected[c]
    BY <2>1, RequestParts DEF Wanted
  <2>3. PICK p \in RequestsOf(c) : TargetOf(p) = TargetOf(q) /\ collection[p] = "ok"
    BY <2>2 DEF VerdictIsTrue, Notifier!Warns
  <2>4. p = q
    BY <2>2, <2>3, RequestParts DEF DistinctTargets, RequestsOf
  <2> QED
    BY <2>3, <2>4
<1> QED
  BY <1>1, GroupHolds, VerdictsAreTrue, PTL

=============================================================================
