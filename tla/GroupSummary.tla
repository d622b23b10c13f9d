---------------------------- MODULE GroupSummary ----------------------------
(***************************************************************************)
(* What the Slack notifier promises about group collections, with no map,  *)
(* mutex, timer or goroutine in it: a group that is opened collects the    *)
(* outcome of the targets it waits for and is closed exactly once, with a  *)
(* verdict that lists what has failed and what is missing.  Closing early, *)
(* with targets missing, is allowed only as a timeout.                     *)
(*                                                                         *)
(* SlackNotifier implements this module; see Abstract in SlackNotifier.    *)
(***************************************************************************)
EXTENDS FiniteSets

CONSTANTS
    Expectations,   \* the group collections
    Targets         \* the (Type, Label) pairs a group can wait for

VARIABLES
    phase,      \* phase[e]: "unused", "open" or "closed"
    wanted,     \* wanted[e]: the targets group e waits for
    outcome,    \* outcome[e][t]: "ok", "fail" or "missing"
    verdict     \* verdict[e]: <<>> until e is closed, then <<its summary>>

gvars == <<phase, wanted, outcome, verdict>>

Failed(e)  == {t \in wanted[e] : outcome[e][t] = "fail"}
Missing(e) == {t \in wanted[e] : outcome[e][t] = "missing"}

Init ==
    /\ phase = [e \in Expectations |-> "unused"]
    /\ wanted = [e \in Expectations |-> {}]
    /\ outcome = [e \in Expectations |-> [t \in Targets |-> "missing"]]
    /\ verdict = [e \in Expectations |-> <<>>]

\* The targets a group waits for are settled before it is opened.
Want(e) ==
    /\ phase[e] = "unused"
    /\ \E S \in SUBSET Targets : wanted' = [wanted EXCEPT ![e] = S]
    /\ UNCHANGED <<phase, outcome, verdict>>

Open(e) ==
    /\ phase[e] = "unused"
    /\ wanted[e] # {}
    /\ phase' = [phase EXCEPT ![e] = "open"]
    /\ UNCHANGED <<wanted, outcome, verdict>>

Record(e) ==
    /\ phase[e] = "open"
    /\ \E t \in wanted[e], s \in {"ok", "fail"} :
          outcome' = [outcome EXCEPT ![e][t] = s]
    /\ UNCHANGED <<phase, wanted, verdict>>

Close(e) ==
    /\ phase[e] = "open"
    /\ phase' = [phase EXCEPT ![e] = "closed"]
    /\ \E timedOut \in BOOLEAN :
          /\ Missing(e) = {} \/ timedOut
          /\ verdict' = [verdict EXCEPT ![e] =
                <<[timedOut |-> timedOut,
                   failed   |-> Failed(e),
                   missing  |-> Missing(e)]>>]
    /\ UNCHANGED <<wanted, outcome>>

Next == \E e \in Expectations : Want(e) \/ Open(e) \/ Record(e) \/ Close(e)

Spec == Init /\ [][Next]_gvars

\* Every group that is opened is closed.
FairSpec == Spec /\ \A e \in Expectations : WF_gvars(Close(e))

=============================================================================
