--------------------------- MODULE MCSlackNotifier ---------------------------
(***************************************************************************)
(* Instances of SlackNotifier for TLC.                                     *)
(***************************************************************************)
EXTENDS SlackNotifier, TLC

CONSTANTS g1, g2, e1, e2, a, b, c, r1, r2, r3, r4

MCGroups == {g1, g2}
MCTargets == {a, b, c}

\* Two group collections with ids of their own.
MCExpectations == {e1, e2}
MCGroupOf == (e1 :> g1) @@ (e2 :> g2)
MCTargetLists == {<<>>, <<a, b>>, <<b, a, b>>}

\* Both targets of the first group report, a target nobody waits for reports
\* to it, and a collection outside any group reports.
MCReports == {r1, r2, r3, r4}
MCGroupOfReport == (r1 :> g1) @@ (r2 :> g1) @@ (r3 :> g1) @@ (r4 :> NoGroup)
MCTargetOfReport == (r1 :> a) @@ (r2 :> b) @@ (r3 :> c) @@ (r4 :> a)

\* One group.
OneExpectation == {e1}
OneGroups == {g1}
OneGroupOf == (e1 :> g1)
OneReports == {r1, r2, r3}
OneGroupOfReport == (r1 :> g1) @@ (r2 :> g1) @@ (r3 :> g1)

\* Two entries of targets.json with the same Type and Label, and a third entry.
DupTargetLists == {<<a, a, b>>}
DupTargetOfReport == (r1 :> a) @@ (r2 :> a) @@ (r3 :> b)

=============================================================================
