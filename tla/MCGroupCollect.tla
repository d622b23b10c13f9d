---------------------------- MODULE MCGroupCollect ----------------------------
(***************************************************************************)
(* Instances of GroupCollect for TLC.                                      *)
(***************************************************************************)
EXTENDS GroupCollect, TLC

CONSTANTS g1, c1, a, m, d1

MCTargets == {a, m}
MCHandlerOf == (a :> "async") @@ (m :> "memo")

OneCollection == {c1}
OneGroup == {g1}
OneGroupIdOf == (c1 :> g1)
NoCollection == {}
NoGroupIdOf == <<>>
OneDirect == {d1}
OneDirectTarget == (d1 :> a)

\* A background target and a memo; one background target.
TargetAndMemo == <<a, m>>
OneTarget == <<a>>

=============================================================================
