----------------------------- MODULE MCCollector -----------------------------
(***************************************************************************)
(* Instances of Collector for TLC.                                         *)
(***************************************************************************)
EXTENDS Collector, TLC

CONSTANTS i1, i2, q1, s1

OneId == {i1}
TwoIds == {i1, i2}
OneGet == {q1}
NoGets == {}
OneStream == {s1}
NoStreams == {}

\* Clients ask too early for one of the snapshots, before the process is killed.
FirstIsEager == {<<i1, 0>>}
NoneIsEager == {}

=============================================================================
