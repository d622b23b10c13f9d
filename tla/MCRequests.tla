------------------------------- MODULE MCRequests -------------------------------
(***************************************************************************)
(* Instances of Requests for TLC.                                          *)
(***************************************************************************)
EXTENDS Requests, TLC

CONSTANTS i1, i2, q1, app, db

TwoIds == {i1, i2}
NoGets == {}
NoStreams == {}
AllAreEager == TwoIds \X {0, 1}
NoneIsEager == {}
OneIndex == {q1}
NoQueries == {}
OneQuery == {q1}

\* The second snapshot is the newer one, with another label.
MCDatetimeOf == (i1 :> 1) @@ (i2 :> 2)
MCLabelOf == (i1 :> app) @@ (i2 :> db)
MCLabels == {app, db}

=============================================================================
