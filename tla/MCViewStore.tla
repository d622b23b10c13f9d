------------------------------ MODULE MCViewStore ------------------------------
(***************************************************************************)
(* Instances of ViewStore for TLC.                                         *)
(***************************************************************************)
EXTENDS ViewStore, TLC

CONSTANTS i1, i2, pprof, httplog

\* A profile and a log, each in a list of its own.
MCIds == {i1, i2}
MCEndpoints == {pprof, httplog}
MCEndpointOf == (i1 :> pprof) @@ (i2 :> httplog)

=============================================================================
