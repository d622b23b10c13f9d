------------------------------- MODULE MCStartup -------------------------------
(***************************************************************************)
(* Instances of Startup for TLC.                                           *)
(***************************************************************************)
EXTENDS Startup, TLC

\* A profile and three logs of requests: two of the logs write what it takes to reuse the
\* page under the slice of the third, which may then be read as the profile.
MCTypeOf == (1 :> "pprof") @@ (2 :> "httplog") @@ (3 :> "httplog") @@ (4 :> "httplog")

\* The bound of the instance: the profile and the first log can be processed, the others
\* as well or not.
FirstAreSound == {1, 2} \subseteq sound

=============================================================================
