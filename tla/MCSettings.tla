------------------------------ MODULE MCSettings ------------------------------
(***************************************************************************)
(* Instances of Settings for TLC.                                          *)
(***************************************************************************)
EXTENDS Settings, TLC

CONSTANTS short, long, unpretty, bad

\* Two documents of different length; unpretty is reformatted to long, bad refused.
MCDocs == {short, long}
MCTexts == {short, long, unpretty, bad}
MCSanitized == (short :> short) @@ (long :> long) @@ (unpretty :> long) @@ (bad :> Invalid)
MCSize == (short :> 1) @@ (long :> 2)

=============================================================================
