--------------------------- MODULE SnapshotLifecycle ---------------------------
(***************************************************************************)
(* What a collector promises about each snapshot, with no store, lock,     *)
(* processor or goroutine in it: an accepted snapshot is pending until it  *)
(* settles, once, as ok or fail; whoever is notified is told of that       *)
(* outcome at most once, ever; a restart forgets every status but brings   *)
(* back at least the snapshots that were ok, and what it brings back       *)
(* settles again without anybody being told.                               *)
(*                                                                         *)
(* Collector implements this module; see Abstract in Collector.            *)
(***************************************************************************)
EXTENDS Sequences

CONSTANT Ids    \* snapshot ids

VARIABLES
    entry,      \* entry[id]: "absent", "pending", "ok" or "fail"
    accepted,   \* the ids that have been given to a snapshot
    restored,   \* the ids that the last restart has brought back
    told        \* told[id]: the outcomes that have been notified

lvars == <<entry, accepted, restored, told>>

Init ==
    /\ entry = [id \in Ids |-> "absent"]
    /\ accepted = {}
    /\ restored = {}
    /\ told = [id \in Ids |-> <<>>]

\* A snapshot gets an id.
Accept(id) ==
    /\ id \notin accepted
    /\ accepted' = accepted \cup {id}
    /\ UNCHANGED <<entry, restored, told>>

\* It is listed.
Enter(id) ==
    /\ id \in accepted
    /\ entry[id] = "absent"
    /\ entry' = [entry EXCEPT ![id] = "pending"]
    /\ UNCHANGED <<accepted, restored, told>>

Settle(id, outcome) ==
    /\ entry[id] = "pending"
    /\ entry' = [entry EXCEPT ![id] = outcome]
    /\ UNCHANGED <<accepted, restored, told>>

Tell(id) ==
    /\ entry[id] \in {"ok", "fail"}
    /\ id \notin restored
    /\ told[id] = <<>>
    /\ told' = [told EXCEPT ![id] = <<entry[id]>>]
    /\ UNCHANGED <<entry, accepted, restored>>

Restart ==
    /\ entry' = [id \in Ids |-> "absent"]
    /\ restored' \in SUBSET accepted
    /\ {id \in Ids : entry[id] = "ok"} \subseteq restored'
    /\ UNCHANGED <<accepted, told>>

Next ==
    \/ \E id \in Ids :
          \/ Accept(id)
          \/ Enter(id)
          \/ \E outcome \in {"ok", "fail"} : Settle(id, outcome)
          \/ Tell(id)
    \/ Restart

Spec == Init /\ [][Next]_lvars

=============================================================================
