-------------------------- MODULE MCApplications --------------------------
(* Small instances of Applications. *)
EXTENDS Applications

\* "incus" is primary, "debug" is not; neither needs the other.
TwoApps == {"incus", "debug"}
NoNeeds == [a \in TwoApps |-> {}]
=============================================================================
