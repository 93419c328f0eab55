--------------------------- MODULE ReleaseHistory ---------------------------
(***************************************************************************)
(* What a system promises about the releases it runs: only releases its    *)
(* provider offered, and never an older one than the current one unless    *)
(* that release has run on this system before.                             *)
(***************************************************************************)
EXTENDS Naturals

CONSTANT Versions

VARIABLES current, offered, ran

Init ==
    /\ current \in Versions
    /\ offered = {}
    /\ ran = {current}

Offer(v) ==
    /\ offered' = offered \cup {v}
    /\ UNCHANGED <<current, ran>>

\* A newer release takes over.
Advance(v) ==
    /\ v \in offered
    /\ v > current
    /\ current' = v
    /\ ran' = ran \cup {v}
    /\ UNCHANGED offered

\* Back to a release that worked before.
FallBack(v) ==
    /\ v \in ran
    /\ current' = v
    /\ UNCHANGED <<offered, ran>>

Next == \E v \in Versions : Offer(v) \/ Advance(v) \/ FallBack(v)

Spec == Init /\ [][Next]_<<current, offered, ran>>
=============================================================================
