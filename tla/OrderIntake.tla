----------------------------- MODULE OrderIntake -----------------------------
(***************************************************************************)
(* What the way from the form to the order promises, whatever is typed     *)
(* late, reloaded, limited, refused or lost: orders are made one at a time *)
(* and of complete data; each is then either shown to the browser that     *)
(* asked for it or given up as lost, once and for all, before another one  *)
(* is made.                                                                *)
(***************************************************************************)
EXTENDS Naturals

VARIABLES
    made,           \* orders made: 1..made
    draft,          \* the order under way: "none", "complete", or "deficient"
    seen,           \* orders the browser was led to
    lost            \* orders it will never hear of

intakeVars == <<made, draft, seen, lost>>

Init ==
    /\ made = 0
    /\ draft = "none"
    /\ seen = {}
    /\ lost = {}

Make ==
    /\ draft = "none"
    /\ made' = made + 1
    /\ draft' = "complete"
    /\ UNCHANGED <<seen, lost>>

Show ==
    /\ draft = "complete"
    /\ seen' = seen \cup {made}
    /\ draft' = "none"
    /\ UNCHANGED <<made, lost>>

Lose ==
    /\ draft = "complete"
    /\ lost' = lost \cup {made}
    /\ draft' = "none"
    /\ UNCHANGED <<made, seen>>

Next == Make \/ Show \/ Lose

Spec == Init /\ [][Next]_intakeVars

=============================================================================
