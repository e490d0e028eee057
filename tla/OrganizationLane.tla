--------------------------- MODULE OrganizationLane ---------------------------
(***************************************************************************)
(* What claimAutomationAssistantRun promises: an organisation has one lane. *)
(* One automation at a time has it; it renews its lease while it works and  *)
(* gives it back; nobody takes it from a holder whose lease has not lapsed. *)
(***************************************************************************)
CONSTANTS Automations, Free

VARIABLES holder, lapsed

laneVars == <<holder, lapsed>>

Init == holder = Free /\ lapsed = FALSE

Take(a) == /\ holder = Free \/ lapsed
           /\ holder' = a
           /\ lapsed' = FALSE

Renew == holder # Free /\ lapsed' = FALSE /\ UNCHANGED holder

Lapse == holder # Free /\ lapsed' = TRUE /\ UNCHANGED holder

(* By the holder, or by the reconciler when the lease has lapsed. *)
Release == /\ holder # Free
           /\ holder' = Free
           /\ lapsed' = FALSE

Next == (\E a \in Automations : Take(a)) \/ Renew \/ Lapse \/ Release

Spec == Init /\ [][Next]_laneVars
=============================================================================
