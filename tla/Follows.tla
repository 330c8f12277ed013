------------------------------ MODULE Follows ------------------------------
(***************************************************************************)
(* What a polled view promises, whatever the timing of its answers: it     *)
(* shows the server as it was at some moment, and after the view has been  *)
(* asked to refresh, nothing appears in it that is older than the refresh. *)
(* A view may go back in time between two refreshes.                       *)
(***************************************************************************)
EXTENDS Naturals

CONSTANT Nothing

VARIABLES
  now,    \* the server's time: how often it has changed
  shown,  \* the time of what the view shows, or Nothing
  floor   \* the time of the last refresh

view == <<now, shown, floor>>

Init == now = 0 /\ shown = Nothing /\ floor = 0

\* The server changes.
Advance == now' = now + 1 /\ UNCHANGED <<shown, floor>>

\* The view is refreshed; what it shows stays until an answer comes.
Refresh == floor' = now /\ UNCHANGED <<now, shown>>

\* The view is opened anew, or left.
Reopen == shown' = Nothing /\ floor' = now /\ UNCHANGED now

\* An answer appears.
Show == shown' \in floor..now /\ UNCHANGED <<now, floor>>

Next == Advance \/ Refresh \/ Reopen \/ Show

Spec == Init /\ [][Next]_view

=============================================================================
