------------------------------- MODULE Polled -------------------------------
(***************************************************************************)
(* usePolled, the hook every view of the admin interface is built from     *)
(* (hooks.ts), as operators on the state one use of it keeps: what it      *)
(* shows, and the answers on their way to the effect that is running.      *)
(*                                                                         *)
(* usePolled asks the server on mount, on an interval, and again whenever  *)
(* refresh is called.  A poll does not wait for the answer to the one      *)
(* before, so several answers may be on their way and land in any order.   *)
(* refresh starts a new effect and cancels the old one, whose answers are  *)
(* then dropped.  The server answers a poll in the step that asks: an      *)
(* early question answered late is the same as a late question, because    *)
(* the timer may fire at any time.  Two equal answers count as one.  The   *)
(* error and loading flags beside the data are left out.                   *)
(***************************************************************************)
EXTENDS Naturals, FiniteSets

CONSTANTS
  None,
  Failed,    \* the answer of a call that did not succeed
  MaxLoads   \* bound: answers of one effect on their way at once

ASSUME PolledAssumption == MaxLoads \in Nat \ {0} /\ Failed # None

Polls(Data) == [data : Data \cup {None}, flight : SUBSET (Data \cup {Failed})]

\* The state of usePolled when its component mounts.
Mounted == [data |-> None, flight |-> {}]

\* load, as far as its await: the server answers with v.
CanAsk(p) == Cardinality(p.flight) < MaxLoads

Asked(p, v) == [data |-> p.data, flight |-> p.flight \cup {v}]

\* load past its await, in an effect that was not cancelled.  A failure leaves
\* the data where it is.
Landed(p, v) == [data |-> IF v = Failed THEN p.data ELSE v, flight |-> p.flight \ {v}]

\* Wrong variant of Refreshed: the answers to the old effect still land.
RefreshedUncancelled(p) == p

\* refresh: the old effect is cancelled, and with it what it had asked.
Refreshed(p) == [data |-> p.data, flight |-> {}]

=============================================================================
