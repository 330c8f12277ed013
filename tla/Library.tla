------------------------------ MODULE Library ------------------------------
(***************************************************************************)
(* What the repository of one application promises, whatever files, rows   *)
(* and requests it is made of: a version is listed with one jar, the same  *)
(* for as long as it is listed; the version that is promoted and the one   *)
(* that is on record as running are listed, and can only go together with  *)
(* the application.                                                        *)
(***************************************************************************)
CONSTANTS Version, Jar, None

VARIABLES
  listed,    \* the jar a launch of each version finds; None: it is not listed
  promoted,  \* the version that is to be launched, or None
  recorded   \* the version an instance is recorded to run, or None

view == <<listed, promoted, recorded>>

Init == listed = [v \in Version |-> None] /\ promoted = None /\ recorded = None

\* A version appears with its jar.
Store(v) ==
  /\ listed[v] = None
  /\ \E j \in Jar : listed' = [listed EXCEPT ![v] = j]
  /\ UNCHANGED <<promoted, recorded>>

Promote(v) ==
  /\ listed[v] # None
  /\ promoted' = v
  /\ UNCHANGED <<listed, recorded>>

\* A launch is recorded, with the version promoted or without one.
Record ==
  /\ recorded' \in {v \in Version : listed[v] # None} \cup {None}
  /\ UNCHANGED <<listed, promoted>>

\* A version goes that is neither promoted nor recorded.
Discard(v) ==
  /\ listed[v] # None /\ v \notin {promoted, recorded}
  /\ listed' = [listed EXCEPT ![v] = None]
  /\ UNCHANGED <<promoted, recorded>>

\* The application is deleted.
Clear == listed' = [v \in Version |-> None] /\ promoted' = None /\ recorded' = None

Next == (\E v \in Version : Store(v) \/ Promote(v) \/ Discard(v)) \/ Record \/ Clear

Spec == Init /\ [][Next]_view

=============================================================================
