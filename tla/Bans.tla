-------------------------------- MODULE Bans --------------------------------
(***************************************************************************)
(* The banned addresses (internal/ban, api/ban.go): a table, and its copy  *)
(* in memory that connections are checked against, written one after the   *)
(* other; the page that lists them (pages/Bans.tsx); and JARVIS, which     *)
(* loads the copy when it comes up.  Loopback, which is never banned, is   *)
(* left out.                                                               *)
(***************************************************************************)
EXTENDS Naturals, FiniteSets

CONSTANTS
  Address,
  MaxCalls   \* bound: calls of Ban and Unban under way

VARIABLES
  banned,   \* table ip_bans
  blocked,  \* Service.blocked
  listed,   \* bans.data, of the page an administrator has open
  calls,    \* calls of Ban and Unban
  mixed     \* history: the addresses last dealt with by a ban and an unban at once

vars == <<banned, blocked, listed, calls, mixed>>

\* "number" keeps calls apart; the page makes number 0 (useAction), and the others come
\* from scanned paths and failed logins.
Call == [number : 0..MaxCalls, op : {"ban", "unban"}, ip : Address,
         at : {"table", "memory"}, crossed : BOOLEAN]

Init == banned = {} /\ blocked = {} /\ listed = {} /\ calls = {} /\ mixed = {}

-----------------------------------------------------------------------------
(* Calls *)

Starts(number, op, ip) ==
  /\ \A c \in calls : c.number # number
  /\ calls' = calls \cup {[number |-> number, op |-> op, ip |-> ip, at |-> "table",
                           crossed |-> FALSE]}
  /\ UNCHANGED <<banned, blocked, listed, mixed>>

\* The poll lands: asked and answered in one step.
Look == listed' = blocked /\ UNCHANGED <<banned, blocked, calls, mixed>>

Add(ip)    == Starts(0, "ban", ip)
Remove(ip) == ip \in listed /\ Starts(0, "unban", ip)

\* detectProbes, or handleLogin after a failed login, for an address that got through.
AutoBan(ip) == ip \notin blocked /\ \E number \in 1..MaxCalls : Starts(number, "ban", ip)

\* Wrong variant of WriteTable: an unban does not reach the table.
WriteTableBansOnly(c) ==
  /\ c.at = "table"
  /\ banned' = banned \cup (IF c.op = "ban" THEN {c.ip} ELSE {})
  /\ calls' = (calls \ {c}) \cup
       {[number |-> c.number, op |-> c.op, ip |-> c.ip, at |-> "memory", crossed |-> FALSE]}
  /\ UNCHANGED <<blocked, listed, mixed>>

\* The statement of Ban or Unban.  Calls of the other kind for the address that have
\* not got to the copy yet are crossed, and so is this one.
WriteTable(c) ==
  /\ c.at = "table"
  /\ banned' = IF c.op = "ban" THEN banned \cup {c.ip} ELSE banned \ {c.ip}
  /\ LET over == {d \in calls : d.ip = c.ip /\ d.op # c.op /\ d.at = "memory"}
     IN calls' = (calls \ ({c} \cup over)) \cup
          {[number |-> d.number, op |-> d.op, ip |-> d.ip, at |-> "memory",
            crossed |-> d # c \/ over # {}] : d \in {c} \cup over}
  /\ UNCHANGED <<blocked, listed, mixed>>

\* The critical section of Ban or Unban.
WriteMemory(c) ==
  /\ c.at = "memory" /\ calls' = calls \ {c}
  /\ blocked' = IF c.op = "ban" THEN blocked \cup {c.ip} ELSE blocked \ {c.ip}
  /\ mixed' = IF c.crossed THEN mixed \cup {c.ip} ELSE mixed \ {c.ip}
  /\ UNCHANGED <<banned, listed>>

\* The statement fails, because the client has hung up.
Fails(c) ==
  /\ c.at = "table" /\ calls' = calls \ {c}
  /\ UNCHANGED <<banned, blocked, listed, mixed>>

\* JARVIS ends, with the calls under way, and comes up again: Load.
Reboot ==
  /\ blocked' = banned /\ calls' = {} /\ mixed' = {}
  /\ UNCHANGED <<banned, listed>>

Next ==
  \/ Look \/ Reboot
  \/ \E ip \in Address : Add(ip) \/ Remove(ip) \/ AutoBan(ip)
  \/ \E c \in calls : WriteTable(c) \/ WriteMemory(c) \/ Fails(c)

Spec == Init /\ [][Next]_vars

-----------------------------------------------------------------------------
(* Properties *)

\* Every variable keeps its type, and no two calls have one number.
TypeOK ==
  /\ banned \subseteq Address /\ blocked \subseteq Address /\ listed \subseteq Address
  /\ mixed \subseteq Address
  /\ calls \subseteq Call /\ \A c, d \in calls : c.number = d.number => c = d

\* A restart changes nothing: an address is turned away exactly when the table has it,
\* unless a call about it is between the two writes, or the last ones about it were a
\* ban and an unban at once (Service.Ban, Service.Unban, Service.Load).
RestartChangesNothing ==
  \A ip \in Address \ mixed :
    (\A c \in calls : c.ip = ip => c.at = "table") => (ip \in blocked <=> ip \in banned)

=============================================================================
