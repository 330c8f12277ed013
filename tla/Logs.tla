-------------------------------- MODULE Logs --------------------------------
(***************************************************************************)
(* The console log on the page of an application: the panel                *)
(* (components/LogPanel.tsx) asks for the last lines, then opens a stream  *)
(* for the lines to come, which the server reads from the file every half  *)
(* second (handleAppLogs and handleAppLogStream of api/logs.go, TailLines  *)
(* and ReadSince of internal/applog).  Every launch of an application      *)
(* writes to a file of its own; a stream keeps to the file it was opened   *)
(* on.  A line is known by its application, its launch and its number.     *)
(* Nobody empties a file by hand.                                          *)
(***************************************************************************)
EXTENDS Naturals, Sequences

CONSTANTS
  App,
  None,
  Wanted,      \* lines asked for at first (250 in the code)
  Kept,        \* lines the panel keeps (800)
  Pauses,      \* whether the operator may pause the panel
  MaxLaunches, \* bound: launches of an application
  MaxLines,    \* bound: lines a launch writes
  MaxMoves     \* bound: connections that break, and moves to another application

VARIABLES
  launch,      \* the current launch of each application, 0: never launched
  written,     \* how many lines each launch has written
  appName,     \* the application whose page it is
  phase,       \* start, of the panel's effect
  tail,        \* the answer of appLogs on its way
  stream,      \* the connection at the server: its file, and how far it has read
  chunks,      \* chunks on their way
  lines,       \* lines, of the panel
  paused,      \* paused, of the panel
  moves        \* breaks and moves so far

files == <<launch, written>>
wire  == <<tail, stream, chunks>>
vars  == <<files, appName, phase, wire, lines, paused, moves>>

Lines(a, n, from, to) == [i \in 1..(to - from) |-> [app |-> a, launch |-> n, no |-> from + i]]

Last(s, n) == SubSeq(s, IF Len(s) > n THEN Len(s) - n + 1 ELSE 1, Len(s))

Now(a) == written[a][launch[a]]

Init ==
  /\ launch = [a \in App |-> 0] /\ written = [a \in App |-> [n \in 1..MaxLaunches |-> 0]]
  /\ appName \in App /\ phase = "tail"
  /\ tail = None /\ stream = None /\ chunks = <<>>
  /\ lines = <<>> /\ paused = FALSE /\ moves = 0

-----------------------------------------------------------------------------
(* The application *)

Launch(a) ==
  /\ launch[a] < MaxLaunches
  /\ launch' = [launch EXCEPT ![a] = @ + 1]
  /\ UNCHANGED <<written, appName, phase, wire, lines, paused, moves>>

Write(a) ==
  /\ launch[a] > 0 /\ Now(a) < MaxLines
  /\ written' = [written EXCEPT ![a][launch[a]] = @ + 1]
  /\ UNCHANGED <<launch, appName, phase, wire, lines, paused, moves>>

-----------------------------------------------------------------------------
(* The server *)

\* handleAppLogs: the file of the last launch, if there was one.
ServeTail ==
  /\ phase = "tail" /\ tail = None
  /\ IF launch[appName] = 0
     THEN phase' = "failed" /\ UNCHANGED tail
     ELSE /\ tail' = Last(Lines(appName, launch[appName], 0, Now(appName)), Wanted)
          /\ UNCHANGED phase
  /\ UNCHANGED <<files, appName, stream, chunks, lines, paused, moves>>

\* Wrong variant of Offset: the stream starts with the whole file.
OffsetOfStart(a) == 0

\* Where handleAppLogStream starts to read, when the panel names no offset: at
\* the end of the file.
Offset(a) == Now(a)

\* handleAppLogStream, before its loop.
Open ==
  /\ phase = "open"
  /\ stream' = [app |-> appName, launch |-> launch[appName], offset |-> Offset(appName)]
  /\ phase' = "stream"
  /\ UNCHANGED <<files, appName, tail, chunks, lines, paused, moves>>

\* Wrong variant of Tick: a last line that may be incomplete is held back, and
\* read past.
TickHoldsBack ==
  /\ phase = "stream"
  /\ LET s == stream  to == written[s.app][s.launch]
     IN /\ s.offset < to
        /\ chunks' = Append(chunks, Lines(s.app, s.launch, s.offset, to - 1))
        /\ stream' = [app |-> s.app, launch |-> s.launch, offset |-> to]
  /\ UNCHANGED <<files, appName, phase, tail, lines, paused, moves>>

\* Its loop: what was written since the last tick is sent.
Tick ==
  /\ phase = "stream"
  /\ LET s == stream  to == written[s.app][s.launch]
     IN /\ s.offset < to
        /\ chunks' = Append(chunks, Lines(s.app, s.launch, s.offset, to))
        /\ stream' = [app |-> s.app, launch |-> s.launch, offset |-> to]
  /\ UNCHANGED <<files, appName, phase, tail, lines, paused, moves>>

-----------------------------------------------------------------------------
(* The panel *)

\* start past its await: the lines replace what is there, and the stream is asked for.
LandTail ==
  /\ tail # None
  /\ lines' = tail /\ tail' = None /\ phase' = "open"
  /\ UNCHANGED <<files, appName, stream, chunks, paused, moves>>

\* appLogs fails: the panel shows the error and opens no stream.
TailFails ==
  /\ phase = "tail" /\ moves < MaxMoves /\ moves' = moves + 1
  /\ phase' = "failed" /\ tail' = None
  /\ UNCHANGED <<files, appName, stream, chunks, lines, paused>>

\* Wrong variant of Hear: old lines are never dropped.
HearKeepsAll ==
  /\ chunks # <<>> /\ chunks' = Tail(chunks)
  /\ lines' = IF paused THEN lines ELSE lines \o chunks[1]
  /\ UNCHANGED <<files, appName, phase, tail, stream, paused, moves>>

\* A chunk arrives; a paused panel drops it.
Hear ==
  /\ chunks # <<>> /\ chunks' = Tail(chunks)
  /\ lines' = IF paused THEN lines ELSE Last(lines \o chunks[1], Kept)
  /\ UNCHANGED <<files, appName, phase, tail, stream, paused, moves>>

\* The connection breaks, and the browser's EventSource opens another.
Break ==
  /\ phase = "stream" /\ moves < MaxMoves /\ moves' = moves + 1
  /\ stream' = None /\ chunks' = <<>> /\ phase' = "open"
  /\ UNCHANGED <<files, appName, tail, lines, paused>>

Pause ==
  /\ Pauses /\ paused' = ~paused
  /\ UNCHANGED <<files, appName, phase, wire, lines, moves>>

\* The page turns to another application: the effect is cancelled, its stream
\* closed, and another one starts.  The lines stay until its tail is there.
Move(a) ==
  /\ a # appName /\ moves < MaxMoves /\ moves' = moves + 1
  /\ appName' = a /\ phase' = "tail"
  /\ tail' = None /\ stream' = None /\ chunks' = <<>>
  /\ UNCHANGED <<files, lines, paused>>

Next ==
  \/ \E a \in App : Launch(a) \/ Write(a) \/ Move(a)
  \/ ServeTail \/ Open \/ Tick
  \/ LandTail \/ TailFails \/ Hear \/ Break \/ Pause

Spec == Init /\ [][Next]_vars

\* The server answers and ticks, and the browser delivers.
FairSpec ==
  /\ Spec
  /\ WF_vars(ServeTail) /\ WF_vars(LandTail) /\ WF_vars(Open)
  /\ WF_vars(Tick) /\ WF_vars(Hear)

-----------------------------------------------------------------------------
(* Properties *)

Line == [app : App, launch : 1..MaxLaunches, no : 1..MaxLines]

\* Every variable keeps its type.
TypeOK ==
  /\ launch \in [App -> 0..MaxLaunches]
  /\ written \in [App -> [1..MaxLaunches -> 0..MaxLines]]
  /\ appName \in App /\ phase \in {"tail", "open", "stream", "failed"}
  /\ tail = None \/ \A i \in 1..Len(tail) : tail[i] \in Line
  /\ stream = None \/ stream \in [app : App, launch : 1..MaxLaunches, offset : 0..MaxLines]
  /\ \A i \in 1..Len(lines) : lines[i] \in Line
  /\ Len(lines) <= Kept \/ Len(lines) <= Wanted
  /\ paused \in BOOLEAN /\ moves \in 0..MaxMoves

Before(l, m) == l.launch < m.launch \/ (l.launch = m.launch /\ l.no < m.no)

\* The panel shows lines of one application only, in the order in which they
\* were written and none of them twice, across streams that break, launches and
\* moves from one application to another (LogPanel's effect, ReadSince).
LinesInOrder ==
  \A i, j \in 1..Len(lines) :
    i < j => lines[i].app = lines[j].app /\ Before(lines[i], lines[j])

\* What is written to the file a stream is open on comes to stand in a panel that
\* is not paused, up to the last line of that file, unless the stream breaks or
\* the page moves on (handleAppLogStream, LogPanel's chunk handler).
StreamDelivers ==
  LET open == phase = "stream"
      end  == [app |-> stream.app, launch |-> stream.launch,
               no |-> written[stream.app][stream.launch]]
  IN (open /\ stream.offset < end.no)
       ~> (~open \/ paused \/ (lines # <<>> /\ lines[Len(lines)] = end))

\* What the comment on handleAppLogStream says of polling, that it would miss
\* lines written between two requests, does not happen here: two lines that stand
\* one after the other in the panel were written one after the other.
NoLineSkipped ==
  \A i \in 2..Len(lines) :
    lines[i].launch = lines[i - 1].launch => lines[i].no = lines[i - 1].no + 1

=============================================================================
