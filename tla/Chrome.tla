------------------------------- MODULE Chrome -------------------------------
(***************************************************************************)
(* The frame around the pages (Shell.tsx): the top bar of a wide window,   *)
(* or the chrome of a narrow one, whose sheet locks the scrolling of the   *)
(* document while it is open.  The lock is a style of the document, which  *)
(* outlives the components: it is put back by the cleanup of the effect    *)
(* that set it, when the sheet closes or when the chrome unmounts, be it   *)
(* because the window grows or because the session is lost.                *)
(***************************************************************************)
CONSTANT Path  \* addresses

VARIABLES
  signedIn,  \* Shell renders the frame, not the login screen
  narrow,    \* mobile, of useMobile
  path,      \* location.pathname
  menuOpen,  \* menuOpen, of MobileChrome
  scroll,    \* document.body.style.overflow
  before     \* prev, of the effect that runs: what the cleanup puts back, or "none"

vars == <<signedIn, narrow, path, menuOpen, scroll, before>>

Init ==
  /\ signedIn \in BOOLEAN /\ narrow \in BOOLEAN /\ path \in Path
  /\ menuOpen = FALSE
  /\ scroll = "auto" /\ before = "none"

\* MobileChrome is mounted.
Framed == signedIn /\ narrow

\* Wrong variant of Effect: the cleanup does not put the style back.
EffectLeavesLock(open) ==
  IF open = (before # "none") THEN UNCHANGED <<scroll, before>>
  ELSE IF open THEN before' = scroll /\ scroll' = "hidden"
       ELSE before' = "none" /\ UNCHANGED scroll

\* The effect on menuOpen, after a render that shows the sheet or not: its
\* cleanup runs when menuOpen changes and when the chrome goes.
Effect(open) ==
  IF open = (before # "none") THEN UNCHANGED <<scroll, before>>
  ELSE IF open THEN before' = scroll /\ scroll' = "hidden"
       ELSE scroll' = before /\ before' = "none"

\* A render of the frame, with the sheet as it is asked to be.
Render(open) ==
  /\ menuOpen' = (open /\ signedIn' /\ narrow')
  /\ Effect(menuOpen')

\* The menu button.
ToggleMenu == Framed /\ UNCHANGED <<signedIn, narrow, path>> /\ Render(~menuOpen)

\* A touch of the backdrop, or of a link of the sheet that leads where one is.
CloseMenu == Framed /\ menuOpen /\ UNCHANGED <<signedIn, narrow, path>> /\ Render(FALSE)

\* A link of the sheet or of the bar below it, or the history: the effect on
\* pathname closes the sheet.
Navigate(to) ==
  /\ signedIn /\ to # path /\ path' = to
  /\ UNCHANGED <<signedIn, narrow>>
  /\ Render(FALSE)

\* The window is resized past the breakpoint.
Resize ==
  /\ narrow' = ~narrow
  /\ UNCHANGED <<signedIn, path>>
  /\ Render(menuOpen)

\* The operator logs out from the sheet, or the session is lost under it.
Leave ==
  /\ signedIn /\ signedIn' = FALSE
  /\ UNCHANGED <<narrow, path>>
  /\ Render(menuOpen)

Enter ==
  /\ ~signedIn /\ signedIn' = TRUE
  /\ UNCHANGED <<narrow, path>>
  /\ Render(FALSE)

Next ==
  \/ ToggleMenu \/ CloseMenu \/ Resize \/ Leave \/ Enter
  \/ \E to \in Path : Navigate(to)

Spec == Init /\ [][Next]_vars

-----------------------------------------------------------------------------
(* Properties *)

\* Every variable keeps its type.
TypeOK ==
  /\ signedIn \in BOOLEAN /\ narrow \in BOOLEAN /\ path \in Path
  /\ menuOpen \in BOOLEAN /\ scroll \in {"auto", "hidden"}
  /\ before \in {"none", "auto", "hidden"}

\* The document scrolls exactly when no sheet covers it: no page is left locked
\* by a chrome that is gone (MobileChrome's effect on menuOpen).
LockedWhileOpen ==
  scroll = "hidden" <=> signedIn /\ narrow /\ menuOpen

=============================================================================
