------------------------------ MODULE XServer ------------------------------
(***************************************************************************)
(* External: the X server (Xvfb) that the backend of                       *)
(* aperturec-server/src/backend/x.rs drives, as far as that code relies on *)
(* it: RandR's screen, CRTCs and modes, the server grab, and the keyboard  *)
(* and pointer that XTest presses.  A display is a record of its state and *)
(* its area; a mode is known by its name, which is its size.               *)
(*                                                                         *)
(* A request may be refused by the rules of the server or, a bounded       *)
(* number of times, for reasons of its own; it then has no effect.         *)
(***************************************************************************)
EXTENDS Integers, FiniteSets

CONSTANTS
  CrtcCount,            \* the CRTCs of the server, each with an output
  MaxWidth, MaxHeight,  \* the largest screen
  LockKey,              \* the first keycode of each lock, 0 for none
  MaxRefusals           \* bound: requests refused for no reason of the code's

VARIABLES
  screen,        \* <<width, height>>
  crtcs,         \* per id, the display that its CRTC shows
  default_mode,  \* the size of the mode the server starts with
  modes,         \* the sizes of the modes created since
  outputs,       \* per id, the modes added to its output
  unset,         \* history: the ids whose SetCrtcConfig a call had refused by its status
  grabbed,       \* the backend holds the server grab
  down,          \* the keycodes held down
  buttons,       \* the pointer's buttons held down
  locks,         \* the locks that are on
  refusals       \* history: requests refused so far

randrVars == <<crtcs, modes, outputs, unset>>
keyVars == <<down, buttons, locks>>
xVars == <<screen, default_mode, randrVars, grabbed, keyVars, refusals>>

Ids == 0..CrtcCount - 1

Off == [on |-> FALSE, x |-> 0, y |-> 0, w |-> 0, h |-> 0]

SizeOf(d) == <<d.w, d.h>>

OnScreen(size, d) == d.on => d.x + d.w <= size[1] /\ d.y + d.h <= size[2]

\* SetScreenSize is refused outside the screen's range, and when a CRTC that is
\* on would not be on the screen any more.
AcceptsScreenSize(size) ==
  /\ size[1] \in 1..MaxWidth
  /\ size[2] \in 1..MaxHeight
  /\ \A id \in Ids : OnScreen(size, crtcs[id])

\* SetCrtcConfig is refused when the display is not on the screen.
AcceptsCrtcConfig(d) == OnScreen(screen, d)

\* DeleteOutputMode is refused while the output's CRTC is in the mode.
AcceptsDeleteMode(id, mode) == ~(crtcs[id].on /\ SizeOf(crtcs[id]) = mode)

\* DestroyMode is refused while an output lists the mode.
AcceptsDestroyMode(mode) ==
  mode \in modes /\ \A id \in Ids : mode \notin outputs[id]

\* FakeInput of a key.  The press of a lock's key toggles the lock, unless the
\* key is down already.
PressKey(key) ==
  LET toggled == {l \in DOMAIN LockKey : LockKey[l] = key /\ key \notin down}
  IN  /\ down' = down \cup {key}
      /\ locks' = (locks \ toggled) \cup (toggled \ locks)
      /\ UNCHANGED buttons

ReleaseKey(key) == down' = down \ {key} /\ UNCHANGED <<buttons, locks>>

\* FakeInput of buttons.
FakeButtons(pressed, released) ==
  /\ buttons' = (buttons \ released) \cup pressed
  /\ UNCHANGED <<down, locks>>

Granted == UNCHANGED refusals

Refused == refusals < MaxRefusals /\ refusals' = refusals + 1

\* Xvfb starts with its first CRTC on, in its default mode.
XStarts(size, mode) ==
  /\ screen = size
  /\ default_mode = mode
  /\ crtcs = [id \in Ids |->
                IF id = 0 THEN [on |-> TRUE, x |-> 0, y |-> 0, w |-> mode[1], h |-> mode[2]]
                          ELSE Off]
  /\ modes = {}
  /\ outputs = [id \in Ids |-> {}]
  /\ unset = {}
  /\ grabbed = FALSE
  /\ down = {}
  /\ buttons = {}
  /\ locks = {}
  /\ refusals = 0

\* Another client of the server changes the screen's size; it waits while the
\* backend has grabbed the server.
OtherClientResizes(size) ==
  /\ ~grabbed
  /\ size # screen
  /\ AcceptsScreenSize(size)
  /\ screen' = size
  /\ UNCHANGED <<default_mode, randrVars, grabbed, keyVars, refusals>>
=============================================================================
