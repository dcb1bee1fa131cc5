------------------------------ MODULE XBackend ------------------------------
(***************************************************************************)
(* The server's X backend (aperturec-server/src/backend/x.rs) and the      *)
(* calls that a session makes of it (server.rs, task/backend.rs): starting *)
(* Xvfb, setting the displays that a client asks for, setting its locks,   *)
(* passing on its input, and putting the keyboard back when it is gone.    *)
(*                                                                         *)
(* Every action is one X request with what the code does until its next    *)
(* one, since a request is an await point at which it may be refused and,  *)
(* unless the server is grabbed, another client may come in between.       *)
(***************************************************************************)
EXTENDS XServer, FiniteSetsExt, Sequences

CONSTANTS
  MinWidth, MinHeight,  \* X::MIN_WIDTH, X::MIN_HEIGHT
  MaxDimension,         \* u16::MAX, of a width or height
  MaxCoordinate,        \* i16::MAX, of an origin
  MinKeycode, MaxKeycode,
  Requests,             \* the display lists that clients ask for
  Keys,                 \* the keys (u32) of key events
  Buttons,              \* the buttons of pointer events
  MaxCalls,             \* bound: calls of set_displays
  MaxInputs,            \* bound: input events
  MaxResizes            \* bound: resizes by another client

\* A display, in the backend's own integers.
Display == [on : BOOLEAN, x : Nat, y : Nat, w : Nat, h : Nat]

\* A screen has room for a display of the minimal size.  X does not let two
\* modifiers share a keycode.
ASSUME BackendAssumption ==
  /\ CrtcCount \in Nat \ {0}
  /\ MinWidth \in Nat \ {0} /\ MaxWidth \in Nat /\ MinWidth <= MaxWidth
  /\ MinHeight \in Nat \ {0} /\ MaxHeight \in Nat /\ MinHeight <= MaxHeight
  /\ MaxDimension \in Nat /\ MaxCoordinate \in Nat
  /\ MinKeycode \in Nat /\ MaxKeycode \in Nat
  /\ Requests \subseteq Seq(Display)
  /\ Keys \subseteq Nat
  /\ LockKey \in [DOMAIN LockKey -> Nat]
  /\ \A l, m \in DOMAIN LockKey : LockKey[l] = LockKey[m] /\ LockKey[l] # 0 => l = m
  /\ MaxRefusals \in Nat /\ MaxCalls \in Nat /\ MaxInputs \in Nat /\ MaxResizes \in Nat

VARIABLES
  life,      \* initialize: "xvfb", "connect", "setup", "minimal"; then "ready",
             \* "failed" (no backend)
  support,   \* what Xvfb makes of -crtcs: "sized", "plain" or "none"
  stage,     \* "none", or where the calls of a session are
  asked,     \* the locks that the client asked for
  todo,      \* the locks still to toggle or the keycodes still to release
  call,      \* the call of set_displays under way; `of': the ids of the displays in
             \* its final_displays
  returned,  \* what the last call of set_displays returned
  counts     \* how often the bounded things happened, and calls failed

callVars == <<call, returned>>
sessionVars == <<stage, asked, todo>>
backendVars == <<xVars, life, support, sessionVars, callVars, counts>>

max_display_count == IF support = "none" THEN 1 ELSE CrtcCount

NoCall ==
  [at |-> "none", by |-> "none", req |-> <<>>, id |-> 0, old |-> Off, final |-> <<>>,
   of |-> <<>>, errors |-> FALSE, changed |-> FALSE, from |-> 0]

NothingReturned ==
  [ok |-> FALSE, changed |-> FALSE, req |-> <<>>, displays |-> <<>>, of |-> <<>>, clean |-> FALSE]

(***************************************************************************)
(* Sizes.                                                                  *)
(***************************************************************************)
Enabled(displays) == {d \in Range(displays) : d.on}

\* derive_extent: the far corner of the displays that are enabled; there is
\* none when no display is.
derive_extent(displays) ==
  <<Max({d.x + d.w : d \in Enabled(displays)}), Max({d.y + d.h : d \in Enabled(displays)})>>

\* resize_screen_if: the size to ask for beside the current one, which is all
\* there is when no display is enabled.
Extents(displays) == {screen} \union {derive_extent(displays) : d \in Enabled(displays)}

Expanded ==
  <<Max({e[1] : e \in Extents(call.req)}), Max({e[2] : e \in Extents(call.req)})>>

Trimmed ==
  IF call.changed
    THEN <<Min({e[1] : e \in Extents(call.final)}), Min({e[2] : e \in Extents(call.final)})>>
    ELSE screen

\* The conversions of an area to X's integers.
Converts(d) ==
  /\ d.w <= MaxDimension /\ d.h <= MaxDimension
  /\ d.x <= MaxCoordinate /\ d.y <= MaxCoordinate

InBounds(d) ==
  /\ d.x + d.w <= MaxWidth /\ d.y + d.h <= MaxHeight
  /\ d.w >= MinWidth /\ d.h >= MinHeight

(***************************************************************************)
(* initialize.                                                             *)
(***************************************************************************)
XBackendInit ==
  /\ \E size \in {<<MinWidth, MinHeight>>, <<MaxWidth, MaxHeight>>} :
       \/ support = "sized" /\ XStarts(size, <<MinWidth, MinHeight>>)
       \/ /\ support \in {"plain", "none"}
          /\ size = <<MaxWidth, MaxHeight>>
          /\ XStarts(size, size)
  /\ life = "xvfb"
  /\ stage = "none"
  /\ asked = {}
  /\ todo = {}
  /\ call = NoCall
  /\ returned = NothingReturned
  /\ counts = [calls |-> 0, inputs |-> 0, resizes |-> 0, errors |-> 0]

\* Xvfb is started; the backend fails when it is not found or exits at once.
StartXvfb ==
  /\ life = "xvfb"
  /\ life' \in {"connect", "failed"}
  /\ UNCHANGED <<xVars, support, sessionVars, callVars, counts>>

\* The extensions are queried for their versions and set up; any one that is
\* refused or of another version fails the backend.
SetupExtensions ==
  /\ life = "connect"
  /\ life' \in {"setup", "failed"}
  /\ UNCHANGED <<xVars, support, sessionVars, callVars, counts>>

\* set_displays is called: by initialize, by a new session, or for an event.
SetDisplaysCall(by, req) ==
  call' = [NoCall EXCEPT !.at = "grab", !.by = by, !.req = req, !.from = refusals]

\* setup_displays pairs CRTCs with outputs.  An Xvfb that cannot be given the
\* size of its CRTCs is then set to the minimum.
SetupDisplays ==
  /\ life = "setup"
  /\ \/ life' = "failed" /\ UNCHANGED <<call, stage>>
     \/ /\ support = "sized"
        /\ life' = "ready"
        /\ stage' = "reset"
        /\ UNCHANGED call
     \/ /\ support # "sized"
        /\ life' = "minimal"
        /\ SetDisplaysCall("initialize",
             <<[on |-> TRUE, x |-> 0, y |-> 0, w |-> MinWidth, h |-> MinHeight]>>)
        /\ UNCHANGED stage
  /\ UNCHANGED <<xVars, support, asked, todo, returned, counts>>

(***************************************************************************)
(* set_displays.                                                           *)
(***************************************************************************)
At(step) == call.at = step

Continue(step) == call' = [call EXCEPT !.at = step] /\ UNCHANGED returned

NotInCall == UNCHANGED <<life, support, sessionVars, counts>>

\* resize_with: the list is cut, or filled up with disabled displays.
Padded(req) ==
  [i \in 1..max_display_count |-> IF i <= Len(req) THEN req[i] ELSE Off]

\* Mutant: the guard is dropped at once.
Grabs_Dropped == FALSE

\* The guard lives until the call returns.
Grabs == TRUE

\* ServerGrabGuard::new; a refused grab does not stop the call.
GrabServer ==
  /\ At("grab")
  /\ \/ Granted /\ grabbed' = Grabs
     \/ Refused /\ grabbed' = FALSE
  /\ call' = [call EXCEPT !.at = "expand", !.req = Padded(call.req)]
  /\ unset' = {}
  /\ UNCHANGED <<screen, default_mode, crtcs, modes, outputs, keyVars, returned>>
  /\ NotInCall

\* resize_screen_if: a failure is only logged.
ResizeScreen(size) ==
  \/ size = screen /\ Granted /\ UNCHANGED screen
  \/ size # screen /\ AcceptsScreenSize(size) /\ Granted /\ screen' = size
  \/ size # screen /\ ~AcceptsScreenSize(size) /\ Granted /\ UNCHANGED screen
  \/ Refused /\ UNCHANGED screen

ExpandScreen ==
  /\ At("expand")
  /\ ResizeScreen(Expanded)
  /\ Continue("set")
  /\ UNCHANGED <<default_mode, randrVars, grabbed, keyVars>>
  /\ NotInCall

\* The display at hand, and the mode that its area names.
Wanted == call.req[call.id + 1]

WantedMode == SizeOf(Wanted)

\* The display at hand is settled: the next one, or the screen is trimmed.
Settle(pushed, changed, errors) ==
  /\ call' = [call EXCEPT
        !.at = IF call.id + 1 = max_display_count THEN "trim" ELSE "set",
        !.id = call.id + 1,
        !.final = call.final \o pushed,
        !.of = call.of \o (IF pushed = <<>> THEN <<>> ELSE <<call.id>>),
        !.changed = call.changed \/ changed,
        !.errors = call.errors \/ errors]
  /\ UNCHANGED returned

Unchanged(current) ==
  \/ ~Wanted.on /\ ~current.on
  \/ Converts(Wanted) /\ Wanted.on /\ current = Wanted

\* set_display reads the CRTC.  Nothing to do, an area that is out of bounds,
\* a mode to find or to create, or a CRTC to switch off.
ReadCrtc ==
  LET current == crtcs[call.id] IN
  /\ At("set")
  /\ \/ /\ Granted
        /\ \/ Unchanged(current) /\ Settle(<<Wanted>>, FALSE, FALSE)
           \/ /\ ~Unchanged(current)
              /\ call' = [call EXCEPT
                    !.old = current,
                    !.at = CASE ~Converts(Wanted) -> "get"
                             [] Converts(Wanted) /\ ~Wanted.on -> "config"
                             [] OTHER -> IF InBounds(Wanted) THEN "mode" ELSE "get"]
              /\ UNCHANGED returned
     \/ Refused /\ Continue("get")
  /\ UNCHANGED <<screen, default_mode, randrVars, grabbed, keyVars>>
  /\ NotInCall

\* find_mode_by_name, among the modes of the server.
Known(mode) == mode = default_mode \/ mode \in modes

\* The mode is found, or created when there is none.
FindMode ==
  /\ At("mode")
  /\ \/ /\ Granted
        /\ modes' = IF Known(WantedMode) THEN modes ELSE modes \cup {WantedMode}
        /\ Continue("add")
     \/ Refused /\ Continue("get") /\ UNCHANGED modes
  /\ UNCHANGED <<screen, default_mode, crtcs, outputs, unset, grabbed, keyVars>>
  /\ NotInCall

\* AddOutputMode: nothing to add when the output lists the mode, as it does its
\* default mode.
AddMode ==
  /\ At("add")
  /\ \/ /\ Granted
        /\ outputs' = IF WantedMode = default_mode THEN outputs
                      ELSE [outputs EXCEPT ![call.id] = @ \cup {WantedMode}]
        /\ Continue("config")
     \/ Refused /\ Continue("get") /\ UNCHANGED outputs
  /\ UNCHANGED <<screen, default_mode, crtcs, modes, unset, grabbed, keyVars>>
  /\ NotInCall

\* Mutant: a display that is switched off keeps its mode.
LeavesMode_IfOn ==
  /\ call.old.on
  /\ Wanted.on /\ SizeOf(call.old) # WantedMode
  /\ SizeOf(call.old) # default_mode

\* The mode that the display left is deleted, if it is not the default one.
LeavesMode ==
  /\ call.old.on
  /\ ~Wanted.on \/ SizeOf(call.old) # WantedMode
  /\ SizeOf(call.old) # default_mode

\* A refusal by an error fails the display.  The reply has a status too, which is
\* not read: a refusal by it is taken for a success.
SetCrtcConfig ==
  LET config == IF Wanted.on THEN Wanted ELSE Off IN
  /\ At("config")
  /\ \/ /\ \/ /\ AcceptsCrtcConfig(config)
              /\ Granted
              /\ crtcs' = [crtcs EXCEPT ![call.id] = config]
              /\ UNCHANGED unset
           \/ Refused /\ unset' = unset \cup {call.id} /\ UNCHANGED crtcs
        /\ \/ LeavesMode /\ Continue("delete")
           \/ ~LeavesMode /\ Settle(<<Wanted>>, TRUE, FALSE)
     \/ /\ \/ ~AcceptsCrtcConfig(config) /\ Granted
           \/ Refused
        /\ UNCHANGED <<crtcs, unset>>
        /\ Continue("get")
  /\ UNCHANGED <<screen, default_mode, modes, outputs, grabbed, keyVars>>
  /\ NotInCall

\* DeleteOutputMode, then DestroyMode: what fails is left as it is.
DeleteMode ==
  LET mode == SizeOf(call.old) IN
  /\ At("delete")
  /\ \/ /\ AcceptsDeleteMode(call.id, mode)
        /\ Granted
        /\ outputs' = [outputs EXCEPT ![call.id] = @ \ {mode}]
        /\ Continue("destroy")
     \/ /\ \/ ~AcceptsDeleteMode(call.id, mode) /\ Granted
           \/ Refused
        /\ UNCHANGED outputs
        /\ Settle(<<Wanted>>, TRUE, FALSE)
  /\ UNCHANGED <<screen, default_mode, crtcs, modes, unset, grabbed, keyVars>>
  /\ NotInCall

DestroyMode ==
  LET mode == SizeOf(call.old) IN
  /\ At("destroy")
  /\ \/ AcceptsDestroyMode(mode) /\ Granted /\ modes' = modes \ {mode}
     \/ ~AcceptsDestroyMode(mode) /\ Granted /\ UNCHANGED modes
     \/ Refused /\ UNCHANGED modes
  /\ Settle(<<Wanted>>, TRUE, FALSE)
  /\ UNCHANGED <<screen, default_mode, crtcs, outputs, unset, grabbed, keyVars>>
  /\ NotInCall

\* Mutant: the display as it was asked for.
Current_Wanted(id) == Wanted

\* get_display, after a failure: the display as it is.
Current(id) == crtcs[id]

\* A display whose CRTC cannot be read either is left out of the list.
GetDisplay ==
  /\ At("get")
  /\ \/ Granted /\ Settle(<<Current(call.id)>>, FALSE, TRUE)
     \/ Refused /\ Settle(<<>>, FALSE, TRUE)
  /\ UNCHANGED <<screen, default_mode, randrVars, grabbed, keyVars>>
  /\ NotInCall

TrimScreen ==
  /\ At("trim")
  /\ ResizeScreen(Trimmed)
  /\ Continue("return")
  /\ UNCHANGED <<default_mode, randrVars, grabbed, keyVars>>
  /\ NotInCall

\* damage_add, which may fail; the guard is dropped; and the caller goes on:
\* initialize and a new session need every display, an event takes what there
\* is.  A new session also ends when the displays cannot be partitioned.
Return ==
  /\ At("return")
  /\ returned' = [ok |-> ~call.errors, changed |-> call.changed, req |-> call.req,
                  displays |-> call.final,
                  of |-> call.of,
                  clean |-> refusals = call.from]
  /\ call' = NoCall
  /\ grabbed' = FALSE
  /\ counts' = [counts EXCEPT !.errors = @ + (IF call.errors THEN 1 ELSE 0)]
  /\ CASE call.by = "initialize" ->
            /\ life' = IF call.errors THEN "failed" ELSE "ready"
            /\ stage' = IF call.errors THEN "none" ELSE "reset"
       [] call.by = "session" ->
            /\ UNCHANGED life
            /\ stage' \in {"none"} \cup (IF call.errors THEN {} ELSE {"locks"})
       [] OTHER -> UNCHANGED <<life, stage>>
  /\ UNCHANGED <<screen, default_mode, randrVars, keyVars, refusals, support, asked, todo>>

(***************************************************************************)
(* A session's calls.                                                      *)
(***************************************************************************)
Idle == life = "ready" /\ call = NoCall

NewSession(req, wanted) ==
  /\ Idle /\ stage = "none"
  /\ counts.calls < MaxCalls
  /\ counts' = [counts EXCEPT !.calls = @ + 1]
  /\ asked' = wanted
  /\ SetDisplaysCall("session", req)
  /\ UNCHANGED <<xVars, life, support, stage, todo, returned>>

DisplayEvent(req) ==
  /\ Idle /\ stage = "active"
  /\ counts.calls < MaxCalls
  /\ counts' = [counts EXCEPT !.calls = @ + 1]
  /\ SetDisplaysCall("event", req)
  /\ UNCHANGED <<xVars, life, support, sessionVars, returned>>

\* The locks whose state is not the one asked for.
Differing == {l \in DOMAIN LockKey : (l \in asked) # (l \in locks)}

\* set_lock_state: the state is queried, then the modifier mapping.  A lock
\* with no keycode strictly between the smallest and the largest is left.
QueryLocks ==
  /\ Idle /\ stage = "locks"
  /\ \/ /\ Granted
        /\ todo' = {l \in Differing : LockKey[l] > MinKeycode /\ LockKey[l] < MaxKeycode}
        /\ stage' = "press"
     \/ Refused /\ stage' = "none" /\ UNCHANGED todo
  /\ UNCHANGED <<screen, default_mode, randrVars, grabbed, keyVars, life, support, asked, callVars, counts>>

\* The locks are toggled one by one, a press and a release each, and the final
\* state is queried for the trace.  A failure ends the session as it is.
PressLock ==
  /\ Idle /\ stage = "press"
  /\ \/ /\ todo = {}
        /\ stage' = "active"
        /\ UNCHANGED <<keyVars, refusals>>
     \/ /\ todo # {}
        /\ Granted
        /\ PressKey(LockKey[CHOOSE l \in todo : TRUE])
        /\ stage' = "release"
     \/ /\ Refused
        /\ stage' = "none"
        /\ UNCHANGED keyVars
  /\ UNCHANGED <<screen, default_mode, randrVars, grabbed, life, support, asked, todo, callVars, counts>>

ReleaseLock ==
  LET lock == CHOOSE l \in todo : TRUE IN
  /\ Idle /\ stage = "release"
  /\ \/ Granted /\ ReleaseKey(LockKey[lock]) /\ stage' = "press" /\ todo' = todo \ {lock}
     \/ Refused /\ stage' = "none" /\ UNCHANGED <<keyVars, todo>>
  /\ UNCHANGED <<screen, default_mode, randrVars, grabbed, life, support, asked, callVars, counts>>

\* The key of an event is cut to the eight bits of a keycode.
Keycode(key) == key % 256

\* notify_event, of a key: one that is out of range is dropped.  A failure is
\* the end of the backend task, and with it of the session.
KeyEvent(key, pressed) ==
  LET code == Keycode(key) IN
  /\ Idle /\ stage = "active"
  /\ counts.inputs < MaxInputs
  /\ counts' = [counts EXCEPT !.inputs = @ + 1]
  /\ \/ code \notin MinKeycode..MaxKeycode /\ UNCHANGED <<keyVars, refusals, stage>>
     \/ /\ code \in MinKeycode..MaxKeycode
        /\ Granted
        /\ IF pressed THEN PressKey(code) ELSE ReleaseKey(code)
        /\ UNCHANGED stage
     \/ /\ code \in MinKeycode..MaxKeycode
        /\ Refused
        /\ stage' = "reset"
        /\ UNCHANGED keyVars
  /\ UNCHANGED <<screen, default_mode, randrVars, grabbed, life, support, asked, todo, callVars>>

\* u8_for_button: a mapped button counts from one, an unmapped one from zero.
u8_for_button(button) == IF button.mapped THEN (button.idx - 1) % 256 ELSE button.idx % 256

\* The buttons of an event that are in a state.
Faked(states, pressed) == {u8_for_button(b) + 1 : b \in {c \in DOMAIN states : states[c] = pressed}}

\* notify_event, of the pointer: its buttons one after the other, then the
\* motion.  A failure leaves what was done.
PointerEvent(states) ==
  /\ Idle /\ stage = "active"
  /\ counts.inputs < MaxInputs
  /\ counts' = [counts EXCEPT !.inputs = @ + 1]
  /\ \/ Granted /\ FakeButtons(Faked(states, TRUE), Faked(states, FALSE)) /\ UNCHANGED stage
     \/ /\ Refused
        /\ \E done \in SUBSET DOMAIN states :
             LET before == Restrict(states, done)
             IN  FakeButtons(Faked(before, TRUE), Faked(before, FALSE))
        /\ stage' = "reset"
  /\ UNCHANGED <<screen, default_mode, randrVars, grabbed, life, support, asked, todo, callVars>>

\* The session ends: reset_session_state.
EndSession ==
  /\ Idle /\ stage = "active"
  /\ stage' = "reset"
  /\ UNCHANGED <<xVars, life, support, asked, todo, callVars, counts>>

\* Mutant: the smallest keycode is not released.
HeldKeys_Between == {k \in down : k > MinKeycode /\ k <= MaxKeycode}

\* release_pressed_keys: the keys of QueryKeymap that are in range.
HeldKeys == {k \in down : k >= MinKeycode /\ k <= MaxKeycode}

QueryKeymap ==
  /\ Idle /\ stage = "reset"
  /\ \/ Granted /\ todo' = HeldKeys /\ stage' = "keys"
     \/ Refused /\ stage' = "none" /\ UNCHANGED todo
  /\ UNCHANGED <<screen, default_mode, randrVars, grabbed, keyVars, life, support, asked, callVars, counts>>

\* The keys are released in the order of their codes, then the focus is
\* cleared.  A failure is logged, and the rest is left.
ReleaseHeld ==
  /\ Idle /\ stage = "keys"
  /\ \/ /\ todo # {} /\ Granted
        /\ ReleaseKey(Min(todo))
        /\ todo' = todo \ {Min(todo)}
        /\ UNCHANGED stage
     \/ /\ todo = {} /\ Granted \* clear_focus
        /\ stage' = "none"
        /\ UNCHANGED <<keyVars, todo>>
     \/ /\ Refused
        /\ stage' = "none"
        /\ todo' = {}
        /\ UNCHANGED keyVars
  /\ UNCHANGED <<screen, default_mode, randrVars, grabbed, life, support, asked, callVars, counts>>

Resizes ==
  /\ life \in {"minimal", "ready"}
  /\ counts.resizes < MaxResizes
  /\ counts' = [counts EXCEPT !.resizes = @ + 1]
  /\ \E w \in 1..MaxWidth, h \in 1..MaxHeight : OtherClientResizes(<<w, h>>)
  /\ UNCHANGED <<life, support, sessionVars, callVars>>

XBackendNext ==
  \/ StartXvfb \/ SetupExtensions \/ SetupDisplays
  \/ GrabServer \/ ExpandScreen \/ ReadCrtc \/ FindMode \/ AddMode \/ SetCrtcConfig
  \/ DeleteMode \/ DestroyMode \/ GetDisplay \/ TrimScreen \/ Return
  \/ \E req \in Requests, wanted \in SUBSET DOMAIN LockKey : NewSession(req, wanted)
  \/ \E req \in Requests : DisplayEvent(req)
  \/ QueryLocks \/ PressLock \/ ReleaseLock
  \/ \E key \in Keys, pressed \in BOOLEAN : KeyEvent(key, pressed)
  \/ \E held \in SUBSET Buttons : \E states \in [held -> BOOLEAN] : PointerEvent(states)
  \/ EndSession \/ QueryKeymap \/ ReleaseHeld
  \/ Resizes

XBackendSpec == XBackendInit /\ [][XBackendNext]_backendVars

(***************************************************************************)
(* Properties.                                                             *)
(***************************************************************************)
HasReturned == returned # NothingReturned /\ call = NoCall

\* A display as it is reported is what the CRTC shows.
Shows(crtc, d) == IF d.on THEN crtc = d ELSE ~crtc.on

\* What set_displays returns is what the CRTCs show, whichever of its requests
\* the server answers with an error: the displays that were asked for where they
\* were set, the ones that are there where they were not, and none for a CRTC that
\* cannot be read.  The server partitions this list among its encoders and tells
\* it to the client.  (A SetCrtcConfig refused by its status is not noticed.)
ReportedIsActual ==
  HasReturned =>
    \A i \in DOMAIN returned.displays :
      returned.of[i] \in unset \/ Shows(crtcs[returned.of[i]], returned.displays[i])

\* A request whose displays are all in bounds is granted, with nothing refused
\* but by the rules of the server: the screen is made large enough before any
\* CRTC is changed, and the grab keeps other clients from shrinking it.
RequestHonoured ==
  (/\ HasReturned /\ returned.clean
   /\ \A i \in DOMAIN returned.req :
        returned.req[i].on => InBounds(returned.req[i]) /\ Converts(returned.req[i])
   /\ \A i \in DOMAIN returned.req : Converts(returned.req[i]))
    => returned.ok /\ returned.displays = returned.req

\* Nothing is left behind, as long as every request could be met: once a call
\* returns, every mode that was created is the mode of a CRTC that is on, listed
\* by the outputs of the CRTCs in it and by no other; and a call that changed a
\* display leaves a screen no larger than its displays.  (A display that fails
\* after its mode was created leaves the mode with its output.)
NothingLeftBehind ==
  HasReturned /\ refusals = 0 /\ counts.errors = 0 =>
    /\ modes = {SizeOf(crtcs[id]) : id \in {i \in Ids : crtcs[i].on}} \ {default_mode}
    /\ \A id \in Ids :
         outputs[id] = (IF crtcs[id].on THEN {SizeOf(crtcs[id])} ELSE {}) \ {default_mode}
    /\ (/\ returned.changed /\ counts.resizes = 0
        /\ Enabled(returned.displays) # {}) => screen = derive_extent(returned.displays)

\* A session starts with no key down that the one before it held, and with the
\* locks that have a key in the state its client asked for.
KeyboardHandedOver ==
  refusals = 0 =>
    /\ stage = "none" => down = {}
    /\ stage = "press" /\ todo = {} =>
         \A l \in DOMAIN LockKey :
           LockKey[l] \in MinKeycode + 1..MaxKeycode - 1 => ((l \in locks) <=> (l \in asked))
=============================================================================
