---------------------------- MODULE CursorCache ----------------------------
(***************************************************************************)
(* How the client follows the server's cursor: the cursor branch of the    *)
(* backend task (aperturec-server/src/task/backend.rs), which remembers    *)
(* the images it has sent, and the event channel's main thread             *)
(* (aperturec-client/src/channels/event.rs), which keeps them.             *)
(*                                                                         *)
(* The X server numbers cursors with serials; an image is named by its     *)
(* hash, which several serials may share.  A notice of a change and the    *)
(* image of the current cursor are obtained at different times.            *)
(***************************************************************************)
EXTENDS Naturals, Sequences, Functions

CONSTANTS
  Image,             \* serial -> the id of its image
  MaxCursorChanges,  \* bound: changes of the cursor
  MaxCaptureFails    \* bound: captures that fail

Serials == DOMAIN Image
NoCursor == 0        \* last_cursor_id at the start; no image has this hash

ASSUME CursorAssumption ==
  /\ Serials # {} /\ Serials \subseteq Nat \ {NoCursor}
  /\ NoCursor \notin Range(Image)

VARIABLES
  cursor,          \* the serial of the X server's cursor
  notices,         \* the cursor stream
  noticed,         \* the serial the backend captures a cursor for, or NoCursor
  cursor_cache,    \* the backend's: serial -> id, on the serials seen
  last_cursor_id,
  ec,              \* the event channel: messages not yet received, in order
  client_cache,    \* the client's: ids of the images it has
  shown,           \* the id of the cursor the application was last given
  unresolved,      \* history: changes that named an image the client lacked
  changes, fails   \* bounds: cursor changes and failed captures so far

cursorVars == <<cursor, notices, noticed, cursor_cache, last_cursor_id, client_cache, shown,
                unresolved, changes, fails>>

server == <<cursor_cache, last_cursor_id, noticed>>
client == <<client_cache, shown, unresolved>>

CursorChange(id) == [kind |-> "CursorChange", id |-> id]
CursorImage(id) == [kind |-> "CursorImage", id |-> id]

CursorInit ==
  /\ cursor = CHOOSE s \in Serials : \A t \in Serials : s <= t
  /\ notices = <<>>
  /\ noticed = NoCursor
  /\ cursor_cache = <<>>
  /\ last_cursor_id = NoCursor
  /\ ec = <<>>
  /\ client_cache = {}
  /\ shown = NoCursor
  /\ unresolved = {}
  /\ changes = 0
  /\ fails = 0

\* The X server changes the cursor and notifies.
XCursorChanges(s) ==
  /\ changes < MaxCursorChanges
  /\ s # cursor
  /\ cursor' = s
  /\ notices' = Append(notices, s)
  /\ changes' = changes + 1
  /\ UNCHANGED <<server, ec, client, fails>>

-----------------------------------------------------------------------------
(* The backend task.                                                       *)

\* The end of the branch: what does not change the cursor is not sent.
SendCursor(id, msg) ==
  /\ ec' = IF id # last_cursor_id THEN Append(ec, msg) ELSE ec
  /\ last_cursor_id' = id

\* A notice of a serial in the cache needs no image.
CachedChange ==
  /\ noticed = NoCursor
  /\ notices # <<>> /\ Head(notices) \in DOMAIN cursor_cache
  /\ LET id == cursor_cache[Head(notices)] IN SendCursor(id, CursorChange(id))
  /\ notices' = Tail(notices)
  /\ UNCHANGED <<cursor, cursor_cache, noticed, client, changes, fails>>

\* Any other makes the backend ask for the image of the current cursor.
AskForImage ==
  /\ noticed = NoCursor
  /\ notices # <<>> /\ Head(notices) \notin DOMAIN cursor_cache
  /\ noticed' = Head(notices)
  /\ notices' = Tail(notices)
  /\ UNCHANGED <<cursor, cursor_cache, last_cursor_id, ec, client, changes, fails>>

capture_cursor_fails ==
  /\ noticed # NoCursor
  /\ fails < MaxCaptureFails
  /\ fails' = fails + 1
  /\ noticed' = NoCursor
  /\ UNCHANGED <<cursor, notices, cursor_cache, last_cursor_id, ec, client, changes>>

\* Mutant: the image is cached under the serial of the notice.
CacheSerial_Noticed == noticed

\* The serial an image is cached under: its own.
CacheSerial == cursor

\* The image arrives: that of another cursor if it has changed since.
capture_cursor ==
  /\ noticed # NoCursor
  /\ LET id == Image[cursor]
     IN IF noticed # cursor /\ cursor \in DOMAIN cursor_cache
          THEN /\ SendCursor(cursor_cache[cursor], CursorChange(cursor_cache[cursor]))
               /\ UNCHANGED cursor_cache
          ELSE /\ SendCursor(id, IF id \in Range(cursor_cache) THEN CursorChange(id)
                                 ELSE CursorImage(id))
               /\ cursor_cache' = [s \in DOMAIN cursor_cache \union {CacheSerial} |->
                                     IF s = CacheSerial THEN id ELSE cursor_cache[s]]
  /\ noticed' = NoCursor
  /\ UNCHANGED <<cursor, notices, client, changes, fails>>

-----------------------------------------------------------------------------
(* The client's event channel thread, for a message msg it has received.   *)

\* An image is kept for later changes.
TakeCursorImage(msg) ==
  /\ client_cache' = client_cache \union {msg.id}
  /\ UNCHANGED <<shown, unresolved>>

\* A change is resolved in the cache and handed on, or dropped.
TakeCursorChange(msg) ==
  /\ shown' = IF msg.id \in client_cache THEN msg.id ELSE shown
  /\ unresolved' = IF msg.id \in client_cache THEN unresolved ELSE unresolved \union {msg.id}
  /\ UNCHANGED client_cache

TakeCursor ==
  /\ ec # <<>>
  /\ \/ Head(ec).kind = "CursorImage" /\ TakeCursorImage(Head(ec))
     \/ Head(ec).kind = "CursorChange" /\ TakeCursorChange(Head(ec))
  /\ ec' = Tail(ec)
  /\ UNCHANGED <<cursor, notices, server, changes, fails>>

CursorBackend == CachedChange \/ AskForImage \/ capture_cursor_fails \/ capture_cursor

-----------------------------------------------------------------------------

\* Nothing about cursors is on its way.
CursorSettled == notices = <<>> /\ noticed = NoCursor /\ ec = <<>>

\* Every change the server sends names an image it has sent before and the
\* client has kept, so that the client resolves it (cursor_cache on both
\* sides); and once every notice has been handled, without a failed capture,
\* the last cursor sent is the X server's, although notices and images come at
\* different times.
CursorFollows ==
  /\ unresolved = {}
  /\ (CursorSettled /\ changes > 0 /\ fails = 0) => last_cursor_id = Image[cursor]

\* The documentation of the client's event channel: its reader "turns server
\* messages (display config, cursor images/changes) into
\* `PrimaryThreadNotification`s" (event.rs), so that once everything has been
\* received the application has the X server's cursor.  The code keeps an image
\* for later and notifies of nothing, and the server sends no change after it.
CursorShown ==
  (CursorSettled /\ changes > 0 /\ fails = 0) => shown = Image[cursor]

=============================================================================
