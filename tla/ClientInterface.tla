-------------------------- MODULE ClientInterface --------------------------
(***************************************************************************)
(* The C interface of the client library (aperturec-client/src/ffi.rs) and *)
(* the parts of lib.rs behind it: the objects it allocates and frees, the  *)
(* error it keeps for ac_last_error, the events of a connection, and the   *)
(* initialisation of the metrics.                                          *)
(*                                                                         *)
(* The caller keeps to the contract in the functions' documentation: it    *)
(* passes pointers that it owns, or null, frees each once, and connects    *)
(* from one thread only.  It has one variable for each kind of object, and *)
(* forgets a pointer once it is freed.  The variable of its event keeps    *)
(* the old value, as in the documented loop, which frees whatever a        *)
(* successful ac_connection_poll_event has left in it.                     *)
(*                                                                         *)
(* As the documentation asks, it frees what a client was made from before  *)
(* it connects and initialises the metrics before it makes a client; it    *)
(* has one connection at a time.                                           *)
(*                                                                         *)
(* A misaligned pointer takes the path of a null one.  The values that the *)
(* accessors copy out of an object are left out.                           *)
(***************************************************************************)
EXTENDS Naturals, Sequences, FiniteSets

CONSTANTS
  Threads,       \* the caller's threads
  Main,          \* the one that connects: connections are not thread-safe
  Errors,        \* addresses for AcError
  Events,        \* addresses for AcEvent
  Null,
  MaxQueued,     \* bound: events queued in the library
  NarrowUsize    \* usize has fewer bits than the u64 of a coordinate

\* The kinds of which the caller has one object at most, each its own address.
Boxes == {"configuration", "lock_state", "client", "connection", "display",
          "display_configuration", "exporter"}

ASSUME InterfaceAssumption ==
  /\ Main \in Threads
  /\ Null \notin Boxes \union Errors \union Events
  /\ Boxes \intersect (Errors \union Events) = {}
  /\ Errors \intersect Events = {}
  /\ MaxQueued \in Nat
  /\ NarrowUsize \in BOOLEAN

Quits == {"ServerGoodbye", "UnrecoverableError"}
Contents == {"Draw", "CursorChange", "DisplayChange"} \union Quits

VARIABLES
  live,        \* the allocated objects
  owned,       \* those that the caller has to free, its event left out
  event,       \* the caller's AcEvent *event
  fresh,       \* whether the last call that may set it returned Ok
  content,     \* AcEvent.event
  text,        \* the string cached in an error or event; 0: none
  lent,        \* the strings that the caller has pointers to
  last_error,  \* LAST_ERROR
  calling,        \* thread -> the call it is in
  session,     \* the primary thread of the connection
  queue,       \* the events queued for the caller
  metrics      \* METRICS_INITIALIZED, and whether an initialisation runs

interfaceVars == <<live, owned, event, fresh, content, text, lent, last_error, calling,
          session, queue, metrics>>
heap == <<event, fresh, content, text, lent>>
library == <<session, queue, metrics>>

InterfaceTypeOK ==
  /\ live \subseteq Boxes \union Errors \union Events
  /\ owned \subseteq Boxes \union Errors
  /\ event \in Events \union {Null} /\ fresh \in BOOLEAN
  /\ content \in [Events -> Contents \union {"none"}]
  /\ text \in [Errors \union Events -> 0 .. 2]
  /\ lent \in [Errors \union Events -> SUBSET (1 .. 2)]
  /\ last_error \in Errors \union {Null}
  /\ calling \in [Threads -> {"none", "disconnect", "init_metrics"}]
  /\ session \in {"none", "active", "leaving", "ended"}
  /\ queue \in Seq(Contents) /\ Len(queue) <= MaxQueued
  /\ metrics \in [initialized : BOOLEAN, runs : BOOLEAN]

InterfaceInit ==
  /\ live = {} /\ owned = {}
  /\ event = Null /\ fresh = FALSE
  /\ content = [e \in Events |-> "none"]
  /\ text = [p \in Errors \union Events |-> 0]
  /\ lent = [p \in Errors \union Events |-> {}]
  /\ last_error = Null
  /\ calling = [t \in Threads |-> "none"]
  /\ session = "none" /\ queue = << >>
  /\ metrics = [initialized |-> FALSE, runs |-> FALSE]

\* What the caller may use and has to free.
CallersToFree == owned \union {e \in Events : fresh /\ e = event}

-----------------------------------------------------------------------------
(* How a call ends.  `valid' says that the pointers passed are not null.   *)

IdleThread(t) == calling[t] = "none"

\* What the caller passes is null, or owned by it.
Passes(valid, boxes) == valid => boxes \subseteq owned

\* The caller makes a client before it connects.
Prepares(t, box) == IdleThread(t) /\ "connection" \notin live /\ box \notin owned

\* set_last_error, and the return of Err, null or a default: the new error
\* replaces the previous one, which is dropped.
RejectCall ==
  LET error == CHOOSE e \in Errors \ live : TRUE
  IN  /\ Errors \ live # {}
      /\ live' = (live \ {last_error}) \union {error}
      /\ last_error' = error

\* A call that succeeds leaves LAST_ERROR as it is.
Succeed == UNCHANGED last_error

\* check_aligned, as_ref_checked, as_mut_checked, as_slice_checked; attempt.
Fails ==
  /\ RejectCall
  /\ UNCHANGED <<owned, heap, calling, library>>

\* A call that only reads.
Reads ==
  /\ Succeed
  /\ UNCHANGED <<live, owned, heap, calling, library>>

\* Box::into_raw(Box::new(..)): the caller owns a new object.
Creates(box) ==
  /\ Succeed
  /\ live' = live \union {box}
  /\ owned' = owned \union {box}
  /\ UNCHANGED <<heap, calling, library>>

\* drop_owned; null is ignored.
Frees(t, box) ==
  /\ IdleThread(t)
  /\ box \in owned
  /\ Succeed
  /\ live' = live \ {box}
  /\ owned' = owned \ {box}
  /\ UNCHANGED <<heap, calling, library>>

-----------------------------------------------------------------------------
(* Errors.                                                                 *)

ac_last_error(t) ==
  /\ IdleThread(t)
  /\ Errors \intersect owned = {}
  /\ owned' = owned \union ({last_error} \ {Null})
  /\ last_error' = Null
  /\ UNCHANGED <<live, heap, calling, library>>

\* Drops an error or an event, and the string cached in it.
Drops(p) ==
  /\ live' = live \ {p}
  /\ text' = [text EXCEPT ![p] = 0]
  /\ lent' = [lent EXCEPT ![p] = {}]

ac_error_free(t) ==
  /\ IdleThread(t)
  /\ Succeed
  /\ \E e \in Errors \intersect owned : Drops(e) /\ owned' = owned \ {e}
  /\ UNCHANGED <<event, fresh, content, calling, library>>

\* Mutant: the string is built anew by every call, and replaces the cached one.
Lends_Rebuilt(p) ==
  /\ Succeed
  /\ text' = [text EXCEPT ![p] = IF @ = 1 THEN 2 ELSE 1]
  /\ lent' = [lent EXCEPT ![p] = @ \union {text'[p]}]
  /\ UNCHANGED <<live, owned, event, fresh, content, calling, library>>

\* The string is built by the first call that asks for it, and then cached.
Lends(p) ==
  /\ Succeed
  /\ text' = [text EXCEPT ![p] = IF @ = 0 THEN 1 ELSE @]
  /\ lent' = [lent EXCEPT ![p] = @ \union {text'[p]}]
  /\ UNCHANGED <<live, owned, event, fresh, content, calling, library>>

ac_error_as_str(t, valid) ==
  /\ IdleThread(t)
  /\ \/ ~valid /\ Fails
     \/ valid /\ \E e \in Errors \intersect owned : Lends(e)

-----------------------------------------------------------------------------
(* Configurations, lock states, displays and clients.                      *)

\* config_out or uri is null, or there is no configuration in what was given.
ac_configuration_from_argv(t, valid, parses) ==
  /\ Prepares(t, "configuration")
  /\ IF valid /\ parses THEN Creates("configuration") ELSE Fails

ac_configuration_from_uri(t, valid, parses) ==
  /\ Prepares(t, "configuration")
  /\ IF valid /\ parses THEN Creates("configuration") ELSE Fails

ac_configuration_free(t) == Frees(t, "configuration")

ac_lock_state_new(t) == Prepares(t, "lock_state") /\ Creates("lock_state")
ac_lock_state_free(t) == Frees(t, "lock_state")

ac_display_new(t) == IdleThread(t) /\ "display" \notin owned /\ Creates("display")
ac_display_free(t) == Frees(t, "display")

\* The client has copies of what it is made from.
ac_client_new(t, valid) ==
  /\ Prepares(t, "client")
  /\ "exporter" \notin owned /\ ~metrics.runs
  /\ Passes(valid, {"configuration", "lock_state", "display"})
  /\ IF valid THEN Creates("client") ELSE Fails

ac_client_from_args(t, valid, parses) ==
  /\ Prepares(t, "client")
  /\ "exporter" \notin owned /\ ~metrics.runs
  /\ Passes(valid, {"lock_state", "display"})
  /\ IF valid /\ parses THEN Creates("client") ELSE Fails

ac_client_from_uri(t, valid, parses) ==
  /\ Prepares(t, "client")
  /\ "exporter" \notin owned /\ ~metrics.runs
  /\ Passes(valid, {"lock_state", "display"})
  /\ IF valid /\ parses THEN Creates("client") ELSE Fails

\* A connection outlives its client.
ac_client_free(t) == Frees(t, "client")

-----------------------------------------------------------------------------
(* The connection and its primary thread.                                  *)

\* Client::connect: it fails, or a primary thread runs.
ac_client_connect(t, valid, connects) ==
  /\ IdleThread(t)
  /\ "connection" \notin live
  /\ owned \intersect {"configuration", "lock_state"} = {}
  /\ Passes(valid, {"client"})
  /\ \/ ~(valid /\ connects) /\ Fails
     \/ /\ valid /\ connects
        /\ Succeed
        /\ live' = live \union {"connection"}
        /\ owned' = owned \union {"connection"}
        /\ session' = "active"
        /\ UNCHANGED <<heap, calling, queue, metrics>>

\* disconnect consumes the box.  The Connection is dropped when the primary
\* thread, told to terminate, has been joined.
ac_connection_disconnect(t, valid) ==
  /\ IdleThread(t)
  /\ Passes(valid, {"connection"})
  /\ \/ ~valid /\ Fails
     \/ /\ valid
        /\ owned' = owned \ {"connection"}
        /\ calling' = [calling EXCEPT ![t] = "disconnect"]
        /\ UNCHANGED <<live, heap, last_error, library>>

ac_connection_free(t, valid) == ac_connection_disconnect(t, valid)

Disconnected(t) ==
  /\ calling[t] = "disconnect"
  /\ session = "ended"
  /\ Succeed
  /\ calling' = [calling EXCEPT ![t] = "none"]
  /\ live' = live \ {"connection"}
  /\ session' = "none"
  /\ queue' = << >>
  /\ UNCHANGED <<owned, heap, metrics>>

\* The primary thread queues an event; after a Quit it leaves its loop.
PrimaryQueues(c) ==
  /\ session = "active"
  /\ Len(queue) < MaxQueued
  /\ queue' = Append(queue, c)
  /\ session' = IF c \in Quits THEN "leaving" ELSE "active"
  /\ UNCHANGED <<live, owned, heap, last_error, calling, metrics>>

\* It is told to terminate, or a channel's thread has ended.
PrimaryLeaves ==
  /\ session = "active"
  /\ session' = "leaving"
  /\ UNCHANGED <<live, owned, heap, last_error, calling, queue, metrics>>

PrimaryEnds ==
  /\ session = "leaving"
  /\ session' = "ended"
  /\ UNCHANGED <<live, owned, heap, last_error, calling, queue, metrics>>

-----------------------------------------------------------------------------
(* Receiving events.                                                       *)

\* The event variable may be overwritten: nothing in it is to be freed.
MayOverwrite == ~fresh \/ event = Null

\* The first queued event goes to the caller, in a new AcEvent.
Receives ==
  LET new == CHOOSE e \in Events \ live : TRUE
  IN  /\ queue # << >>
      /\ Events \ live # {}
      /\ Succeed
      /\ live' = live \union {new}
      /\ event' = new
      /\ fresh' = TRUE
      /\ content' = [content EXCEPT ![new] = Head(queue)]
      /\ queue' = Tail(queue)
      /\ UNCHANGED <<owned, text, lent, calling, session, metrics>>

\* No event: null is written to event_out, which the documentation says is
\* left unchanged.
ReceivesNone ==
  /\ queue = << >>
  /\ session # "ended"
  /\ Succeed
  /\ event' = Null
  /\ fresh' = TRUE
  /\ UNCHANGED <<live, owned, content, text, lent, calling, library>>

\* Err leaves event_out as it is, and the caller does not use it: an argument
\* is null, or the queue is empty and its sender gone.
ReceiveFails(valid) ==
  /\ ~valid \/ (queue = << >> /\ session = "ended")
  /\ RejectCall
  /\ fresh' = FALSE
  /\ UNCHANGED <<owned, event, content, text, lent, calling, library>>

CanReceive(t, valid) == IdleThread(t) /\ MayOverwrite /\ Passes(valid, {"connection"})

ac_connection_poll_event(t, valid) ==
  /\ CanReceive(t, valid)
  /\ ReceiveFails(valid) \/ (valid /\ (Receives \/ ReceivesNone))

\* It blocks until there is an event, or there can be none.
ac_connection_wait_event(t, valid) ==
  /\ CanReceive(t, valid)
  /\ ReceiveFails(valid) \/ (valid /\ Receives)

ac_connection_wait_event_timeout(t, valid) ==
  /\ CanReceive(t, valid)
  /\ ReceiveFails(valid) \/ (valid /\ (Receives \/ ReceivesNone))

\* After a free the variable is left as it is.
ac_event_free(t) ==
  /\ IdleThread(t)
  /\ fresh
  /\ Succeed
  /\ fresh' = FALSE
  /\ IF event = Null THEN UNCHANGED <<live, text, lent, content>>
                     ELSE Drops(event) /\ content' = [content EXCEPT ![event] = "none"]
  /\ UNCHANGED <<owned, event, calling, library>>

-----------------------------------------------------------------------------
(* Looking at events and display configurations.                           *)

Passed(valid) == valid => fresh /\ event # Null

\* extract_event_variant: the accessor is for events of `kinds'.
Accesses(t, valid, kinds) ==
  /\ IdleThread(t)
  /\ Passed(valid)
  /\ IF valid /\ content[event] \in kinds THEN Reads ELSE Fails

ac_event_get_type(t, valid) == Accesses(t, valid, Contents)
ac_event_draw_get_frame(t, valid) == Accesses(t, valid, {"Draw"})
ac_event_draw_get_origin(t, valid) == Accesses(t, valid, {"Draw"})
ac_event_draw_get_size(t, valid) == Accesses(t, valid, {"Draw"})
ac_event_draw_get_pixels(t, valid) == Accesses(t, valid, {"Draw"})
ac_event_cursor_get_hotspot(t, valid) == Accesses(t, valid, {"CursorChange"})
ac_event_cursor_get_size(t, valid) == Accesses(t, valid, {"CursorChange"})
ac_event_cursor_get_pixels(t, valid) == Accesses(t, valid, {"CursorChange"})
ac_event_quit_get_reason_type(t, valid) == Accesses(t, valid, Quits)

\* The reasons are fixed texts, and so have no null in them.
ac_event_quit_get_server_reason(t, valid) ==
  /\ IdleThread(t)
  /\ Passed(valid)
  /\ IF valid /\ content[event] = "ServerGoodbye" THEN Lends(event) ELSE Fails

\* The text of the error has no null in it either.
ac_event_quit_get_error_message(t, valid) ==
  /\ IdleThread(t)
  /\ Passed(valid)
  /\ IF valid /\ content[event] = "UnrecoverableError" THEN Lends(event) ELSE Fails

\* Mutant: the copy is allocated before the event is looked at.
ac_event_display_get_configuration_Early(t, valid) ==
  /\ IdleThread(t)
  /\ Passed(valid)
  /\ "display_configuration" \notin owned
  /\ IF valid /\ content[event] = "DisplayChange"
       THEN Creates("display_configuration")
       ELSE /\ Succeed
            /\ live' = live \union {"display_configuration"}
            /\ UNCHANGED <<owned, heap, calling, library>>

\* A copy that the caller has to free.
ac_event_display_get_configuration(t, valid) ==
  /\ IdleThread(t)
  /\ Passed(valid)
  /\ "display_configuration" \notin owned
  /\ IF valid /\ content[event] = "DisplayChange"
       THEN Creates("display_configuration") ELSE Fails

ac_connection_display_configuration(t, valid) ==
  /\ IdleThread(t)
  /\ Passes(valid, {"connection"})
  /\ "display_configuration" \notin owned
  /\ IF valid THEN Creates("display_configuration") ELSE Fails

ac_display_configuration_free(t) == Frees(t, "display_configuration")

Inspects(t, valid, inBounds) ==
  /\ IdleThread(t)
  /\ Passes(valid, {"display_configuration"})
  /\ IF valid /\ inBounds THEN Reads ELSE Fails

ac_display_configuration_get_id(t, valid) == Inspects(t, valid, TRUE)
ac_display_configuration_encoder_count(t, valid) == Inspects(t, valid, TRUE)
ac_display_configuration_get_display_count(t, valid) == Inspects(t, valid, TRUE)

\* The display is copied into one that the caller owns.
ac_display_configuration_get_display_at(t, valid, inBounds) ==
  /\ Passes(valid, {"display"})
  /\ Inspects(t, valid, inBounds)

-----------------------------------------------------------------------------
(* Inputs.                                                                 *)

\* send_user_event: the primary thread takes the input, or it has ended.
Inputs(t, valid) ==
  /\ IdleThread(t)
  /\ Passes(valid, {"connection"})
  /\ \/ (~valid \/ session = "ended") /\ Fails
     \/ valid /\ session = "active" /\ Reads

\* A coordinate may not fit a usize.
InputsAt(t, valid, fits) ==
  /\ fits \/ NarrowUsize
  /\ \/ fits /\ Inputs(t, valid)
     \/ ~fits /\ IdleThread(t) /\ Passes(valid, {"connection"}) /\ Fails

ac_connection_pointer_move(t, valid, fits) == InputsAt(t, valid, fits)
ac_connection_mouse_button_press(t, valid, fits) == InputsAt(t, valid, fits)
ac_connection_mouse_button_release(t, valid, fits) == InputsAt(t, valid, fits)
ac_connection_key_press(t, valid) == Inputs(t, valid)
ac_connection_key_release(t, valid) == Inputs(t, valid)

ac_connection_request_display_change(t, valid) ==
  Passes(valid, {"display"}) /\ Inputs(t, valid)

-----------------------------------------------------------------------------
(* Metrics.                                                                *)

\* The text given is null or cannot be used; a log exporter needs none.
ac_metrics_exporter_new(t, valid) ==
  /\ Prepares(t, "exporter")
  /\ "client" \notin owned
  /\ IF valid THEN Creates("exporter") ELSE Fails

ac_metrics_exporter_free(t) == Frees(t, "exporter")

\* init_metrics after the check for an empty array, with METRICS_INITIALIZED
\* swapped: the exporters, now the library's, are dropped if it was set.
init_metrics(t) ==
  IF metrics.initialized
    THEN /\ Errors \ live # {}
         /\ last_error' = CHOOSE e \in Errors \ live : TRUE
         /\ live' = (live \ {"exporter", last_error}) \union {last_error'}
            /\ UNCHANGED <<calling, metrics>>
    ELSE /\ live' = live \ {"exporter"}
         /\ metrics' = [metrics EXCEPT !.initialized = TRUE, !.runs = TRUE]
         /\ calling' = [calling EXCEPT ![t] = "init_metrics"]
         /\ UNCHANGED last_error

\* A null array, a null in it, and an empty one are refused before the
\* exporters are taken.
ac_init_metrics(t, valid, empty) ==
  /\ Prepares(t, "client")
  /\ Passes(valid /\ ~empty, {"exporter"})
  /\ \/ (~valid \/ empty) /\ Fails
     \/ /\ valid /\ ~empty
        /\ owned' = owned \ {"exporter"}
        /\ init_metrics(t)
        /\ UNCHANGED <<heap, session, queue>>

\* MetricsInitializer::init returns.
MetricsInit(t, starts) ==
  /\ calling[t] = "init_metrics"
  /\ calling' = [calling EXCEPT ![t] = "none"]
  /\ metrics' = [initialized |-> starts, runs |-> FALSE]
  /\ IF starts THEN Succeed /\ UNCHANGED live ELSE RejectCall
  /\ UNCHANGED <<owned, heap, session, queue>>

ac_metrics_initialized(t) == IdleThread(t) /\ Reads

-----------------------------------------------------------------------------
Errors_(t) ==
  \/ ac_last_error(t)
  \/ ac_error_free(t)
  \/ \E valid \in BOOLEAN : ac_error_as_str(t, valid)

Objects(t) ==
  \/ ac_configuration_free(t)
  \/ ac_lock_state_new(t)
  \/ ac_lock_state_free(t)
  \/ ac_display_new(t)
  \/ ac_display_free(t)
  \/ ac_client_free(t)
  \/ \E valid \in BOOLEAN :
       \/ ac_client_new(t, valid)
       \/ \E parses \in BOOLEAN :
            \/ ac_configuration_from_argv(t, valid, parses)
            \/ ac_configuration_from_uri(t, valid, parses)
            \/ ac_client_from_args(t, valid, parses)
            \/ ac_client_from_uri(t, valid, parses)

Connections(t) ==
  \/ Disconnected(t)
  \/ ac_event_free(t)
  \/ \E valid \in BOOLEAN :
       \/ \E connects \in BOOLEAN : ac_client_connect(t, valid, connects)
       \/ ac_connection_disconnect(t, valid)
       \/ ac_connection_free(t, valid)
       \/ ac_connection_poll_event(t, valid)
       \/ ac_connection_wait_event(t, valid)
       \/ ac_connection_wait_event_timeout(t, valid)

Accessors(t) ==
  \/ ac_display_configuration_free(t)
  \/ \E valid \in BOOLEAN :
       \/ ac_event_get_type(t, valid)
       \/ ac_event_draw_get_frame(t, valid)
       \/ ac_event_draw_get_origin(t, valid)
       \/ ac_event_draw_get_size(t, valid)
       \/ ac_event_draw_get_pixels(t, valid)
       \/ ac_event_cursor_get_hotspot(t, valid)
       \/ ac_event_cursor_get_size(t, valid)
       \/ ac_event_cursor_get_pixels(t, valid)
       \/ ac_event_quit_get_reason_type(t, valid)
       \/ ac_event_quit_get_server_reason(t, valid)
       \/ ac_event_quit_get_error_message(t, valid)
       \/ ac_event_display_get_configuration(t, valid)
       \/ ac_connection_display_configuration(t, valid)
       \/ ac_display_configuration_get_id(t, valid)
       \/ ac_display_configuration_encoder_count(t, valid)
       \/ ac_display_configuration_get_display_count(t, valid)
       \/ \E inBounds \in BOOLEAN : ac_display_configuration_get_display_at(t, valid, inBounds)

InputCalls(t) ==
  \E valid \in BOOLEAN :
    \/ ac_connection_key_press(t, valid)
    \/ ac_connection_key_release(t, valid)
    \/ ac_connection_request_display_change(t, valid)
    \/ \E fits \in BOOLEAN :
         \/ ac_connection_pointer_move(t, valid, fits)
         \/ ac_connection_mouse_button_press(t, valid, fits)
         \/ ac_connection_mouse_button_release(t, valid, fits)

Metrics(t) ==
  \/ ac_metrics_exporter_free(t)
  \/ ac_metrics_initialized(t)
  \/ \E valid \in BOOLEAN :
       \/ ac_metrics_exporter_new(t, valid)
       \/ \E empty \in BOOLEAN : ac_init_metrics(t, valid, empty)
  \/ \E starts \in BOOLEAN : MetricsInit(t, starts)

Primary ==
  \/ \E c \in Contents : PrimaryQueues(c)
  \/ PrimaryLeaves
  \/ PrimaryEnds

InterfaceNext ==
  \/ \E t \in Threads :
       Errors_(t) \/ Objects(t) \/ Metrics(t)
  \/ Connections(Main) \/ Accessors(Main) \/ InputCalls(Main)
  \/ Primary

InterfaceSpec == InterfaceInit /\ [][InterfaceNext]_interfaceVars

-----------------------------------------------------------------------------
(* Properties.                                                             *)

\* Every object that the caller may use, or has to free, is allocated: an
\* AcError obtained from ac_last_error is not dropped by the next failure in
\* another thread, and the documented loop, which frees what a successful
\* ac_connection_poll_event left in its variable, frees no event twice.  (It
\* would if event_out were left unchanged when there is no event, as the
\* documentation has it: the code writes null.)  And a string that
\* ac_error_as_str, ac_event_quit_get_server_reason or
\* ac_event_quit_get_error_message returned is valid until its owner is freed.
NoDangling ==
  /\ CallersToFree \subseteq live
  /\ \A p \in DOMAIN lent : lent[p] \subseteq {text[p]}

\* Nothing leaks: every allocated object is the caller's to free, the error
\* kept for ac_last_error, or a connection in the call that disconnects it.
NoLeak ==
  /\ live \subseteq CallersToFree \union {last_error}
                        \union {"connection" : t \in {u \in Threads : calling[u] = "disconnect"}}
  /\ last_error \notin CallersToFree

=============================================================================
