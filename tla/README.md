# ApertureC: TLA+ models, checks and proofs

ApertureC is a remote desktop: a server captures the displays of an X session,
encodes what changed and sends it over QUIC to a client, which draws it and
sends input back; TCP tunnels run beside. This directory models the parts of
the program whose correctness depends on order, concurrency and failure, checks
them with TLC on small instances and proves the central invariants with TLAPS
for every value of the constants. Paths are relative to the repository.

## 1. The system

| part | state it keeps | operations | talks to | what is hard |
|---|---|---|---|---|
| frame synchronisation, `aperturec-server/src/task/frame_sync.rs` | a tracking buffer per display (pixels, damage, frame id), the encoder channels of each display | new display configuration, damage, cut a frame | backend task, encoders | three kinds of tasks under separate locks; permits reserved before they are needed; two watches |
| encoders, `task/encoder.rs` | area, frame queue of one | encode the part of a frame in its area | frame sync, media handler | an encoding may fail; commands and frames arrive on two channels |
| decoder layout, `aperturec-graphics/src/partition.rs` | none | `partition`, `partition_displays` | both ends | meant to be an exact cover for every count (it is not: run `partition_seventeen`) |
| client framer, `aperturec-client/src/frame.rs` | decoder states per frame in flight, frames drawn early, queued draws | fragment, empty terminal, get draws | media thread | messages arrive in any order (a QUIC stream each) |
| client threads, `aperturec-client/src/lib.rs`, `channels/*.rs` | loop or blocked send of each thread | connect, input, events, disconnect, drop | application, server | rendezvous channels in both directions, ends in any order |
| tunnels, `task/tunnel_channel_handler.rs`, `channels/tunnel.rs` | stream states, queues, a task or two threads per stream | open, data, close, connect, accept | TCP peers, the other end | seven queues in one biased select, two threads and a remote end that close a stream |
| backend task, `task/backend.rs` | display configuration, cursor cache | display request, damage, cursor | everything on the server | reconfigures encoders, frame sync and client one after the other |
| media handler and rate limiter, `task/media_channel_handler.rs`, `rate_limit.rs` | tokens, one request | send, refill, cancel | encoders, client | messages larger than the bucket; cancellation under load |
| X backend, `backend/x.rs` | modes it created, screen, keyboard and pointer | start Xvfb, set displays, set locks, input, reset | X server | a display change is a dozen requests, each of which may be refused; other X clients between them |
| server session, `server.rs`, `session.rs`, control and event handlers | session state, client id | accept, authenticate, run, terminate, resume | all tasks | tasks end in any order; inactivity; new client during teardown |
| connecting, `lib.rs` (`connect`), `endpoint.rs`, `session.rs`, `tls.rs` | TLS material on disk, tokens, connections | build, dial, open and accept streams, authenticate, answer | QUIC | one loop serves all clients; restarts between two files; tokens zeroized |
| codecs and transports, `aperturec-channel/src/codec`, `transport` | receive buffer, streams being read | send, receive, split, time out | QUIC | partial reads of length and body; calls dropped half-way |
| C interface, `aperturec-client/src/ffi.rs` | objects handed out, the last error | 49 functions | the application | ownership of what is handed out, errors between threads |

The correctness of each part, in a sentence: the framer draws every fragment
once and counts a frame as complete only when it is; the layout gives every
pixel one decoder; frame sync loses no damage and orders frames; the client's
threads end, in the order that lets the server know; a tunnel stream is a
stream (in order, nothing twice, closes after data); a session ends for one
reason, which its client is told, and makes way for the next; a channel is a
queue or a bag of messages; what the client draws is the display it shows; the
bandwidth cap holds and starves nobody; the displays a client asked for are those
it is told of, and nothing is left behind of earlier ones; every connect
returns, with an error that is deserved; an object of the C interface is freed
once and not used after.

## 2. Modules

| module | models | run |
|---|---|---|
| `DisplayFramer` | `DisplayFramer`, `DecoderFrameState`, `InFlightFrame`, `EarlyDrawFrame` of `frame.rs`, and what the encoders send for a frame | `parts` |
| `Partition` | `partition`, `partition_displays` | `parts`, `partition_seventeen` |
| `TrackingBuffer` | `TrackingBuffer` and what `diff_rectangle_cover` promises it | (part of FrameSync) |
| `FrameSync` | the configuration, damage and cutting tasks of `frame_sync.rs` | `frame_sync`, `frame_sync_channels`, `frame_sync_starved` |
| `ClientThreads` | the application's `Connection`, the primary thread, main and network threads of the four channels | `client`, `client_drop` |
| `TunnelChannel`, `TunnelServer`, `TunnelClient`, `Tunnel` | messages and sockets, `tunnel_channel_handler.rs`, `channels/tunnel.rs`, the two composed | `tunnel` |
| `SessionTasks`, `ServerSession` | the tasks of an active session; the states of `Server`, the loop of a session and the main task | `server_session` |
| `InOrderChannel`, `MessageQueue` | `codec/in_order.rs` over `transport/stream.rs`; the queue it promises | `connection` |
| `OutOfOrderChannel`, `MessageBag` | `codec/out_of_order.rs` over `transport/datagram.rs`, the gate; the bag it promises | `connection` |
| `SessionChannels` | both kinds of channel of a session | `connection` |
| `TlsMaterial`, `Connection` | certificate and key across restarts; connect, accept, authenticate, answer | `connection` |
| `RateLimit`, `CursorCache`, `MediaPipeline` | the token bucket; the cursor's way; backend task, encoders, media handler, client `Framer` and application composed | `media`, `media_cursor` |
| `XServer`, `XBackend` | the X server as the code uses it (external); `backend/x.rs` and the calls a session makes of it | `parts` |
| `ClientInterface` | `ffi.rs` and what `lib.rs` does behind it | `parts` |
| `FrameSyncProofs`, `ClientThreadsProofs`, `ConnectionProofs`, `MediaPipelineProofs`, `ClientInterfaceProofs` | theorems about the module of that name (`MediaPipelineProofs` also about `RateLimit` and `CursorCache`) | |
| `ChannelProofs` | theorems about both codecs and the tunnel | |
| `DisplayProofs` | theorems about `DisplayFramer` and `Partition` | |
| `ServerProofs` | theorems about `ServerSession` and `XBackend` | |

The `MC` modules extend a module for TLC and define what a `.cfg` cannot
(`MCPartition` also enumerates the inputs and states its properties). Definitions whose name has a suffix after an underscore and whose
comment begins with "Mutant" are deliberate mistakes: no specification uses
them, they show that each property can fail.

### DisplayFramer

A frame is produced by all encoders at once; each sends its encoded fragments
(the last one marked terminal), or an empty terminal, or, when encodings fail,
fewer. The messages are a set from which any is delivered next: every message
travels on a QUIC stream of its own, which is reliable but unordered. Delivery is
the whole of `report_mm`: `report_fragment` or `report_empty_frame_terminal`,
`report_terminal` included, and `get_draws_and_reset` is the drain at the head
of the media thread's loop. `in_flight`, `early_draw` and `undrawn` are the code's;
`drawn`, `accepted` and `rejected` are histories. Pixels are the identity of
their fragment.

### TrackingBuffer and FrameSync

A display has a few regions with a pixel value each; a capture changes some
and reports an area that covers them. Locks make the bodies under them atomic;
between them every interleaving is possible: the configuration task resizes one
display after the other and assigns its channels under another lock, the damage
task updates the displays concurrently, a cutting task clones the senders, asks
for permits one after the other, waits for permits and damage, looks at the
revoke watch, cuts, sends. An encoder channel has one slot and a line of
tasks that asked for its permit (tokio's fair semaphore). `sent` and `last` are
histories: what was last cut for a region, what an encoder took last.

### ClientThreads

The channels between threads have capacity zero, so a message is part of its
sender's state and its transfer is a joint step. `pt` is the primary thread (in
its select, in a forwarding send, terminating the workers one by one, done);
`main[w]` a main thread with the messages it has still to send; `net[w]` a
network thread. `Deadlocked` lists the waits that never end. The branches left
out are those `NoneEndsUnexpectedly` and `ClosedAfterWorkers` show unreachable:
the "terminated unexpectedly" breaks, failing forwards, a main thread whose
primary thread is gone.

### Tunnel

Pieces of data are numbered, so that loss, duplication and order are visible.
The dispatch task's biased select is modelled poll by poll: a branch may be
taken although an earlier one has become ready since it was polled. tc-main is
in its select or blocked in a send to a write thread; the other threads of a
stream are blocked until tc-main takes their message. tc-quic-tx and tc-quic-rx
only pass messages on and are part of the channel. Which end accepts a stream
is chosen in the initial state, as the tunnels' allocation does. A write thread is in a write,
which returns when its peer has read enough or closes, or receives from tc-main, or reports its
end. A socket that the client connected is blocking; one that its listener accepted (mio) is
not, so that a read of it that finds nothing, and a write that finds no room, return an error.

### SessionTasks and ServerSession

`phase` is the state of `Server`, with the steps from a login to running tasks as
states of their own. The loop of the active session is one action per branch of
its biased `select!`; a guard says that no branch before it is ready. Each half of
a handler is a task that runs or has ended in some way, and `Outcome` is what the
handler's future returns (`try_join`). A task waits where the code does: `ec_rx`
for room in the queue of events, the backend task inside an event. `told` is what
the client has received on the control channel. `polled` and `panicked` record the
polls of `client_inactive_rx`, a oneshot receiver that must not be polled after
it has completed. Events and replies themselves are left out, and so is time: the
inactivity timer runs out whenever it is armed.

Three behaviours of this model are worth knowing although no line of the
repository contradicts them. The exit of a client's own program ends the server,
since `SwapableBackend` answers for the client's program (`server.rs:989`). When
that program exits with success the client gets no `ServerGoodbye`. When it exits
with an error, an event that can no longer be forwarded may make the reason
`InternalError` instead of `ProcessExited`.

### InOrderChannel, OutOfOrderChannel and SessionChannels

A byte of a stream is its position, a message an interval of positions: a
delimiter and a body of given lengths. The network delivers any prefix and the
transport any chunk of it; `receive_buf` is the interval between `consumed` and
`arrived`. A call of `receive` ends with a message, an error, a timeout, or
because its future is dropped; the buffer outlives it. `AsyncDuplex::split` makes
a new, empty buffer, which loses what the old one held: with `Pipelined` set,
`ImplementsQueue` is violated at once. No user of the crate is exposed to it:
a client sends its `ClientInit` and waits for the `ServerInit`, which the server sends, still
on the duplex, once it has received the `ClientInit`; the server then receives nothing more
before the split, so that a message sent in between is read after it. `Pipelined = FALSE`
states this by letting the client send only then. A media message is a QUIC
stream of its own; streams are accepted in order, read at once and returned as they
complete. The refinement mapping for the queue is the identity on `sent`, `taken`
and `received`; for the bag, a returned stream is its message only if all its
bytes had been read.

### TlsMaterial and Connection

A key pair is a number, which stands for the key and the certificate
signed with it; a file is absent, torn, or holds a pair's half. A start uses the operator's
files as they are, mixed up or not (`TlsConfiguration::Provided`), or the saved pair, or
generates one. Nothing but rustls, when the endpoint is built, looks at whether the operator's
files match; `MaterialMatches` is about generated certificates. The server may
stop at every step. Each side takes the four channels in a fixed order, which the model has
as two constant sequences and states no property of. A call of `connect` is dialling, opening its streams, about to
send its ClientInit, or waiting for an answer; the server's stream of sessions
treats one connection at a time and only while the life cycle polls it. Tokens are
the right one, another, and the zeroized one. A client that connects and then is
silent for ever is outside the model: the code has no time limit for it, and
`EveryConnectReturns` assumes that a client's threads run.

### RateLimit, CursorCache and MediaPipeline

One display of height one, whose boxes are intervals of columns. Cutting a frame
is one step (`FrameSync` has the detail), and an accepted fragment is drawn
(`DisplayFramer` has the detail). What is kept is what lies between: the backend
task that reconfigures frame sync, encoders and client one after the other; the
two channels into an encoder, commands and frames; the encoders' slots; the gate
before the network; media and events that arrive in any order; the media thread
with its `Framer`, the primary thread and the application, which learns of a
configuration by an event and of a draw by another channel. `quiet` marks a frame
no reconfiguration overlaps, `allowance` what the cap still admits. An encoder's
biased `select!` polls its commands, then its frames, in two steps. A send of the handler takes
as long as the client's stream credit makes it, and may fail and end the handler. The tokio
semaphore is modelled as documented: a waiter accumulates permits, and those are
not "available" when `fill` computes the refill.

### XServer and XBackend

Every action is one X request with what the code does until the next: a request
is an await, may be refused by the server's rules, or once without a reason; `SetCrtcConfig`
may be refused by an error or by the status of its reply, which the code drops (`unset` has the
CRTCs of which this went unnoticed); and
another X client may resize the screen between two of them unless the server is
grabbed. `set_displays` grabs the server and grows the screen; reads each CRTC, finds or
creates its mode, adds it to the output, sets the CRTC, deletes and destroys the mode it
left; and trims the screen, with its error paths (`call.at` is the next request). `Requests` has one request
of each kind the code tells apart. Locks, key events with keycodes outside the X
range, pointer events with several buttons, and `reset_session_state` act on the same input
state. An event that fails ends its session, and the backend is reset and kept for the next.

### ClientInterface

The objects of the interface by kind, and whether the caller owns them; strings
lent by an object live as long as it does; one error is kept for `ac_last_error`,
whichever thread failed. The caller keeps the documented contract. `event` is the variable
`event_out` points at, and `fresh` whether the last call that sets it returned `Ok`.
`NarrowUsize` chooses a platform whose `usize` is narrower than `u64`, on which
some conversions can fail.

## 3. Runs

Parts that share no state are explored side by side in one run: the initial state chooses the
part of a behaviour (`MCParts`, `MCConnection`, `SessionChannels`), and the others rest. Deadlock
checking is off: the models stop when their bounds are used up, and an idle or finished session
rightly stops.

| run | what it shows |
|---|---|
| `parts`, framer | two decoders, three frames of up to two fragments, one failure of an encoder or of the decoding: no correct message is refused, a complete frame has everything, every fragment is drawn once, older frames are flushed in time |
| `parts`, layout | six display sizes, up to 20 boxes or decoders, up to four displays in every combination of enabled ones: areas do not overlap, cover the display exactly up to 16 decoders, and are numbered in order |
| `parts`, C interface | two threads, two errors, one event: no pointer is used after its object is gone, strings lent live as long as their owner, everything allocated is the caller's to free or the kept error |
| `parts`, X backend | two CRTCs, a 3x2 screen, eight requests, two calls, one refusal or one foreign resize, one input: what is reported is what the X server shows whichever request was answered with an error, a request in bounds is granted, no mode and no unused screen is left behind by calls that were met, and the next client finds no key of the last held down and its locks set |
| `partition_seventeen` | violated: seventeen boxes leave a cell of the grid to nobody |
| `frame_sync` | one display of two regions, two encoders, two reconfigurations, two captures: no wake-up lost, no pixel unsent, frames in order, and all damage of this one display is eventually cut |
| `frame_sync_channels` | violated: the first frame of a configuration may go to the channels of the last |
| `frame_sync_starved` | violated: two displays, one reconfiguration: the damage of one may wait for ever for a permit that the task of the idle other holds |
| `client` | one input, two messages, up to two draws: workers leave before the connection closes, Quit is last; under fairness dropping and input end unless deadlocked |
| `client_drop` | violated: dropping the connection may never close it |
| `tunnel` | one stream of either side, three pieces down, one up: order, data before close, a stream is marked and its threads joined before it is forgotten, and tc-main returns, if writes to peers do, unless deadlocked |
| `server_session` | two logins, a signal, one fault: a present client learns why its session ends, the inactivity receiver is polled once, a client's program ends with its session; under fairness a stopped server exits and a new login is served |
| `connection`, connecting | two clients, three connects between them, two addresses, one restart or lost connection: a generated certificate has its key, no authorised client is refused for its token; under fairness every connect returns |
| `connection`, channels | three messages of every kind on each channel: the codecs implement the queue and the bag |
| `media` | two encoders, seven workloads: the cap holds, draws belong to the configuration shown and land where they were captured, every cursor change names an image the client has and the last one sent is the X server's; under fairness every message passes the gate, and all tasks end if the handler's sends return |
| `media_cursor` | violated: a cursor is not shown when it first appears |

Bounds. Two decoders are the least with a frame one of them has finished and
the other not; two fragments the least with a terminal that overtakes; three
frames make a gap beside a frame in flight. The decoders are interchangeable, so
`parts` uses their symmetry; `OneFailure` bounds the failures to one in all, of
either kind and before the last frame, and `FewLongRuns` the runs of two fragments
to two of six. Two logins are the least with a session taken over; one fault beside
a signal and a login leaves three reasons for the end of a session that race, and
one worker, the tunnel handler, ends in every way a worker can. Two displays
and two encoders are the least in which channels change hands. Two received
messages are the least in which the primary thread forwards to a worker that is
sending. Three pieces of data are the least that fill a write thread: one
failing, one in its channel, one in tc-main's hands. On a channel a delimiter has
one byte or two and a body none or one, which is enough to cut each message
before, inside and behind its delimiter; three messages leave one behind, one torn and
one ahead. Connecting needs three connects for a client that connects again after its token
was zeroized beside another client. The workloads of `media` keep apart what does not interact:
the end of a session during a reconfiguration, the end while messages larger than the bucket
wait (under two caps), messages most of which pass at once, cursors, failing compressions, and two reconfigurations with a client that draws.
The X backend needs two calls (the second meets what the first left) and one refusal at
any of the requests, or one resize between any two, or instead an input (`OneDisturbance`); two displays are the least
that share a mode. Two errors are the least of which one is kept and one is the caller's.

Fairness. `FrameSync` and `Tunnel` assume weak fairness of each task or thread:
tokio polls a woken task, the operating system runs a runnable thread.
`ClientThreads` likewise. Nothing is assumed of the application, the captures, the
server as seen by the client or the network. Of TCP peers nothing is assumed but in `MainReturns`,
whose premise is that no write waits for ever: a peer that neither reads nor closes keeps the
write thread, and with a full channel tc-main too. `ServerSession` assumes
weak fairness of the main task and of each task of the session, and strong
fairness of the end of `ec_rx`: its select prefers events to its cancellation, so
a client that never pauses could keep it, which the assumption excludes.
`MediaPipeline` assumes weak fairness of the backend task's running branch, of frame
sync, each encoder, the handler (not of its sends) and the limiter with its ticks, and nothing of network, client
or X server. `TasksEnd` has the premise that the handler's sends return: they wait for the
client's stream credit, and cancellation does not abort them. `StopExits` and `LoginServed` of
`ServerSession`, whose workers end when they are cancelled, rest on the same premise for the media
handler. The caps in `media` are 1 and 2; with `--mbps-max 0` nothing would ever pass. `Connection` assumes it of each client's call in progress, the server's
loop and its start. The other runs check safety only.

### Findings

Each violated property quotes a comment, a documentation line or a test; the quotations and their
lines are in `PROJECT.json`, "findings".

* `partition_seventeen`: 17 boxes leave a cell of the 3x6 grid to nobody, while the test at
  `partition.rs:215` expects a cover.
* `frame_sync_channels`, `frame_sync_starved`: a cutting task looks at the revoke watch between
  resize and revocation, or not before it has all its permits (`frame_sync.rs:256`).
* `client_drop`: "Automatically disconnects when dropped" (`lib.rs:334`). `Deadlocked` says in
  which states it does not, and `DropDisconnectsOrDeadlock` that there are no others.
* `media_cursor`: cursor images that become no notifications (`channels/event.rs:206`).

Other disagreements with a line of the repository that the models have, without a run of their
own:

* `ac_connection_poll_event` and `ac_connection_wait_event_timeout` are documented to leave
  `event_out` unchanged when there is no event (`ffi.rs:1105`, `ffi.rs:1186`); the code writes null
  (`ffi.rs:1140`, `ffi.rs:1228`). `NoDangling` holds because it does: a caller that frees what a
  successful call left in its variable would otherwise free an event twice.
* `set_display` does not read the status of `SetCrtcConfig`'s reply (`x.rs:1294`), so that the
  comment "Notify Client of successful resolution change" (`task/backend.rs:255`) may follow a
  change that RandR refused. `ReportedIsActual` leaves out the CRTCs concerned (`unset`).
* Data queued for a tunnel stream that is opening is dropped by its close, against
  `channels/tunnel.rs:25`; and a stream that the client's listener accepted is half closed by a
  read that finds nothing, not only "as either side tears down the socket"
  (`channels/tunnel.rs:22`), because mio's sockets do not block.
* `Connection::display_configuration` returns the configuration of the connection's start, while
  `lib.rs:351` and `ffi.rs:1642` say "the current display configuration".

No line contradicts these: `reset_session_state` releases keys, not pointer buttons;
`set_lock_state` excludes the two extreme keycodes; a mode stays behind when `SetCrtcConfig` fails, and
a screen that was grown is not trimmed when no display changed. `NothingLeftBehind` and
`KeyboardHandedOver` exclude them.

## 4. Proofs

All proofs hold for every value of the constants, under the assumptions named
in the modules. Most say only that bounds are naturals and sets of the right kind. The
others: `CountsAssumption` (`FrameSync`), at least one display and encoder;
`MaterialAssumption`, at least one pair of certificate and key can be made;
`InterfaceAssumption`, the addresses of errors, events and the connection differ and none is
null; `CursorAssumption`, there is a cursor, and neither a serial nor an image's hash is the
value that stands for none; `BackendAssumption` (`XBackend`), there is a CRTC, the largest
screen holds a display of the minimal size, and no keycode belongs to two locks, which X
forbids; `MediaAssumption` (`MediaPipeline`), there is an encoder, displays
are not empty, and `MaxMessage` has room for an encoder's whole area.

Each theorem `Spec => []P` has an inductive invariant that implies `P`; the step lemmas go
action by action. The invariants were checked with TLC before they were proved.

* `DisplayProofs`, the framer: `TypeCorrect`, `NeverRejects`, `CompleteIsReceived`,
  `FragmentsConserved`, `CompletionFlushes` (an action property). The inductive invariant relates the state of each decoder
  of each frame to the accepted messages (the sequence numbers received are those
  of accepted fragments; a decoder is complete exactly when all its messages are
  accepted), and says where each accepted fragment is. Without it a late fragment
  of a frame drawn early could be refused. For the last, `report_terminal` is followed
  through: a frame completes only there, and all entries up to it leave `in_flight`.
* `DisplayProofs`, the layout: `LayoutCovers`, for displays of any size. The lines that cut a
  length grow from zero to the length, so a pixel is between two neighbouring ones and no other
  two; the layout of least score exists; up to sixteen boxes it has no unused cell (a row of
  boxes scores `n - 1`, a grid with a cell to spare ten at least); the ranks number the enabled
  displays, and their blocks of decoders end where the next begins. In place of induction there
  is the least natural of a set.
* `FrameSyncProofs`: `FrameSyncTypes`, `WakeupNeverLost`, `TrackingIsExact`,
  `EncodersSeeFramesInOrder`. The strengthening says who may hold a permit (the
  tasks in line), that a frame in a task's hands is newer than what its
  encoders took, and that frame ids follow the configuration.
* `ClientThreadsProofs`: `ClientTypes`, `WorkersLeaveFirst`,
  `WorkersReportErrors`, `GoodbyeIsSent`, `NothingAfterQuit`. The strengthening has
  three parts. `Told`: the workers before `next` in the termination order are out
  of their loops, and none is while the primary thread is in its own.
  `Unfinished`: while it is, a worker whose network thread has ended still has the
  error to report; tc-main never ends. `Reasons`: why the primary thread left its
  loop, and where an unsent goodbye is.
* `ChannelProofs`, the codecs: `CodecImplementsQueue`, assuming `~Pipelined`, and
  `TransportImplementsBag`, two refinements. For the first: messages lie behind one another in
  the stream, none empty; the buffer begins where the next message to be taken does (so the
  message at its head is that one); before the split of an async duplex there is at most one
  message, so that the buffer it drops is empty. For the second: a stream that has been
  returned was finished by its sender, is no longer read and was returned once; what was read
  of it is its whole length.
* `ChannelProofs`, the tunnel: `TunnelTypes`, `TunnelDataInOrder`, `CloseComesLast`,
  `TrackedWhileBusy`, for any number of streams. The invariant is one per stream
  (`StreamOK`): `OpenedOnce` (the open is in one place at a time, and only before the end it
  goes to has the stream), `Threads` (threads start when the stream is established, which is
  once), `Closes` (the server closes a stream once, when it is over, and the select has polled
  the data since the close was queued), `Tables`, `Halves` (tc-main's state counts the read
  thread, the write thread and at most one close), and `ToClient` and `ToServer`: what is on
  a stretch of the way is below what is on every stretch behind it, `Chain`. They depend on
  each other: were the open to come twice, threads would start twice and `Halves` would
  forget a stream early; data that waits in `queued` is below data handed over only because an
  opening stream has nothing in its channel.
* `ServerProofs`, the session: `ServerTypes`, `InactivityPolledOnce`, `ProgramKilled`,
  `GoodbyeReachesClient` (an action property). The strengthening: `AtRest`, nothing of a
  session is left outside its loop; `Receiver`, whatever completed the inactivity receiver has
  cancelled the session; `Greeting`, `Handler` and `Goodbye`, a queued goodbye has a running
  `cc_tx` or has been sent, as long as the client is there.
* `ServerProofs`, the X backend: `XBackendTypes`, `DisplaysAsReported`, `FittingRequestGranted`,
  `NothingIsLeftBehind`, `KeyboardIsHandedOver`, for any CRTCs, requests, keys and refusals.
  `DisplaysAsReported` is about refusals by an error: it excludes the CRTCs of which the status
  of a reply went unread.
  `Reported`: the displays settled so far are on their CRTCs, with the CRTC of each recorded.
  `Contained`: every CRTC is on the screen. `Honoured`: while nothing was refused, a
  request that fits finds the server grabbed and the screen large enough, so no request
  of the call breaks a rule of the server. `Tidy`: the modes are those in use and at most one
  spare (created and not yet used, or left and not yet destroyed), listed by the right
  outputs. `Sized` and `Fitted`: what is on has an extent, so that the trimmed size is one
  the server accepts. `Keyboard`: what is down and which locks still differ, at every stage of a
  session; a lock's key toggles that lock only.
* `ConnectionProofs`: `ConnectionTypes`, `MaterialBelongsTogether`, `FailureIsDeserved`. The
  strengthening: a generated pair in the server's hands matches from the moment
  it has one, and what is being written was generated; a call that has not dialled has no connection; each connection waits once and is
  treated once; `Tokens`, a `ClientInit` was built before its token was wiped.
* `ClientInterfaceProofs`: `InterfaceTypes`, `NothingDangles`, `NothingLeaks`.
  The two invariants are nearly inductive together: added are that the
  error kept for `ac_last_error` is allocated and that a connection being disconnected is no
  longer the caller's.
* `MediaPipelineProofs`: `RateIsKept`, for any handler that waits for its answer, and
  `PipelineKeepsRate`, that the pipeline's handler is one; `CursorIsFollowed`;
  `DrawsAreInPlace`. The rate's invariant: the tokens in the bucket and those held by a waiting
  message are together covered by the allowance. The cursor's: the server sends only changes
  whose image it has sent before, and the last notice in line is the X server's cursor. The
  draws': configurations are numbered and reach the client in order, an encoder that was told of
  a configuration has its width or the command for it, and every message in flight is placed as
  its configuration says; without it a frame cut before a reconfiguration could be drawn after.

`TypeCorrect`, `FrameSyncTypes`, `ClientTypes`, `TunnelTypes`, `ServerTypes`, `XBackendTypes`,
`ConnectionTypes`, `InterfaceTypes`, `WorkersReportErrors` and `GoodbyeIsSent` state
invariants the other theorems rest on or that the runs no longer list.

Only model-checked: the liveness properties, which like `ENABLED` are out of the prover's reach.
Every invariant and every safety action property of a passing run is a theorem.

## 5. Not modelled

JXL encoding, pixel maps and pixel arithmetic, the growth of rectangles in
`diff_rectangle_cover`; the frame buffer of the X backend (shared memory) and the merging
of its event streams; processes but for when they end; the GTK client (its logic is
callbacks of the toolkit around the client library); metrics and their exporters; protocol
conversions but for fields that are missing; command lines and logging; the
macros of the state machines, which only expand to what `ServerSession` has as phases.
`aperturec-client/src/client.rs` is not part of the build.

Seen while modelling, contradicting no line of the repository:

* A frame all of whose messages have arrived stays undrawn when the last one to
  arrive is not a terminal, until a newer frame completes.
* Filling a gap may re-create an entry for a frame that is complete; it is
  flushed with the next complete frame and draws nothing.
* The tunnel's server may send data or a close before the open of its stream,
  because opens have the lowest priority in the select; the client drops both.
* When the client's peer closes first, no message tells the server: the stream
  goes Opened, HalfClosed, FullyClosed by its two threads, and a close is sent only
  in answer to further data.
* When told to terminate, cc-main, ec-main and mc-main join a network thread that
  ends only by a send to them, and tc-main a thread whose sender it owns.
* A client that connects and sends nothing keeps the server from all others.
* Media of a configuration that arrives before the event that announces it is dropped; the
  region is drawn again only when it changes.

## 6. Plan

Done: the framer, the layout, frame synchronisation, the client's threads,
the tunnel, the server's session, channels, connecting, the media pipeline, the
X backend, the C interface; proofs of the safety properties of all of them.
Next: the conditions under which the layout is full beyond sixteen boxes, and what the
safety part of the liveness arguments (who waits for whom) needs.
