----------------------------- MODULE Connection -----------------------------
(***************************************************************************)
(* How a client comes to a session: Client::connect of aperturec-client    *)
(* (lib.rs) over the client endpoint of aperturec-channel, against the     *)
(* server endpoint and the stream of authenticated sessions                *)
(* (aperturec-server/src/session.rs) that the server's life cycle polls.   *)
(*                                                                         *)
(* The stream treats one connection at a time, and only while it is polled:*)
(* clients that connected meanwhile wait in the endpoint.  A client may    *)
(* call connect again with the same Client once it has returned.           *)
(*                                                                         *)
(* QUIC is external: a connection carries the streams in the order they    *)
(* were opened, and is closed for both sides at once, by either of them or *)
(* because it is lost.  What had been sent may then be read or not.        *)
(***************************************************************************)
EXTENDS TlsMaterial, Functions

CONSTANTS
  Clients,       \* the client processes
  Authorized,    \* the clients configured with the server's token
  Trusting,      \* the clients with allow_insecure_connection
  Addresses,     \* how many addresses the server's name resolves to
  MaxConnects    \* bound: calls of connect

ASSUME ConnectionAssumption ==
  /\ Authorized \subseteq Clients /\ Trusting \subseteq Clients
  /\ Addresses \in Nat \ {0} /\ MaxConnects \in Nat \ {0}

VARIABLES
  at,           \* how far each client's connect has come
  calls,        \* calls of connect so far
  failed,       \* failed_attempts of a do_connect that is running
  auth_token,   \* the token in each client's Configuration
  client_init,  \* the token in each client's cached ClientInit
  conn,         \* the connection of each call of connect
  backlog,      \* connections the endpoint holds for accept
  listener,     \* the stream of authenticated sessions
  peeked,       \* the session the Peekable stream holds
  session       \* the session of the server, and whether it was answered

clientVars == <<at, calls, failed, auth_token, client_init>>
serverVars == <<backlog, listener, peeked, session>>
vars == <<materialVars, clientVars, conn, serverVars>>

Calls == Clients \X (1 .. MaxConnects)
NoCall == <<>>
Current(c) == <<c, calls[c]>>

\* The token of the server, that of the other clients, and a zeroized one.
Right == "right"
Wrong == "wrong"
Empty == ""
NoInit == "none"
TokenOf(c) == IF c \in Authorized THEN Right ELSE Wrong

ClientStreams == <<"cc", "ec", "tc">>
ServerStreams == <<"cc", "ec", "tc">>

Closed == [state |-> "none", opened |-> <<>>, accepted |-> <<>>, init |-> NoInit, told |-> <<>>]

\* What a connect can be told in place of an Ok.
ServerInits == {"ServerInit", "NoDisplays", "TooManyDecoders"}
Goodbyes == {"AuthenticationFailure", "Refused"}

TypeOK ==
  /\ MaterialTypeOK
  /\ at \in [Clients -> {"idle", "dial", "open", "init", "answer", "connected"}]
  /\ calls \in [Clients -> 0 .. MaxConnects] /\ failed \in [Clients -> 0 .. Addresses]
  /\ auth_token \in [Clients -> {Right, Wrong, Empty}]
  /\ client_init \in [Clients -> {Right, Wrong, Empty, NoInit}]
  /\ conn \in [Calls -> [state : {"none", "open", "closed"}, opened : Seq({"cc", "ec", "tc"}),
                         accepted : Seq({"cc", "ec", "tc"}),
                         init : {Right, Wrong, Empty, NoInit},
                         told : Seq(ServerInits \union Goodbyes)]]
  /\ backlog \in Seq(Calls)
  /\ listener \in [at : {"down", "accept", "streams", "init", "refuse"},
                   conn : Calls \union {NoCall}]
  /\ peeked \in Calls \union {NoCall}
  /\ session \in [conn : Calls \union {NoCall}, answered : BOOLEAN]

Idle == [at |-> "down", conn |-> NoCall]
NoSession == [conn |-> NoCall, answered |-> FALSE]

Init ==
  /\ MaterialInit
  /\ at = [c \in Clients |-> "idle"]
  /\ calls = [c \in Clients |-> 0] /\ failed = [c \in Clients |-> 0]
  /\ auth_token = [c \in Clients |-> TokenOf(c)]
  /\ client_init = [c \in Clients |-> NoInit]
  /\ conn = [k \in Calls |-> Closed]
  /\ backlog = <<>> /\ listener = Idle /\ peeked = NoCall /\ session = NoSession

Open(k) == conn[k].state = "open"
Close(k) == conn' = [conn EXCEPT ![k].state = "closed"]

(***************************************************************************)
(* The client.                                                             *)
(***************************************************************************)

\* connect returns an error, and drops the channels it holds.
Fails(c) == at' = [at EXCEPT ![c] = "idle"]

\* The endpoint is built, unless the kernel is too old, connect was called
\* within a runtime, or a certificate does not parse.
build_sync(c) == at' = [at EXCEPT ![c] = "dial"] \/ Fails(c)

\* connect is called: setup_unified_channel takes the address apart and builds
\* the endpoint.  MaxConnects bounds the calls of each client, and of all.
connect(c) ==
  /\ at[c] = "idle"
  /\ calls[c] < MaxConnects /\ FoldFunction(+, 0, calls) < MaxConnects
  /\ calls' = [calls EXCEPT ![c] = @ + 1]
  /\ build_sync(c)
  /\ UNCHANGED <<materialVars, failed, auth_token, client_init, conn, serverVars>>

\* verify_server_cert: the user's certificates are the server's first one;
\* the platform knows none of them.
UserProvided(cert) == cert = 1
Platform(cert) == FALSE
verify_server_cert(c, cert) == c \in Trusting \/ UserProvided(cert) \/ Platform(cert)

\* The handshake is signed with the key of the certificate.
verify_tls13_signature(c, cert, pkey) == c \in Trusting \/ cert = pkey

\* A server answers at the address, and the handshake with it succeeds.
Reachable(c) ==
  /\ listener.at # "down"
  /\ verify_server_cert(c, tls_material.certificate)
  /\ verify_tls13_signature(c, tls_material.certificate, tls_material.pkey)

\* One address of do_connect: the connection is made and the loop left, or
\* the failure is kept and the next address tried.
do_connect(c) ==
  /\ at[c] = "dial"
  /\ \/ /\ Reachable(c)
        /\ conn' = [conn EXCEPT ![Current(c)].state = "open"]
        /\ backlog' = Append(backlog, Current(c))
        /\ at' = [at EXCEPT ![c] = "open"]
        /\ failed' = [failed EXCEPT ![c] = 0]
     \/ /\ failed' = [failed EXCEPT ![c] = (@ + 1) % Addresses]
        /\ IF failed[c] + 1 < Addresses THEN UNCHANGED at ELSE Fails(c)
        /\ UNCHANGED <<conn, backlog>>
  /\ UNCHANGED <<materialVars, calls, auth_token, client_init, listener, peeked, session>>

\* Session::new: the streams are opened one after the other.
open_bidirectional_stream(c) ==
  /\ at[c] = "open"
  /\ LET k == Current(c)
         n == Len(conn[k].opened)
     IN \/ /\ Open(k)
           /\ conn' = [conn EXCEPT ![k].opened = Append(@, ClientStreams[n + 1])]
           /\ at' = [at EXCEPT ![c] = IF n + 1 = Len(ClientStreams) THEN "init" ELSE @]
        \/ ~Open(k) /\ Fails(c) /\ UNCHANGED conn
  /\ UNCHANGED <<materialVars, calls, failed, auth_token, client_init, serverVars>>

\* Mutant: the ClientInit is built at every call.
get_init_Anew(c) ==
  /\ client_init' = [client_init EXCEPT ![c] = auth_token[c]]
  /\ auth_token' = [auth_token EXCEPT ![c] = Empty]

\* The ClientInit of the Client: built once, and the token in the
\* configuration is zeroized each time.
get_init(c) ==
  /\ client_init' = [client_init EXCEPT ![c] = IF @ = NoInit THEN auth_token[c] ELSE @]
  /\ auth_token' = [auth_token EXCEPT ![c] = Empty]

\* The control channel is set up and sends the ClientInit; a failure to send
\* is the first thing connect receives.
SendClientInit(c) ==
  /\ at[c] = "init"
  /\ get_init(c)
  /\ LET k == Current(c)
     IN IF Open(k)
        THEN /\ conn' = [conn EXCEPT ![k].init = client_init'[c]]
             /\ at' = [at EXCEPT ![c] = "answer"]
        ELSE Fails(c) /\ UNCHANGED conn
  /\ UNCHANGED <<materialVars, calls, failed, serverVars>>

\* A ServerInit without a display configuration leaves the connection to the
\* control channel's network thread; one with too many decoders closes it.
ReceiveServerInit(c, k) ==
  /\ Head(conn[k].told) \in ServerInits
  /\ CASE Head(conn[k].told) = "ServerInit" -> at' = [at EXCEPT ![c] = "connected"] /\ UNCHANGED conn
       [] Head(conn[k].told) = "NoDisplays" ->
            Fails(c) /\ UNCHANGED conn
       [] OTHER -> Fails(c) /\ Close(k)

\* What connect receives from the control channel.
ReceiveAnswer(c) ==
  /\ at[c] = "answer"
  /\ LET k == Current(c)
     IN \/ conn[k].told # <<>> /\ ReceiveServerInit(c, k)
        \/ /\ conn[k].told # <<>> /\ Head(conn[k].told) \in Goodbyes
           /\ Fails(c) /\ UNCHANGED conn
        \/ ~Open(k) /\ Fails(c) /\ UNCHANGED conn
  /\ UNCHANGED <<materialVars, calls, failed, auth_token, client_init, serverVars>>

\* The connection of a connected client ends, by the client or for it.
Leave(c) ==
  /\ at[c] = "connected"
  /\ at' = [at EXCEPT ![c] = "idle"]
  /\ Close(Current(c))
  /\ UNCHANGED <<materialVars, calls, failed, auth_token, client_init, serverVars>>

\* QUIC gives a connection up.
Lose(k) ==
  /\ Open(k) /\ faults < MaxFaults
  /\ faults' = faults + 1
  /\ Close(k)
  /\ UNCHANGED <<cert_pem, key_pem, tls_material, subjects, starting, clientVars, serverVars>>

(***************************************************************************)
(* The server.                                                             *)
(***************************************************************************)

\* rustls refuses a private key that is not the certificate's.
with_single_cert(material) == material.certificate = material.pkey

\* The server, which has its material, builds its endpoint and listens; or
\* that fails, because of the material or because the address is in use, and
\* the process ends.
Listen ==
  /\ starting = "up" /\ listener.at = "down"
  /\ \/ /\ with_single_cert(tls_material)
        /\ listener' = [at |-> "accept", conn |-> NoCall]
        /\ UNCHANGED materialVars
     \/ /\ starting' = "down" /\ tls_material' = NoMaterial
        /\ UNCHANGED <<cert_pem, key_pem, subjects, faults, listener>>
  /\ UNCHANGED <<clientVars, conn, backlog, peeked, session>>

\* The process ends with its endpoint and every connection.
ServerStops ==
  /\ Stop
  /\ listener' = Idle /\ backlog' = <<>> /\ peeked' = NoCall /\ session' = NoSession
  /\ conn' = [k \in Calls |-> IF Open(k) THEN [conn[k] EXCEPT !.state = "closed"] ELSE conn[k]]
  /\ UNCHANGED <<clientVars>>

\* The life cycle polls the stream while it waits for a session and while
\* one runs, until it holds the next.
Polled == peeked = NoCall /\ (session.conn = NoCall \/ session.answered)

accept ==
  /\ Polled /\ listener.at = "accept" /\ backlog # <<>>
  /\ listener' = [at |-> "streams", conn |-> Head(backlog)]
  /\ backlog' = Tail(backlog)
  /\ UNCHANGED <<materialVars, clientVars, conn, peeked, session>>

\* Mutant: the error of one client ends the stream.
Continue_StreamEnds ==
  /\ listener' = [at |-> "ended", conn |-> NoCall]
  /\ Close(listener.conn)

\* The connection of the client at hand is dropped, and the loop goes on.
Continue ==
  /\ listener' = [at |-> "accept", conn |-> NoCall]
  /\ Close(listener.conn)

\* AsyncSession::new: the streams are accepted in the order of their channels.
\* A connection that ends first is an error or a missing stream.
accept_bidirectional_stream ==
  /\ Polled /\ listener.at = "streams"
  /\ LET k == listener.conn
         n == Len(conn[k].accepted)
     IN \/ /\ n < Len(conn[k].opened)
           /\ conn' = [conn EXCEPT ![k].accepted = Append(@, ServerStreams[n + 1])]
           /\ listener' = [listener EXCEPT !.at = IF n + 1 = Len(ServerStreams) THEN "init" ELSE @]
        \/ ~Open(k) /\ Continue
  /\ UNCHANGED <<materialVars, clientVars, backlog, peeked, session>>

verify_password(token) == token = Right

\* The ClientInit is received and its token verified, and the stream yields
\* the session to the life cycle that polls it.
ReceiveClientInit ==
  /\ Polled /\ listener.at = "init"
  /\ LET k == listener.conn
     IN \/ /\ conn[k].init # NoInit /\ verify_password(conn[k].init)
           /\ peeked' = k
           /\ listener' = [at |-> "accept", conn |-> NoCall]
           /\ UNCHANGED conn
        \/ /\ conn[k].init # NoInit /\ ~verify_password(conn[k].init)
           /\ listener' = [listener EXCEPT !.at = "refuse"]
           /\ UNCHANGED <<peeked, conn>>
        \/ ~Open(k) /\ Continue /\ UNCHANGED peeked
  /\ UNCHANGED <<materialVars, clientVars, backlog, session>>

\* send_flush_goodbye, given up after CHANNEL_FLUSH_TIMEOUT.
Refuse ==
  /\ Polled /\ listener.at = "refuse"
  /\ LET k == listener.conn
     IN \E told \in {<<>>, <<"AuthenticationFailure">>} :
          /\ told # <<>> => Open(k)
          /\ conn' = [conn EXCEPT ![k].told = @ \o told, ![k].state = "closed"]
  /\ listener' = [at |-> "accept", conn |-> NoCall]
  /\ UNCHANGED <<materialVars, clientVars, backlog, peeked, session>>

\* The life cycle takes the session the stream has yielded.
TakeSession ==
  /\ session.conn = NoCall /\ peeked # NoCall
  /\ session' = [conn |-> peeked, answered |-> FALSE]
  /\ peeked' = NoCall
  /\ UNCHANGED <<materialVars, clientVars, conn, backlog, listener>>

\* The session is configured: a ServerInit, or a goodbye and the end of it.
Configure ==
  /\ session.conn # NoCall /\ ~session.answered
  /\ LET k == session.conn
     IN \/ /\ session' = [session EXCEPT !.answered = TRUE]
           /\ conn' = [conn EXCEPT ![k].told =
                        IF Open(k) THEN Append(@, "ServerInit") ELSE @]
        \/ /\ session' = NoSession
           /\ conn' = [conn EXCEPT ![k].told = IF Open(k) THEN Append(@, "Refused") ELSE @,
                                   ![k].state = "closed"]
  /\ UNCHANGED <<materialVars, clientVars, backlog, listener, peeked>>

\* A server of another version may answer with what this client rejects.
ConfigureOther ==
  /\ session.conn # NoCall /\ ~session.answered /\ Open(session.conn)
  /\ \E other \in ServerInits \ {"ServerInit"} :
       conn' = [conn EXCEPT ![session.conn].told = Append(@, other)]
  /\ session' = [session EXCEPT !.answered = TRUE]
  /\ UNCHANGED <<materialVars, clientVars, backlog, listener, peeked>>

\* The session ends for the next login, or because its client is gone.  A
\* goodbye follows the ServerInit, the only answer connect waits for.
EndSession ==
  /\ session.answered
  /\ peeked # NoCall \/ ~Open(session.conn)
  /\ Close(session.conn)
  /\ session' = NoSession
  /\ UNCHANGED <<materialVars, clientVars, backlog, listener, peeked>>

ClientStep(c) ==
    do_connect(c) \/ open_bidirectional_stream(c) \/ SendClientInit(c)
      \/ ReceiveAnswer(c)

ServerStep ==
    Listen \/ accept \/ accept_bidirectional_stream \/ ReceiveClientInit \/ Refuse
      \/ TakeSession \/ Configure \/ EndSession

MaterialStep == get_tls_material /\ UNCHANGED <<clientVars, conn, serverVars>>

Next ==
    \/ \E c \in Clients : connect(c) \/ ClientStep(c) \/ Leave(c)
    \/ \E k \in Calls : Lose(k)
    \/ ServerStep \/ ConfigureOther \/ ServerStops \/ MaterialStep

Spec == Init /\ [][Next]_vars

\* The threads of a client and the tasks of the server are scheduled.
Fairness ==
  /\ \A c \in Clients : WF_vars(ClientStep(c))
  /\ WF_vars(ServerStep) /\ WF_vars(MaterialStep)

FairSpec == Spec /\ Fairness

(***************************************************************************)
(* The properties.                                                         *)
(***************************************************************************)

\* A certificate that the server generated, in this run or in an earlier one,
\* is used with the key it was generated with, wherever an earlier start was
\* cut short: the two files are written one after the other, and
\* is_valid_for_sans rejects an old key beside a new certificate.  (A server
\* with an old key would not listen at any later start either.)  Nothing of
\* the kind is promised for the files that an operator provides.
MaterialMatches ==
  starting = "up" /\ tls_material.certificate \in 1 .. MaxPairs
    => tls_material.certificate = tls_material.pkey

\* A client is told that authentication failed only if it was not configured
\* with the server's token, however often it connects: its first ClientInit
\* zeroizes the token in the configuration.
FailureDeserved ==
  \A c \in Clients : \A n \in 1 .. MaxConnects :
    conn[<<c, n>>].told # <<>> /\ conn[<<c, n>>].told[1] = "AuthenticationFailure"
      => c \notin Authorized

\* Every connect returns, whatever the other clients do: the stream goes on
\* after a client it could not use, and no step of it waits for one that is
\* gone.
EveryConnectReturns ==
  \A c \in Clients : at[c] \notin {"idle", "connected"} ~> at[c] \in {"idle", "connected"}
=============================================================================
