-------------------------- MODULE ConnectionProofs --------------------------
(***************************************************************************)
(* How clients come to a session, for any number of clients, calls of      *)
(* connect, addresses, restarts and lost connections: the server never     *)
(* uses a certificate of its own with another one's key, and a client with *)
(* the right token is never told that its authentication failed.           *)
(***************************************************************************)
EXTENDS Connection, TLAPS

StreamNames == {"cc", "ec", "tc"}

ConnType ==
  [state : {"none", "open", "closed"}, opened : Seq(StreamNames), accepted : Seq(StreamNames),
   init : {Right, Wrong, Empty, NoInit}, told : Seq(ServerInits \union Goodbyes)]

-----------------------------------------------------------------------------
(* The inductive invariant.                                                *)

\* A generated pair that the server holds; only such a pair is written.
Pair ==
  /\ starting # "down" /\ tls_material.certificate \in 1 .. MaxPairs
       => tls_material.certificate = tls_material.pkey
  /\ starting \in {"write_cert", "write_key"} => tls_material.certificate \in 1 .. MaxPairs

\* Each side has the streams in the order of its channels.
Ordered(r) ==
  /\ Len(r.opened) <= 3 /\ Len(r.accepted) <= Len(r.opened)
  /\ \A i \in 1 .. Len(r.opened) : r.opened[i] = ClientStreams[i]
  /\ \A i \in 1 .. Len(r.accepted) : r.accepted[i] = ServerStreams[i]

\* Only the token of its client is sent over a connection, and only a wrong
\* one is refused.
Honest(c, r) ==
  /\ r.init \in {NoInit, TokenOf(c)}
  /\ \A i \in 1 .. Len(r.told) : r.told[i] = "AuthenticationFailure" => c \notin Authorized

ConnsOK == \A k \in Calls : Ordered(conn[k]) /\ Honest(k[1], conn[k])

\* The ClientInit is built from the token before it is zeroized.
Tokens ==
  \A c \in Clients :
    /\ client_init[c] \in {NoInit, TokenOf(c)}
    /\ client_init[c] = NoInit => auth_token[c] = TokenOf(c)

\* A call that has not been made, or is still to be answered by an address, has
\* no connection yet.
Undialled(k) == k[2] > calls[k[1]] \/ (k[2] = calls[k[1]] /\ at[k[1]] = "dial")
Fresh == \A k \in Calls : Undialled(k) => conn[k] = Closed

Calling ==
  \A c \in Clients :
    /\ at[c] # "idle" => calls[c] >= 1
    /\ at[c] = "open" => Len(conn[Current(c)].opened) < 3
    /\ at[c] \notin {"idle", "dial"} => conn[Current(c)].state # "none"

Waiting(k) == \E i \in 1 .. Len(backlog) : backlog[i] = k
Busy == listener.at \in {"streams", "init", "refuse"}

\* The server holds connections only.
Known ==
  /\ \A k \in Calls : k \in {listener.conn, peeked, session.conn} \/ Waiting(k) => conn[k].state # "none"
  /\ Busy => listener.conn \in Calls
  /\ session.answered => session.conn \in Calls

\* Each connection waits once, and is treated once.
Once ==
  /\ \A i, j \in 1 .. Len(backlog) : backlog[i] = backlog[j] => i = j
  /\ \A i \in 1 .. Len(backlog) : conn[backlog[i]].accepted = << >>
  /\ Busy => ~Waiting(listener.conn)
  /\ listener.at = "streams" => Len(conn[listener.conn].accepted) < 3
  /\ listener.at = "refuse" => listener.conn[1] \notin Authorized

IInv == TypeOK /\ Pair /\ ConnsOK /\ Tokens /\ Fresh /\ Calling /\ Known /\ Once
-----------------------------------------------------------------------------
(* Calls and connections.                                                  *)

LEMMA NoCallIsNone == NoCall \notin Calls
<1>1. \A k \in Calls : Len(k) = 2
  BY DEF Calls
<1>2. Len(NoCall) = 0
  BY DEF NoCall
<1> QED BY <1>1, <1>2

LEMMA CallParts ==
  ASSUME NEW k \in Calls
  PROVE  k = <<k[1], k[2]>> /\ k[1] \in Clients /\ k[2] \in 1 .. MaxConnects
  BY DEF Calls

\* The connection of a call that is being made.
LEMMA CurrentCall ==
  ASSUME TypeOK, NEW c \in Clients, calls[c] >= 1
  PROVE  /\ Current(c) \in Calls /\ Current(c)[1] = c /\ Current(c)[2] = calls[c]
         /\ conn[Current(c)] \in ConnType
<1>1. calls[c] \in 1 .. MaxConnects
  BY ConnectionAssumption DEF TypeOK
<1>2. Current(c) \in Calls /\ Current(c)[1] = c /\ Current(c)[2] = calls[c]
  BY <1>1 DEF Current, Calls
<1> QED BY <1>2 DEF TypeOK, ConnType, StreamNames

LEMMA ConnTyped ==
  ASSUME TypeOK
  PROVE  conn \in [Calls -> ConnType]
  BY DEF TypeOK, ConnType, StreamNames

LEMMA ClientTyped ==
  ASSUME TypeOK
  PROVE  /\ at \in [Clients -> {"idle", "dial", "open", "init", "answer", "connected"}]
         /\ calls \in [Clients -> 0 .. MaxConnects] /\ failed \in [Clients -> 0 .. Addresses]
         /\ \A c \in Clients : calls[c] \in Nat
<1>1. /\ at \in [Clients -> {"idle", "dial", "open", "init", "answer", "connected"}]
      /\ calls \in [Clients -> 0 .. MaxConnects] /\ failed \in [Clients -> 0 .. Addresses]
  BY DEF TypeOK
<1> QED BY <1>1

LEMMA Streams ==
  /\ Len(ClientStreams) = 3 /\ Len(ServerStreams) = 3
  /\ \A i \in 1 .. 3 : ClientStreams[i] = ServerStreams[i] /\ ClientStreams[i] \in StreamNames
  BY DEF ClientStreams, ServerStreams, StreamNames

\* A field of a connection is set.
LEMMA SetField ==
  ASSUME TypeOK, NEW k \in Calls, NEW r \in ConnType, conn' = [conn EXCEPT ![k] = r]
  PROVE  /\ conn' \in [Calls -> ConnType]
         /\ conn'[k] = r
         /\ \A j \in Calls : j # k => conn'[j] = conn[j]
<1>1. conn \in [Calls -> ConnType]
  BY ConnTyped
<1> QED BY <1>1

\* What every step but a dial and the opening and accepting of streams and
\* the sending of a ClientInit does to the connections: some of those that
\* there are end, or have something told.
ConnsLater ==
  /\ conn' \in [Calls -> ConnType]
  /\ \A k \in Calls :
       /\ conn[k].state = "none" => conn'[k] = conn[k]
       /\ conn[k].state # "none" => conn'[k].state # "none"
       /\ conn'[k].opened = conn[k].opened /\ conn'[k].accepted = conn[k].accepted
       /\ conn'[k].init = conn[k].init

LEMMA LaterSame ==
  ASSUME TypeOK, UNCHANGED conn
  PROVE  ConnsLater /\ \A k \in Calls : conn'[k].told = conn[k].told
  BY ConnTyped DEF ConnsLater

LEMMA LaterClose ==
  ASSUME TypeOK, NEW k \in Calls, conn[k].state # "none", Close(k)
  PROVE  ConnsLater /\ \A j \in Calls : conn'[j].told = conn[j].told
<1>1. conn[k] \in ConnType
  BY ConnTyped
<1> DEFINE r == [conn[k] EXCEPT !.state = "closed"]
<1>2. /\ r \in ConnType /\ r.state = "closed" /\ r.opened = conn[k].opened
      /\ r.accepted = conn[k].accepted /\ r.init = conn[k].init /\ r.told = conn[k].told
  BY <1>1 DEF ConnType
<1>3. conn' = [conn EXCEPT ![k] = r]
  BY ConnTyped DEF Close
<1> HIDE DEF r
<1> QED BY <1>2, <1>3, SetField DEF ConnsLater

\* Something is told over an open connection, which may end with it.
LEMMA LaterTold ==
  ASSUME TypeOK, NEW k \in Calls, conn[k].state # "none",
         NEW text \in Seq(ServerInits \union Goodbyes), NEW state \in {"open", "closed"},
         conn' = [conn EXCEPT ![k].told = text, ![k].state = state]
  PROVE  /\ ConnsLater
         /\ conn'[k].told = text
         /\ \A j \in Calls : j # k => conn'[j] = conn[j]
<1>1. conn[k] \in ConnType
  BY ConnTyped
<1> DEFINE r == [conn[k] EXCEPT !.told = text, !.state = state]
<1>2. /\ r \in ConnType /\ r.state # "none" /\ r.opened = conn[k].opened
      /\ r.accepted = conn[k].accepted /\ r.init = conn[k].init /\ r.told = text
  BY <1>1 DEF ConnType
<1>3. conn' = [conn EXCEPT ![k] = r]
  BY ConnTyped
<1> HIDE DEF r
<1> QED BY <1>2, <1>3, SetField DEF ConnsLater

ToldOK ==
  \A k \in Calls : \A i \in 1 .. Len(conn[k].told) :
    conn[k].told[i] = "AuthenticationFailure" => k[1] \notin Authorized

\* One call returns, or none does.
AtLater ==
  /\ UNCHANGED calls
  /\ \A c \in Clients : \/ at'[c] = at[c]
                        \/ at[c] # "idle" /\ at'[c] = "idle"
                        \/ at[c] = "answer" /\ at'[c] = "connected"

LEMMA ClientsKeep ==
  ASSUME IInv, ConnsLater, ToldOK', AtLater
  PROVE  ConnsOK' /\ Fresh' /\ Calling'
<1>1. TypeOK
  BY DEF IInv
<1>2. ConnsOK'
  <2> SUFFICES ASSUME NEW k \in Calls
               PROVE  Ordered(conn'[k]) /\ Honest(k[1], conn'[k])
    BY DEF ConnsOK, Ordered, Honest, ClientStreams, ServerStreams, TokenOf
  <2>1. Ordered(conn[k]) /\ Honest(k[1], conn[k])
    BY DEF IInv, ConnsOK
  <2>2. conn'[k].opened = conn[k].opened /\ conn'[k].accepted = conn[k].accepted /\ conn'[k].init = conn[k].init
    BY DEF ConnsLater
  <2> QED BY <2>1, <2>2 DEF Ordered, Honest, ToldOK
<1>3. Fresh'
  <2> SUFFICES ASSUME NEW k \in Calls, Undialled(k)'
               PROVE  conn'[k] = Closed
    BY DEF Fresh, Closed
  <2>1. k[1] \in Clients
    BY CallParts
  <2>2. Undialled(k)
    BY <2>1 DEF Undialled, AtLater
  <2>3. conn[k] = Closed
    BY <2>2 DEF IInv, Fresh
  <2> QED BY <2>3 DEF Closed, ConnsLater
<1>4. Calling'
  <2> SUFFICES ASSUME NEW c \in Clients
               PROVE  /\ at'[c] # "idle" => calls'[c] >= 1
                      /\ at'[c] = "open" => Len(conn'[<<c, calls'[c]>>].opened) < 3
                      /\ at'[c] \notin {"idle", "dial"} => conn'[<<c, calls'[c]>>].state # "none"
    BY DEF Calling, Current
  <2>1. at'[c] # "idle" => at[c] # "idle" /\ calls[c] >= 1 /\ calls'[c] = calls[c]
    BY DEF AtLater, IInv, Calling
  <2>2. ASSUME at'[c] = "open"
        PROVE  Len(conn'[<<c, calls'[c]>>].opened) < 3
    <3>1. at[c] = "open" /\ calls[c] >= 1 /\ calls'[c] = calls[c]
      BY <2>1, <2>2 DEF AtLater
    <3>2. Current(c) \in Calls /\ Len(conn[Current(c)].opened) < 3
      BY <1>1, <3>1, CurrentCall DEF IInv, Calling
    <3> QED BY <3>1, <3>2 DEF ConnsLater, Current
  <2>3. ASSUME at'[c] \notin {"idle", "dial"}
        PROVE  conn'[<<c, calls'[c]>>].state # "none"
    <3>1. at[c] \notin {"idle", "dial"} /\ calls[c] >= 1 /\ calls'[c] = calls[c]
      BY <2>1, <2>3 DEF AtLater
    <3>2. Current(c) \in Calls /\ conn[Current(c)].state # "none"
      BY <1>1, <3>1, CurrentCall DEF IInv, Calling
    <3> QED BY <3>1, <3>2 DEF ConnsLater, Current
  <2> QED BY <2>1, <2>2, <2>3
<1> QED BY <1>2, <1>3, <1>4

LEMMA ServerKeeps ==
  ASSUME IInv, ConnsLater, UNCHANGED serverVars
  PROVE  Known' /\ Once'
<1>1. UNCHANGED <<backlog, listener, peeked, session>>
  BY DEF serverVars
<1>2. \A i \in 1 .. Len(backlog) : backlog[i] \in Calls
  BY DEF IInv, TypeOK
<1>3. Known'
  BY <1>1 DEF IInv, Known, Waiting, Busy, ConnsLater
<1>4. Once'
  BY <1>1, <1>2 DEF IInv, Once, Known, Waiting, Busy, ConnsLater
<1> QED BY <1>3, <1>4

\* Nothing new is told.
LEMMA ToldKept ==
  ASSUME IInv, \A k \in Calls : conn'[k].told = conn[k].told
  PROVE  ToldOK'
  BY DEF IInv, ConnsOK, Honest, ToldOK
-----------------------------------------------------------------------------
(* The server's material.                                                  *)

\* What get_tls_material and Stop do to the material.
LEMMA MaterialKeeps ==
  ASSUME MaterialTypeOK, Pair, get_tls_material \/ Stop
  PROVE  MaterialTypeOK' /\ Pair'
<1> USE MaterialAssumption
<1>0. CASE UseProvided
  <2>1. OwnPairs \subseteq 0 .. MaxPairs + 2 /\ \A p \in OwnPairs : p \notin 1 .. MaxPairs
    BY DEF OwnPairs
  <2>2. /\ tls_material' \in [certificate : 0 .. MaxPairs + 2, pkey : 0 .. MaxPairs + 2]
        /\ tls_material'.certificate \notin 1 .. MaxPairs
    BY <1>0, <2>1 DEF UseProvided
  <2> QED BY <1>0, <2>2 DEF UseProvided, MaterialTypeOK, Pair
<1>1. CASE UseSaved
  <2>1. cert_pem \in 1 .. MaxPairs /\ key_pem \in 1 .. MaxPairs /\ cert_pem = key_pem
    BY <1>1 DEF UseSaved, SavedServes, is_valid_for_sans, MaterialTypeOK, Files, Absent, Torn
  <2> QED BY <1>1, <2>1 DEF UseSaved, MaterialTypeOK, Pair
<1>2. CASE ec_self_signed
  <2> DEFINE Names == SUBSET (ExternalAddresses \union EarlierAddresses \union {"localhost"})
  <2>1. subjects \in Seq(Names) /\ (ExternalAddresses \union {"localhost"}) \in Names
    BY DEF MaterialTypeOK
  <2> HIDE DEF Names
  <2>2. /\ subjects' \in Seq(Names) /\ Len(subjects') = Len(subjects) + 1
        /\ Len(subjects) \in Nat /\ Len(subjects) < MaxPairs
    BY <1>2, <2>1 DEF ec_self_signed
  <2>3. Len(subjects') \in 1 .. MaxPairs /\ Len(subjects') \in 0 .. MaxPairs + 2
    BY <2>2
  <2>4. tls_material' \in [certificate : 0 .. MaxPairs + 2, pkey : 0 .. MaxPairs + 2] /\ Pair'
    BY <1>2, <2>3 DEF ec_self_signed, Pair
  <2> QED BY <1>2, <2>2, <2>3, <2>4 DEF ec_self_signed, MaterialTypeOK, Names
<1>3. CASE WriteCert \/ WriteKey
  <2>1. tls_material.certificate \in 1 .. MaxPairs /\ tls_material.pkey \in 1 .. MaxPairs
    BY <1>3 DEF WriteCert, WriteKey, Pair
  <2> QED BY <1>3, <2>1 DEF WriteCert, WriteKey, MaterialTypeOK, Files, Absent, Pair
<1>4. CASE Stop
  BY <1>4 DEF Stop, MaterialTypeOK, Files, Absent, Torn, NoMaterial, Pair
<1> QED BY <1>0, <1>1, <1>2, <1>3, <1>4 DEF get_tls_material

LEMMA MaterialSame ==
  ASSUME MaterialTypeOK, Pair, UNCHANGED materialVars
  PROVE  MaterialTypeOK' /\ Pair'
  BY DEF MaterialTypeOK, Pair, materialVars

LEMMA MaterialStepKeeps ==
  ASSUME IInv, MaterialStep
  PROVE  IInv'
<1>1. TypeOK /\ Pair /\ UNCHANGED <<clientVars, conn, serverVars>>
  BY DEF IInv, MaterialStep
<1>2. MaterialTypeOK' /\ Pair'
  BY <1>1, MaterialKeeps DEF MaterialStep, TypeOK
<1>3. TypeOK'
  BY <1>1, <1>2 DEF TypeOK, clientVars, serverVars
<1>4. ConnsLater /\ ToldOK' /\ AtLater
  BY <1>1, LaterSame, ToldKept DEF AtLater, clientVars
<1>5. Tokens'
  BY <1>1 DEF IInv, Tokens, clientVars, TokenOf
<1> QED BY <1>1, <1>2, <1>3, <1>4, <1>5, ClientsKeep, ServerKeeps DEF IInv

-----------------------------------------------------------------------------
(* The client.                                                             *)

LEMMA TypeOKKept ==
  ASSUME TypeOK, MaterialTypeOK', conn' \in [Calls -> ConnType],
         at' \in [Clients -> {"idle", "dial", "open", "init", "answer", "connected"}],
         calls' \in [Clients -> 0 .. MaxConnects],
         failed' \in [Clients -> 0 .. Addresses],
         auth_token' \in [Clients -> {Right, Wrong, Empty}],
         client_init' \in [Clients -> {Right, Wrong, Empty, NoInit}],
         backlog' \in Seq(Calls),
         UNCHANGED <<listener, peeked, session>>
  PROVE  TypeOK'
  BY DEF TypeOK, ConnType, StreamNames

LEMMA ConnectKeeps ==
  ASSUME IInv, NEW c \in Clients, connect(c)
  PROVE  IInv'
<1> USE ConnectionAssumption
<1>1. TypeOK /\ at[c] = "idle" /\ calls[c] < MaxConnects /\ calls' = [calls EXCEPT ![c] = @ + 1]
  BY DEF IInv, connect
<1>2. at' = [at EXCEPT ![c] = "dial"] \/ at' = [at EXCEPT ![c] = "idle"]
  BY DEF connect, build_sync, Fails
<1>3. UNCHANGED <<materialVars, failed, auth_token, client_init, conn, serverVars>>
  BY DEF connect
<1>4. at' \in [Clients -> {"idle", "dial", "open", "init", "answer", "connected"}]
  BY <1>1, <1>2 DEF TypeOK
<1>5. /\ calls' \in [Clients -> 0 .. MaxConnects] /\ calls'[c] = calls[c] + 1 /\ calls[c] \in Nat
      /\ \A d \in Clients : d # c => calls'[d] = calls[d] /\ at'[d] = at[d]
      /\ at'[c] \in {"dial", "idle"}
  <2>1. /\ calls \in [Clients -> 0 .. MaxConnects] /\ calls[c] \in Nat
        /\ at \in [Clients -> {"idle", "dial", "open", "init", "answer", "connected"}]
    BY <1>1, ClientTyped
  <2>2. calls' \in [Clients -> 0 .. MaxConnects] /\ calls'[c] = calls[c] + 1
    BY <1>1, <2>1
  <2> QED BY <1>1, <1>2, <2>1, <2>2
<1>6. MaterialTypeOK' /\ Pair'
  BY <1>1, <1>3, MaterialSame DEF IInv, TypeOK
<1>7. TypeOK'
  <2>1. /\ failed' = failed /\ auth_token' = auth_token /\ client_init' = client_init
        /\ backlog' = backlog /\ UNCHANGED <<listener, peeked, session>> /\ conn' = conn
    BY <1>3 DEF serverVars
  <2> QED BY <1>1, <1>4, <1>5, <1>6, <2>1, TypeOKKept, ConnTyped DEF TypeOK
<1>8. ConnsLater
  BY <1>1, <1>3, LaterSame
<1>9. ConnsOK' /\ Tokens'
  BY <1>3 DEF IInv, ConnsOK, Ordered, Honest, Tokens, TokenOf
<1>10. Fresh'
  <2> SUFFICES ASSUME NEW k \in Calls, Undialled(k)'
               PROVE  conn[k] = Closed
    BY <1>3 DEF Fresh
  <2>1. k[1] \in Clients /\ k[2] \in Nat /\ calls[k[1]] \in Nat
    <3>1. k[1] \in Clients /\ k[2] \in 1 .. MaxConnects
      BY CallParts
    <3> QED BY <1>1, <3>1, ClientTyped
  <2>2. Undialled(k)
    BY <1>5, <2>1 DEF Undialled
  <2> QED BY <2>2 DEF IInv, Fresh
<1>11. Calling'
  <2> SUFFICES ASSUME NEW d \in Clients
               PROVE  /\ at'[d] # "idle" => calls'[d] >= 1
                      /\ at'[d] = "open" => Len(conn'[<<d, calls'[d]>>].opened) < 3
                      /\ at'[d] \notin {"idle", "dial"} => conn'[<<d, calls'[d]>>].state # "none"
    BY DEF Calling, Current
  <2>1. CASE d = c
    BY <1>5, <2>1
  <2>2. CASE d # c
    BY <1>3, <1>5, <2>2 DEF IInv, Calling, Current
  <2> QED BY <2>1, <2>2
<1>12. Known' /\ Once'
  BY <1>3, <1>8, ServerKeeps
<1> QED BY <1>6, <1>7, <1>9, <1>10, <1>11, <1>12 DEF IInv

\* A call returns without a step of its connection.
LEMMA ReturnKeeps ==
  ASSUME IInv, NEW c \in Clients, at[c] # "idle",
         \/ at' = [at EXCEPT ![c] = "idle"] \/ at' = at
         \/ at[c] = "answer" /\ at' = [at EXCEPT ![c] = "connected"],
         ConnsLater, ToldOK', Tokens',
         auth_token' \in [Clients -> {Right, Wrong, Empty}],
         client_init' \in [Clients -> {Right, Wrong, Empty, NoInit}],
         failed' \in [Clients -> 0 .. Addresses],
         UNCHANGED <<materialVars, calls, serverVars>>
  PROVE  IInv'
<1>1. TypeOK
  BY DEF IInv
<1>2. AtLater /\ at' \in [Clients -> {"idle", "dial", "open", "init", "answer", "connected"}]
  BY <1>1 DEF AtLater, TypeOK
<1>3. MaterialTypeOK' /\ Pair'
  BY <1>1, MaterialSame DEF IInv, TypeOK
<1>4. conn' \in [Calls -> ConnType] /\ backlog' \in Seq(Calls) /\ UNCHANGED <<listener, peeked, session>>
      /\ calls' \in [Clients -> 0 .. MaxConnects]
  BY <1>1 DEF ConnsLater, serverVars, TypeOK
<1>5. TypeOK'
  BY <1>1, <1>2, <1>3, <1>4, TypeOKKept
<1> QED BY <1>2, <1>3, <1>5, ClientsKeep, ServerKeeps DEF IInv

\* An address answers: the connection is made, and waits for accept.
LEMMA DialledKeeps ==
  ASSUME IInv, NEW c \in Clients, at[c] = "dial",
         NEW k \in Calls, k = Current(c), conn[k].state = "none",
         NEW r \in ConnType, r.state = "open", r.opened = << >>, r.accepted = << >>,
         r.init = NoInit, r.told = << >>,
         conn' \in [Calls -> ConnType], conn'[k] = r,
         \A j \in Calls : j # k => conn'[j] = conn[j],
         backlog' \in Seq(Calls), NEW n \in Nat, n = Len(backlog),
         Len(backlog') = n + 1, backlog'[n + 1] = k,
         \A i \in 1 .. n : backlog'[i] = backlog[i] /\ backlog[i] \in Calls,
         at' = [at EXCEPT ![c] = "open"],
         failed' = [failed EXCEPT ![c] = 0],
         UNCHANGED <<materialVars, calls, auth_token, client_init, listener, peeked, session>>
  PROVE  IInv'
<1> USE ConnectionAssumption
<1>1. TypeOK /\ calls[c] >= 1
  BY DEF IInv, Calling
<1>2. k[1] = c /\ k[2] = calls[c]
  BY <1>1, CurrentCall
<1>3. Len(r.opened) = 0 /\ Len(r.accepted) = 0 /\ Len(r.told) = 0
  OBVIOUS
<1>7. /\ at' \in [Clients -> {"idle", "dial", "open", "init", "answer", "connected"}]
      /\ at'[c] = "open" /\ \A d \in Clients : d # c => at'[d] = at[d]
      /\ failed' \in [Clients -> 0 .. Addresses]
  BY <1>1, ClientTyped
<1>10. \A i \in 1 .. n : backlog[i] # k
  BY DEF IInv, Known, Waiting
<1>11. MaterialTypeOK' /\ Pair'
  BY <1>1, MaterialSame DEF IInv, TypeOK
<1>12. TypeOK'
  <2>1. /\ calls' \in [Clients -> 0 .. MaxConnects]
        /\ auth_token' \in [Clients -> {Right, Wrong, Empty}]
        /\ client_init' \in [Clients -> {Right, Wrong, Empty, NoInit}]
    BY <1>1 DEF TypeOK
  <2> QED BY <1>1, <1>7, <1>11, <2>1, TypeOKKept
<1>13. ConnsOK'
  <2> SUFFICES ASSUME NEW j \in Calls
               PROVE  Ordered(conn'[j]) /\ Honest(j[1], conn'[j])
    BY DEF ConnsOK, Ordered, Honest, ClientStreams, ServerStreams, TokenOf
  <2>1. CASE j = k
    <3>1. Ordered(r)
      BY <1>3 DEF Ordered
    <3>2. Honest(c, r)
      BY <1>3 DEF Honest
    <3> QED BY <1>2, <2>1, <3>1, <3>2
  <2>2. CASE j # k
    BY <2>2 DEF IInv, ConnsOK
  <2> QED BY <2>1, <2>2
<1>14. Tokens'
  BY DEF IInv, Tokens, TokenOf
<1>15. Fresh'
  <2> SUFFICES ASSUME NEW j \in Calls, Undialled(j)'
               PROVE  conn'[j] = Closed
    BY DEF Fresh, Closed
  <2>1. j[1] \in Clients /\ calls'[j[1]] = calls[j[1]] /\ calls[j[1]] \in Nat
    BY <1>1, CallParts, ClientTyped
  <2>2. Undialled(j)
    BY <1>7, <2>1 DEF Undialled
  <2>3. j # k
    BY <1>2, <1>7, <2>1 DEF Undialled
  <2> QED BY <2>2, <2>3 DEF IInv, Fresh
<1>16. Calling'
  <2> SUFFICES ASSUME NEW d \in Clients
               PROVE  /\ at'[d] # "idle" => calls'[d] >= 1
                      /\ at'[d] = "open" => Len(conn'[<<d, calls'[d]>>].opened) < 3
                      /\ at'[d] \notin {"idle", "dial"} => conn'[<<d, calls'[d]>>].state # "none"
    BY DEF Calling, Current
  <2>1. CASE d = c
    <3>1. conn'[<<c, calls'[c]>>] = r
      BY DEF Current
    <3> QED BY <1>1, <1>3, <2>1, <3>1
  <2>2. CASE d # c
    <3>1. at'[d] # "idle" => calls[d] >= 1
      BY <1>7, <2>2 DEF IInv, Calling
    <3>2. ASSUME at'[d] = "open"
          PROVE  Len(conn'[<<d, calls[d]>>].opened) < 3
      <4>1. Current(d) \in Calls /\ Current(d)[1] = d
        BY <1>1, <3>1, <3>2, CurrentCall
      <4>2. conn'[Current(d)] = conn[Current(d)]
        BY <1>2, <2>2, <4>1
      <4> QED BY <1>7, <2>2, <3>2, <4>2 DEF IInv, Calling, Current
    <3>3. ASSUME at'[d] \notin {"idle", "dial"}
          PROVE  conn'[<<d, calls[d]>>].state # "none"
      <4>1. Current(d) \in Calls /\ Current(d)[1] = d
        BY <1>1, <3>1, <3>3, CurrentCall
      <4>2. conn'[Current(d)] = conn[Current(d)]
        BY <1>2, <2>2, <4>1
      <4> QED BY <1>7, <2>2, <3>3, <4>2 DEF IInv, Calling, Current
    <3> QED BY <3>1, <3>2, <3>3
  <2> QED BY <2>1, <2>2
<1>17. Known'
  <2>1. \A j \in Calls : Waiting(j)' => j = k \/ Waiting(j)
    BY DEF Waiting
  <2> QED BY <2>1 DEF IInv, Known, Busy
<1>18. Once'
  <2>1. \A i, j \in 1 .. n + 1 : backlog'[i] = backlog'[j] => i = j
    BY <1>10 DEF IInv, Once
  <2>2. \A i \in 1 .. n + 1 : conn'[backlog'[i]].accepted = << >>
    <3> SUFFICES ASSUME NEW i \in 1 .. n + 1
                 PROVE  conn'[backlog'[i]].accepted = << >>
      OBVIOUS
    <3>1. CASE i = n + 1
      BY <3>1
    <3>2. CASE i \in 1 .. n
      <4>1. backlog'[i] = backlog[i] /\ conn'[backlog[i]] = conn[backlog[i]]
        BY <1>10, <3>2
      <4> QED BY <3>2, <4>1 DEF IInv, Once
    <3> QED BY <3>1, <3>2
  <2>3. Busy => listener.conn \in Calls /\ listener.conn # k
    BY DEF IInv, Known
  <2>4. Busy => \A i \in 1 .. n + 1 : backlog'[i] # listener.conn
    BY <2>3 DEF IInv, Once, Waiting
  <2>5. listener.at = "streams" => Len(conn'[listener.conn].accepted) < 3
    BY <2>3 DEF IInv, Once, Busy
  <2> QED BY <2>1, <2>2, <2>4, <2>5 DEF IInv, Once, Waiting, Busy
<1> QED BY <1>11, <1>12, <1>13, <1>14, <1>15, <1>16, <1>17, <1>18 DEF IInv

LEMMA DoConnectKeeps ==
  ASSUME IInv, NEW c \in Clients, do_connect(c)
  PROVE  IInv'
<1> USE ConnectionAssumption
<1>1. TypeOK /\ at[c] = "dial"
      /\ UNCHANGED <<materialVars, calls, auth_token, client_init, listener, peeked, session>>
  BY DEF IInv, do_connect
<1>2. CASE /\ conn' = [conn EXCEPT ![Current(c)].state = "open"]
           /\ backlog' = Append(backlog, Current(c))
           /\ at' = [at EXCEPT ![c] = "open"]
           /\ failed' = [failed EXCEPT ![c] = 0]
  <2>1. calls[c] >= 1
    BY <1>1 DEF IInv, Calling
  <2>2. PICK k \in Calls : k = Current(c) /\ k[1] = c /\ k[2] = calls[c]
    BY <1>1, <2>1, CurrentCall
  <2>3. conn[k] = Closed /\ conn[k].state = "none"
    BY <1>1, <2>2 DEF IInv, Fresh, Undialled, Closed
  <2>4. PICK r \in ConnType :
          /\ r = [conn[k] EXCEPT !.state = "open"]
          /\ r.state = "open" /\ r.opened = << >> /\ r.accepted = << >>
          /\ r.init = NoInit /\ r.told = << >>
    <3> DEFINE q == [conn[k] EXCEPT !.state = "open"]
    <3>1. /\ q \in ConnType /\ q.state = "open" /\ q.opened = << >> /\ q.accepted = << >>
          /\ q.init = NoInit /\ q.told = << >>
      BY <1>1, <2>3, ConnTyped DEF Closed, ConnType
    <3> QED BY <3>1
  <2>5. conn' = [conn EXCEPT ![k] = r]
    BY <1>1, <1>2, <2>2, <2>4, ConnTyped
  <2>6. /\ conn' \in [Calls -> ConnType] /\ conn'[k] = r
        /\ \A j \in Calls : j # k => conn'[j] = conn[j]
    BY <1>1, <2>4, <2>5, SetField
  <2>7. backlog \in Seq(Calls) /\ backlog' = Append(backlog, k)
    BY <1>1, <1>2, <2>2 DEF TypeOK
  <2>8. PICK n \in Nat : n = Len(backlog)
    BY <2>7
  <2>9. /\ backlog' \in Seq(Calls) /\ Len(backlog') = n + 1 /\ backlog'[n + 1] = k
        /\ \A i \in 1 .. n : backlog'[i] = backlog[i] /\ backlog[i] \in Calls
    BY <2>7, <2>8
  <2>10. /\ at' = [at EXCEPT ![c] = "open"] /\ failed' = [failed EXCEPT ![c] = 0]
         /\ conn[k].state = "none" /\ k = Current(c) /\ at[c] = "dial"
    BY <1>1, <1>2, <2>2, <2>3
  <2> QED BY <1>1, <2>4, <2>6, <2>8, <2>9, <2>10, DialledKeeps
<1>3. CASE /\ failed' = [failed EXCEPT ![c] = (@ + 1) % Addresses]
           /\ at' = at \/ at' = [at EXCEPT ![c] = "idle"]
           /\ UNCHANGED <<conn, backlog>>
  <2>1. failed' \in [Clients -> 0 .. Addresses]
    <3>1. failed \in [Clients -> 0 .. Addresses]
      BY <1>1, ClientTyped
    <3>2. (failed[c] + 1) % Addresses \in 0 .. Addresses
      BY <3>1
    <3> QED BY <1>3, <3>1, <3>2
  <2>2. ConnsLater /\ ToldOK'
    BY <1>1, <1>3, LaterSame, ToldKept
  <2>3. Tokens'
    BY <1>1 DEF IInv, Tokens, TokenOf
  <2>4. /\ auth_token' \in [Clients -> {Right, Wrong, Empty}]
        /\ client_init' \in [Clients -> {Right, Wrong, Empty, NoInit}]
    BY <1>1 DEF TypeOK
  <2> QED BY <1>1, <1>3, <2>1, <2>2, <2>3, <2>4, ReturnKeeps DEF serverVars
<1> QED BY <1>2, <1>3 DEF do_connect, Fails

\* A client opens a stream of its connection, or sends its ClientInit over it.
LEMMA OwnKeeps ==
  ASSUME IInv, NEW c \in Clients, at[c] \in {"open", "init"},
         NEW k \in Calls, k = Current(c), conn[k].state = "open",
         NEW r \in ConnType, r.state = "open", r.accepted = conn[k].accepted,
         Ordered(r), Honest(c, r),
         conn' \in [Calls -> ConnType], conn'[k] = r,
         \A j \in Calls : j # k => conn'[j] = conn[j],
         NEW a \in {"open", "init", "answer"}, at' = [at EXCEPT ![c] = a],
         a = "open" => Len(r.opened) < 3,
         auth_token' \in [Clients -> {Right, Wrong, Empty}],
         client_init' \in [Clients -> {Right, Wrong, Empty, NoInit}], Tokens',
         UNCHANGED <<materialVars, calls, failed, serverVars>>
  PROVE  IInv'
<1> USE ConnectionAssumption
<1>1. TypeOK /\ calls[c] >= 1
  BY DEF IInv, Calling
<1>2. k[1] = c /\ k[2] = calls[c]
  BY <1>1, CurrentCall
<1>3. /\ at' \in [Clients -> {"idle", "dial", "open", "init", "answer", "connected"}]
      /\ at'[c] = a /\ \A d \in Clients : d # c => at'[d] = at[d]
  BY <1>1, ClientTyped
<1>4. MaterialTypeOK' /\ Pair'
  BY <1>1, MaterialSame DEF IInv, TypeOK
<1>5. TypeOK'
  <2>1. /\ calls' \in [Clients -> 0 .. MaxConnects] /\ failed' \in [Clients -> 0 .. Addresses]
        /\ backlog' \in Seq(Calls) /\ UNCHANGED <<listener, peeked, session>>
    BY <1>1 DEF TypeOK, serverVars
  <2> QED BY <1>1, <1>3, <1>4, <2>1, TypeOKKept
<1>6. ConnsOK'
  <2> SUFFICES ASSUME NEW j \in Calls
               PROVE  Ordered(conn'[j]) /\ Honest(j[1], conn'[j])
    BY DEF ConnsOK, Ordered, Honest, ClientStreams, ServerStreams, TokenOf
  <2>1. CASE j = k
    BY <1>2, <2>1
  <2>2. CASE j # k
    BY <2>2 DEF IInv, ConnsOK
  <2> QED BY <2>1, <2>2
<1>7. Fresh'
  <2> SUFFICES ASSUME NEW j \in Calls, Undialled(j)'
               PROVE  conn'[j] = Closed
    BY DEF Fresh, Closed
  <2>1. j[1] \in Clients /\ calls'[j[1]] = calls[j[1]]
    BY CallParts
  <2>2. Undialled(j)
    BY <1>3, <2>1 DEF Undialled
  <2>3. conn[j] = Closed
    BY <2>2 DEF IInv, Fresh
  <2>4. j # k
    BY <2>3 DEF Closed
  <2> QED BY <2>3, <2>4
<1>8. Calling'
  <2> SUFFICES ASSUME NEW d \in Clients
               PROVE  /\ at'[d] # "idle" => calls'[d] >= 1
                      /\ at'[d] = "open" => Len(conn'[<<d, calls'[d]>>].opened) < 3
                      /\ at'[d] \notin {"idle", "dial"} => conn'[<<d, calls'[d]>>].state # "none"
    BY DEF Calling, Current
  <2>1. CASE d = c
    <3>1. conn'[<<c, calls'[c]>>] = r
      BY DEF Current
    <3> QED BY <1>1, <1>3, <2>1, <3>1
  <2>2. CASE d # c
    <3>1. at'[d] # "idle" => calls[d] >= 1
      BY <1>3, <2>2 DEF IInv, Calling
    <3>2. ASSUME at'[d] = "open"
          PROVE  Len(conn'[<<d, calls[d]>>].opened) < 3
      <4>1. Current(d) \in Calls /\ Current(d)[1] = d
        BY <1>1, <3>1, <3>2, CurrentCall
      <4>2. conn'[Current(d)] = conn[Current(d)]
        BY <1>2, <2>2, <4>1
      <4> QED BY <1>3, <2>2, <3>2, <4>2 DEF IInv, Calling, Current
    <3>3. ASSUME at'[d] \notin {"idle", "dial"}
          PROVE  conn'[<<d, calls[d]>>].state # "none"
      <4>1. Current(d) \in Calls /\ Current(d)[1] = d
        BY <1>1, <3>1, <3>3, CurrentCall
      <4>2. conn'[Current(d)] = conn[Current(d)]
        BY <1>2, <2>2, <4>1
      <4> QED BY <1>3, <2>2, <3>3, <4>2 DEF IInv, Calling, Current
    <3> QED BY <3>1, <3>2, <3>3
  <2> QED BY <2>1, <2>2
<1>9. Known' /\ Once'
  <2>1. UNCHANGED <<backlog, listener, peeked, session>>
    BY DEF serverVars
  <2>2. \A j \in Calls : /\ conn[j].state # "none" => conn'[j].state # "none"
                         /\ conn'[j].accepted = conn[j].accepted
    OBVIOUS
  <2>3. \A i \in 1 .. Len(backlog) : backlog[i] \in Calls
    BY <1>1 DEF TypeOK
  <2>4. Known'
    BY <2>1, <2>2 DEF IInv, Known, Waiting, Busy
  <2>5. Once'
    BY <2>1, <2>2, <2>3 DEF IInv, Once, Known, Waiting, Busy
  <2> QED BY <2>4, <2>5
<1> QED BY <1>4, <1>5, <1>6, <1>7, <1>8, <1>9 DEF IInv

\* A stream more, in its place.
LEMMA StreamOpened ==
  ASSUME NEW r \in ConnType, Ordered(r), Len(r.opened) < 3,
         NEW q, q = [r EXCEPT !.opened = Append(@, ClientStreams[Len(r.opened) + 1])]
  PROVE  /\ q \in ConnType /\ Ordered(q) /\ Len(q.opened) = Len(r.opened) + 1
         /\ q.state = r.state /\ q.accepted = r.accepted /\ q.init = r.init /\ q.told = r.told
<1>1. r.opened \in Seq(StreamNames) /\ r.accepted \in Seq(StreamNames)
  BY DEF ConnType
<1>2. PICK n \in Nat : n = Len(r.opened) /\ n < 3
  BY <1>1
<1>3. ClientStreams[n + 1] \in StreamNames
  BY <1>2, Streams
<1>4. q.opened = Append(r.opened, ClientStreams[n + 1])
  BY <1>2 DEF ConnType
<1>5. /\ q.opened \in Seq(StreamNames) /\ Len(q.opened) = n + 1
      /\ \A i \in 1 .. n : q.opened[i] = r.opened[i]
      /\ q.opened[n + 1] = ClientStreams[n + 1]
  BY <1>1, <1>2, <1>3, <1>4
<1>6. q.state = r.state /\ q.accepted = r.accepted /\ q.init = r.init /\ q.told = r.told
  BY DEF ConnType
<1>7. q \in ConnType
  BY <1>2, <1>4, <1>5 DEF ConnType
<1>8. Ordered(q)
  <2>1. Len(q.opened) <= 3 /\ Len(q.accepted) <= Len(q.opened)
    BY <1>1, <1>2, <1>5, <1>6 DEF Ordered
  <2>2. \A i \in 1 .. n + 1 : q.opened[i] = ClientStreams[i]
    BY <1>2, <1>5 DEF Ordered
  <2> QED BY <1>5, <1>6, <2>1, <2>2 DEF Ordered
<1> QED BY <1>2, <1>5, <1>6, <1>7, <1>8

LEMMA OpenKeeps ==
  ASSUME IInv, NEW c \in Clients, open_bidirectional_stream(c)
  PROVE  IInv'
<1>1. /\ TypeOK /\ at[c] = "open" /\ calls[c] >= 1 /\ Len(conn[Current(c)].opened) < 3
      /\ UNCHANGED <<materialVars, calls, failed, auth_token, client_init, serverVars>>
  BY DEF IInv, Calling, open_bidirectional_stream
<1>2. PICK k \in Calls : k = Current(c) /\ k[1] = c /\ conn[k] \in ConnType
  BY <1>1, CurrentCall
<1>3. /\ auth_token' \in [Clients -> {Right, Wrong, Empty}]
      /\ client_init' \in [Clients -> {Right, Wrong, Empty, NoInit}] /\ Tokens'
  BY <1>1 DEF IInv, TypeOK, Tokens, TokenOf
<1>4. CASE /\ Open(k)
           /\ conn' = [conn EXCEPT ![k].opened = Append(@, ClientStreams[Len(conn[k].opened) + 1])]
           /\ at' = [at EXCEPT ![c] = IF Len(conn[k].opened) + 1 = Len(ClientStreams) THEN "init" ELSE @]
  <2>1. Ordered(conn[k]) /\ Honest(c, conn[k]) /\ conn[k].opened \in Seq(StreamNames)
    BY <1>2 DEF IInv, ConnsOK, ConnType
  <2>2. PICK r : r = [conn[k] EXCEPT !.opened = Append(@, ClientStreams[Len(conn[k].opened) + 1])]
    OBVIOUS
  <2>3. /\ r \in ConnType /\ Ordered(r) /\ Len(r.opened) = Len(conn[k].opened) + 1
        /\ r.state = conn[k].state /\ r.accepted = conn[k].accepted /\ r.init = conn[k].init
        /\ r.told = conn[k].told
    BY <1>1, <1>2, <2>1, <2>2, StreamOpened
  <2>4. conn' = [conn EXCEPT ![k] = r]
    BY <1>1, <1>4, <2>2, ConnTyped
  <2>5. /\ conn' \in [Calls -> ConnType] /\ conn'[k] = r
        /\ \A j \in Calls : j # k => conn'[j] = conn[j]
    BY <1>1, <2>3, <2>4, SetField
  <2>6. Honest(c, r) /\ r.state = "open"
    BY <1>4, <2>1, <2>3 DEF Honest, Open
  <2>7. PICK a \in {"open", "init"} : at' = [at EXCEPT ![c] = a] /\ (a = "open" => Len(r.opened) < 3)
    <3>1. Len(r.opened) \in Nat /\ Len(r.opened) <= 3
      BY <2>3 DEF Ordered, ConnType
    <3>2. CASE Len(r.opened) = 3
      BY <1>4, <2>3, <3>2, Streams
    <3>3. CASE Len(r.opened) # 3
      BY <1>1, <1>4, <2>3, <3>1, <3>3, Streams
    <3> QED BY <3>2, <3>3
  <2>8. conn[k].state = "open"
    BY <1>4 DEF Open
  <2> QED BY <1>1, <1>2, <1>3, <2>3, <2>5, <2>6, <2>7, <2>8, OwnKeeps
<1>5. CASE ~Open(k) /\ Fails(c) /\ UNCHANGED conn
  <2>1. ConnsLater /\ ToldOK'
    BY <1>1, <1>5, LaterSame, ToldKept
  <2>2. at' = [at EXCEPT ![c] = "idle"] /\ failed' \in [Clients -> 0 .. Addresses]
    BY <1>1, <1>5, ClientTyped DEF Fails
  <2> QED BY <1>1, <1>3, <2>1, <2>2, ReturnKeeps
<1> QED BY <1>2, <1>4, <1>5 DEF open_bidirectional_stream

LEMMA SendKeeps ==
  ASSUME IInv, NEW c \in Clients, SendClientInit(c)
  PROVE  IInv'
<1>1. /\ TypeOK /\ at[c] = "init" /\ calls[c] >= 1
      /\ UNCHANGED <<materialVars, calls, failed, serverVars>>
  BY DEF IInv, Calling, SendClientInit
<1>2. PICK k \in Calls : k = Current(c) /\ k[1] = c /\ conn[k] \in ConnType
  BY <1>1, CurrentCall
<1>3. TokenOf(c) \in {Right, Wrong} /\ TokenOf(c) # NoInit
  BY DEF TokenOf, Right, Wrong, NoInit
<1>4. /\ client_init' = [client_init EXCEPT ![c] = IF @ = NoInit THEN auth_token[c] ELSE @]
      /\ auth_token' = [auth_token EXCEPT ![c] = Empty]
      /\ auth_token \in [Clients -> {Right, Wrong, Empty}]
      /\ client_init \in [Clients -> {Right, Wrong, Empty, NoInit}]
  BY <1>1 DEF SendClientInit, get_init, TypeOK
<1>5. client_init'[c] = TokenOf(c) /\ \A d \in Clients : d # c => client_init'[d] = client_init[d] /\ auth_token'[d] = auth_token[d]
  BY <1>4 DEF IInv, Tokens
<1>6. /\ auth_token' \in [Clients -> {Right, Wrong, Empty}]
      /\ client_init' \in [Clients -> {Right, Wrong, Empty, NoInit}]
  BY <1>4
<1>7. Tokens'
  <2> SUFFICES ASSUME NEW d \in Clients
               PROVE  /\ client_init'[d] \in {NoInit, TokenOf(d)}
                      /\ client_init'[d] = NoInit => auth_token'[d] = TokenOf(d)
    BY DEF Tokens, TokenOf
  <2>1. CASE d = c
    BY <1>3, <1>5, <2>1
  <2>2. CASE d # c
    BY <1>5, <2>2 DEF IInv, Tokens
  <2> QED BY <2>1, <2>2
<1>8. CASE Open(k)
  <2>1. conn' = [conn EXCEPT ![k].init = client_init'[c]] /\ at' = [at EXCEPT ![c] = "answer"]
    BY <1>2, <1>8 DEF SendClientInit
  <2>2. PICK r : r = [conn[k] EXCEPT !.init = TokenOf(c)]
    OBVIOUS
  <2>3. /\ r \in ConnType /\ r.state = conn[k].state /\ r.opened = conn[k].opened
        /\ r.accepted = conn[k].accepted /\ r.init = TokenOf(c) /\ r.told = conn[k].told
    BY <1>2, <1>3, <2>2 DEF ConnType
  <2>4. conn' = [conn EXCEPT ![k] = r]
    BY <1>1, <1>5, <2>1, <2>2, ConnTyped
  <2>5. /\ conn' \in [Calls -> ConnType] /\ conn'[k] = r
        /\ \A j \in Calls : j # k => conn'[j] = conn[j]
    BY <1>1, <2>3, <2>4, SetField
  <2>6. Ordered(r) /\ Honest(c, r)
    <3>1. Ordered(conn[k]) /\ Honest(c, conn[k])
      BY <1>2 DEF IInv, ConnsOK
    <3> QED BY <2>3, <3>1 DEF Ordered, Honest
  <2>7. conn[k].state = "open"
    BY <1>8 DEF Open
  <2>8. PICK a \in {"open", "init", "answer"} :
          at' = [at EXCEPT ![c] = a] /\ (a = "open" => Len(r.opened) < 3)
    BY <2>1
  <2>9. r.state = "open" /\ at[c] \in {"open", "init"}
    BY <1>1, <2>3, <2>7
  <2> QED BY <1>1, <1>2, <1>6, <1>7, <2>3, <2>5, <2>6, <2>7, <2>8, <2>9, OwnKeeps
<1>9. CASE ~Open(k)
  <2>1. at' = [at EXCEPT ![c] = "idle"] /\ UNCHANGED conn
    BY <1>2, <1>9 DEF SendClientInit, Fails
  <2>2. ConnsLater /\ ToldOK' /\ failed' \in [Clients -> 0 .. Addresses]
    BY <1>1, <2>1, LaterSame, ToldKept, ClientTyped
  <2> QED BY <1>1, <1>6, <1>7, <2>1, <2>2, ReturnKeeps
<1> QED BY <1>8, <1>9

\* A call returns, and its connection may end with it.
LEMMA AnswerKeeps ==
  ASSUME IInv, NEW c \in Clients, ReceiveAnswer(c) \/ Leave(c)
  PROVE  IInv'
<1>1. /\ TypeOK /\ at[c] \in {"answer", "connected"} /\ calls[c] >= 1
      /\ UNCHANGED <<materialVars, calls, failed, auth_token, client_init, serverVars>>
  BY DEF IInv, Calling, ReceiveAnswer, Leave
<1>2. PICK k \in Calls : k = Current(c) /\ k[1] = c /\ k[2] = calls[c]
  BY <1>1, CurrentCall
<1>3. at' = [at EXCEPT ![c] = "idle"] \/ (at[c] = "answer" /\ at' = [at EXCEPT ![c] = "connected"])
  BY DEF ReceiveAnswer, ReceiveServerInit, Leave, Fails
<1>4. UNCHANGED conn \/ Close(k)
  BY <1>2 DEF ReceiveAnswer, ReceiveServerInit, Leave
<1>5. conn[k].state # "none"
  BY <1>1, <1>2 DEF IInv, Calling
<1>6. ConnsLater /\ ToldOK'
  BY <1>1, <1>4, <1>5, LaterSame, LaterClose, ToldKept
<1>7. /\ auth_token' \in [Clients -> {Right, Wrong, Empty}]
      /\ client_init' \in [Clients -> {Right, Wrong, Empty, NoInit}] /\ Tokens'
      /\ failed' \in [Clients -> 0 .. Addresses]
  BY <1>1 DEF IInv, TypeOK, Tokens, TokenOf
<1> QED BY <1>1, <1>3, <1>6, <1>7, ReturnKeeps

\* QUIC gives a connection up.
LEMMA LoseKeeps ==
  ASSUME IInv, NEW k \in Calls, Lose(k)
  PROVE  IInv'
<1>1. /\ TypeOK /\ Pair /\ conn[k].state # "none" /\ Close(k) /\ UNCHANGED <<clientVars, serverVars>>
      /\ faults' = faults + 1 /\ faults < MaxFaults
      /\ UNCHANGED <<cert_pem, key_pem, tls_material, subjects, starting>>
  BY DEF IInv, Lose, Open
<1>2. MaterialTypeOK' /\ Pair'
  BY <1>1, MaterialAssumption DEF TypeOK, MaterialTypeOK, Pair
<1>3. ConnsLater /\ ToldOK'
  BY <1>1, LaterClose, ToldKept
<1>4. AtLater /\ Tokens'
  BY <1>1 DEF IInv, AtLater, Tokens, TokenOf, clientVars
<1>5. TypeOK'
  <2>1. conn' \in [Calls -> ConnType]
    BY <1>3 DEF ConnsLater
  <2> QED BY <1>1, <1>2, <2>1 DEF TypeOK, ConnType, StreamNames, clientVars, serverVars
<1> QED BY <1>1, <1>2, <1>3, <1>4, <1>5, ClientsKeep, ServerKeeps DEF IInv

-----------------------------------------------------------------------------
(* The server.                                                             *)

\* What a step of the server leaves to be shown.
LEMMA ServerStepKeeps ==
  ASSUME IInv, ConnsLater, ToldOK', UNCHANGED clientVars,
         MaterialTypeOK' /\ Pair',
         backlog' \in Seq(Calls),
         listener' \in [at : {"down", "accept", "streams", "init", "refuse"},
                        conn : Calls \union {NoCall}],
         peeked' \in Calls \union {NoCall},
         session' \in [conn : Calls \union {NoCall}, answered : BOOLEAN],
         Known', Once'
  PROVE  IInv'
<1>1. TypeOK'
  <2>1. conn' \in [Calls -> ConnType]
    BY DEF ConnsLater
  <2> QED BY <2>1 DEF IInv, TypeOK, ConnType, StreamNames, clientVars
<1>2. AtLater /\ Tokens'
  BY DEF IInv, AtLater, Tokens, TokenOf, clientVars
<1> QED BY <1>1, <1>2, ClientsKeep DEF IInv

LEMMA ServerTyped ==
  ASSUME TypeOK
  PROVE  /\ backlog \in Seq(Calls) /\ \A i \in 1 .. Len(backlog) : backlog[i] \in Calls
         /\ listener \in [at : {"down", "accept", "streams", "init", "refuse"},
                          conn : Calls \union {NoCall}]
         /\ peeked \in Calls \union {NoCall}
         /\ session \in [conn : Calls \union {NoCall}, answered : BOOLEAN]
<1>1. backlog \in Seq(Calls)
  BY DEF TypeOK
<1> QED BY <1>1 DEF TypeOK

\* A step that leaves the backlog, and does not busy the listener.
LEMMA ListenerRests ==
  ASSUME IInv, ConnsLater, UNCHANGED backlog,
         listener'.at \in {"down", "accept"}, listener'.conn = NoCall,
         \A k \in Calls : k \in {peeked', session'.conn} => k \in {listener.conn, peeked, session.conn},
         session'.answered => session'.conn \in Calls
  PROVE  Known' /\ Once'
<1>1. \A i \in 1 .. Len(backlog) : backlog[i] \in Calls
  BY ServerTyped DEF IInv
<1>2. ~Busy'
  BY DEF Busy
<1>3. Known'
  BY <1>2, NoCallIsNone DEF IInv, Known, Waiting, ConnsLater
<1>4. Once'
  BY <1>1, <1>2 DEF IInv, Once, Waiting, ConnsLater
<1> QED BY <1>3, <1>4

LEMMA ListenKeeps ==
  ASSUME IInv, Listen \/ TakeSession \/ EndSession
  PROVE  IInv'
<1>1. TypeOK /\ UNCHANGED <<clientVars, backlog>> /\ MaterialTypeOK' /\ Pair'
  <2>1. TypeOK /\ MaterialTypeOK /\ Pair /\ UNCHANGED <<clientVars, backlog>>
    BY DEF IInv, TypeOK, Listen, TakeSession, EndSession
  <2>2. CASE UNCHANGED materialVars
    BY <2>1, <2>2, MaterialSame
  <2>3. CASE /\ starting' = "down" /\ tls_material' = NoMaterial
             /\ UNCHANGED <<cert_pem, key_pem, subjects, faults>>
    BY <2>1, <2>3, MaterialAssumption DEF MaterialTypeOK, Pair, NoMaterial, Absent
  <2> QED BY <2>1, <2>2, <2>3 DEF Listen, TakeSession, EndSession
<1>5. ASSUME Listen, listener' = listener
      PROVE  IInv'
  <2>1. UNCHANGED <<conn, listener, peeked, session>>
    BY <1>5 DEF Listen
  <2>2. ConnsLater /\ ToldOK'
    BY <1>1, <2>1, LaterSame, ToldKept
  <2>3. Known' /\ Once'
    BY <1>1, <2>1, <2>2, ServerKeeps DEF serverVars
  <2>4. backlog' \in Seq(Calls) /\ peeked' \in Calls \union {NoCall}
        /\ listener' \in [at : {"down", "accept", "streams", "init", "refuse"},
                          conn : Calls \union {NoCall}]
        /\ session' \in [conn : Calls \union {NoCall}, answered : BOOLEAN]
    BY <1>1, <2>1, ServerTyped
  <2> QED BY <1>1, <2>2, <2>3, <2>4, ServerStepKeeps
<1>2. ASSUME Listen, listener' # listener
      PROVE  IInv'
  <2>1. /\ listener' = [at |-> "accept", conn |-> NoCall] /\ UNCHANGED <<conn, peeked, session>>
    BY <1>2 DEF Listen
  <2>2. ConnsLater /\ ToldOK'
    BY <1>1, <2>1, LaterSame, ToldKept
  <2>3. Known' /\ Once'
    BY <2>1, <2>2, <1>1, ListenerRests DEF IInv, Known
  <2>4. backlog' \in Seq(Calls) /\ peeked' \in Calls \union {NoCall}
        /\ listener' \in [at : {"down", "accept", "streams", "init", "refuse"},
                          conn : Calls \union {NoCall}]
        /\ session' \in [conn : Calls \union {NoCall}, answered : BOOLEAN]
    BY <1>1, <2>1, ServerTyped
  <2> QED BY <1>1, <2>2, <2>3, <2>4, ServerStepKeeps
<1>3. CASE TakeSession
  <2>1. /\ UNCHANGED <<conn, listener>> /\ peeked' = NoCall /\ peeked \in Calls
        /\ session' = [conn |-> peeked, answered |-> FALSE]
    BY <1>1, <1>3, ServerTyped DEF TakeSession
  <2>2. ConnsLater /\ ToldOK'
    BY <1>1, <2>1, LaterSame, ToldKept
  <2>3. Known'
    BY <1>1, <2>1, <2>2, NoCallIsNone DEF IInv, Known, Waiting, Busy
  <2>4. Once'
    BY <1>1, <2>1 DEF IInv, Once, Waiting, Busy
  <2>5. backlog' \in Seq(Calls) /\ peeked' \in Calls \union {NoCall}
        /\ listener' \in [at : {"down", "accept", "streams", "init", "refuse"},
                          conn : Calls \union {NoCall}]
        /\ session' \in [conn : Calls \union {NoCall}, answered : BOOLEAN]
    BY <1>1, <2>1, ServerTyped
  <2> QED BY <1>1, <2>2, <2>3, <2>4, <2>5, ServerStepKeeps
<1>4. CASE EndSession
  <2>1. /\ UNCHANGED <<listener, peeked>> /\ session.conn \in Calls /\ Close(session.conn)
        /\ conn[session.conn].state # "none"
        /\ session' = [conn |-> NoCall, answered |-> FALSE]
    BY <1>4 DEF EndSession, NoSession, IInv, Known
  <2>2. ConnsLater /\ ToldOK'
    BY <1>1, <2>1, LaterClose, ToldKept
  <2>3. \A i \in 1 .. Len(backlog) : backlog[i] \in Calls
    BY <1>1, ServerTyped
  <2>4. Known'
    BY <1>1, <2>1, <2>2, NoCallIsNone DEF IInv, Known, Waiting, Busy, ConnsLater
  <2>5. Once'
    BY <1>1, <2>1, <2>2, <2>3 DEF IInv, Once, Known, Waiting, Busy, ConnsLater
  <2>6. backlog' \in Seq(Calls) /\ peeked' \in Calls \union {NoCall}
        /\ listener' \in [at : {"down", "accept", "streams", "init", "refuse"},
                          conn : Calls \union {NoCall}]
        /\ session' \in [conn : Calls \union {NoCall}, answered : BOOLEAN]
    BY <1>1, <2>1, ServerTyped
  <2> QED BY <1>1, <2>2, <2>4, <2>5, <2>6, ServerStepKeeps
<1> QED BY <1>2, <1>3, <1>4, <1>5

LEMMA AcceptKeeps ==
  ASSUME IInv, accept
  PROVE  IInv'
<1>1. /\ TypeOK /\ UNCHANGED <<materialVars, clientVars, conn, peeked, session>>
      /\ MaterialTypeOK' /\ Pair' /\ backlog # << >>
      /\ backlog' = Tail(backlog) /\ listener' = [at |-> "streams", conn |-> Head(backlog)]
  BY MaterialSame DEF IInv, TypeOK, accept
<1>2. backlog \in Seq(Calls)
  BY <1>1, ServerTyped
<1>3. PICK n \in Nat : n = Len(backlog) /\ n >= 1
  BY <1>1, <1>2
<1>4. PICK k \in Calls : k = backlog[1] /\ listener' = [at |-> "streams", conn |-> k]
  BY <1>1, <1>2, <1>3
<1>5. /\ backlog' \in Seq(Calls) /\ Len(backlog') = n - 1
      /\ \A i \in 1 .. n - 1 : backlog'[i] = backlog[i + 1]
  BY <1>1, <1>2, <1>3
<1>6. ConnsLater /\ ToldOK'
  BY <1>1, LaterSame, ToldKept
<1>7. \A j \in Calls : Waiting(j)' => Waiting(j)
  BY <1>3, <1>5 DEF Waiting
<1>8. Waiting(k) /\ conn[k].state # "none" /\ Len(conn[k].accepted) = 0
  BY <1>3, <1>4 DEF IInv, Known, Once, Waiting
<1>9. Known'
  BY <1>1, <1>4, <1>7, <1>8 DEF IInv, Known, Busy
<1>10. Once'
  <2>1. \A i, j \in 1 .. n - 1 : backlog'[i] = backlog'[j] => i = j
    <3> SUFFICES ASSUME NEW i \in 1 .. n - 1, NEW j \in 1 .. n - 1, backlog'[i] = backlog'[j]
                 PROVE  i = j
      OBVIOUS
    <3>1. i + 1 \in 1 .. n /\ j + 1 \in 1 .. n /\ backlog[i + 1] = backlog[j + 1]
      BY <1>3, <1>5
    <3>2. i + 1 = j + 1
      BY <1>3, <3>1 DEF IInv, Once
    <3> QED BY <3>2
  <2>2. \A i \in 1 .. n - 1 : conn[backlog'[i]].accepted = << >> /\ backlog'[i] # k
    <3> SUFFICES ASSUME NEW i \in 1 .. n - 1
                 PROVE  conn[backlog'[i]].accepted = << >> /\ backlog'[i] # k
      OBVIOUS
    <3>1. i + 1 \in 1 .. n /\ 1 \in 1 .. n /\ i + 1 # 1 /\ backlog'[i] = backlog[i + 1]
      BY <1>3, <1>5
    <3> QED BY <1>3, <1>4, <3>1 DEF IInv, Once
  <2> QED BY <1>1, <1>4, <1>5, <1>8, <2>1, <2>2 DEF Once, Waiting, Busy
<1>11. peeked' \in Calls \union {NoCall}
       /\ listener' \in [at : {"down", "accept", "streams", "init", "refuse"},
                         conn : Calls \union {NoCall}]
       /\ session' \in [conn : Calls \union {NoCall}, answered : BOOLEAN]
  BY <1>1, <1>4, ServerTyped
<1> QED BY <1>1, <1>5, <1>6, <1>9, <1>10, <1>11, ServerStepKeeps

\* The connection at hand is dropped, and the listener rests.
LEMMA ContinueKeeps ==
  ASSUME IInv, Busy, Continue,
         UNCHANGED <<materialVars, clientVars, backlog, peeked, session>>
  PROVE  IInv'
<1>1. /\ TypeOK /\ MaterialTypeOK' /\ Pair' /\ listener.conn \in Calls
      /\ conn[listener.conn].state # "none" /\ Close(listener.conn)
      /\ listener' = [at |-> "accept", conn |-> NoCall]
  BY MaterialSame DEF IInv, TypeOK, Known, Continue
<1>2. ConnsLater /\ ToldOK'
  BY <1>1, LaterClose, ToldKept
<1>3. Known' /\ Once'
  BY <1>1, <1>2, ListenerRests DEF IInv, Known
<1>4. /\ backlog' \in Seq(Calls) /\ peeked' \in Calls \union {NoCall}
      /\ listener' \in [at : {"down", "accept", "streams", "init", "refuse"},
                        conn : Calls \union {NoCall}]
      /\ session' \in [conn : Calls \union {NoCall}, answered : BOOLEAN]
  BY <1>1, ServerTyped
<1> QED BY <1>1, <1>2, <1>3, <1>4, ServerStepKeeps

\* A stream more, in its place.
LEMMA StreamAccepted ==
  ASSUME NEW r \in ConnType, Ordered(r), Len(r.accepted) < Len(r.opened),
         NEW q, q = [r EXCEPT !.accepted = Append(@, ServerStreams[Len(r.accepted) + 1])]
  PROVE  /\ q \in ConnType /\ Ordered(q) /\ Len(q.accepted) = Len(r.accepted) + 1
         /\ q.state = r.state /\ q.opened = r.opened /\ q.init = r.init /\ q.told = r.told
<1>1. r.opened \in Seq(StreamNames) /\ r.accepted \in Seq(StreamNames)
  BY DEF ConnType
<1>2. PICK n \in Nat : n = Len(r.accepted) /\ n < 3
  BY <1>1 DEF Ordered
<1>3. ServerStreams[n + 1] \in StreamNames
  BY <1>2, Streams
<1>4. q.accepted = Append(r.accepted, ServerStreams[n + 1])
  BY <1>2 DEF ConnType
<1>5. /\ q.accepted \in Seq(StreamNames) /\ Len(q.accepted) = n + 1
      /\ \A i \in 1 .. n : q.accepted[i] = r.accepted[i]
      /\ q.accepted[n + 1] = ServerStreams[n + 1]
  BY <1>1, <1>2, <1>3, <1>4
<1>6. q.state = r.state /\ q.opened = r.opened /\ q.init = r.init /\ q.told = r.told
  BY DEF ConnType
<1>7. q \in ConnType
  BY <1>2, <1>4, <1>5 DEF ConnType
<1>8. Ordered(q)
  <2>1. Len(q.opened) <= 3 /\ Len(q.accepted) <= Len(q.opened)
    BY <1>1, <1>2, <1>5, <1>6 DEF Ordered
  <2>2. \A i \in 1 .. n + 1 : q.accepted[i] = ServerStreams[i]
    BY <1>2, <1>5 DEF Ordered
  <2> QED BY <1>5, <1>6, <2>1, <2>2 DEF Ordered
<1> QED BY <1>2, <1>5, <1>6, <1>7, <1>8

LEMMA AcceptedKeeps ==
  ASSUME IInv, NEW k \in Calls, k = listener.conn, listener.at = "streams",
         NEW r \in ConnType, Ordered(r), r.state = conn[k].state, r.opened = conn[k].opened,
         r.init = conn[k].init, r.told = conn[k].told,
         conn' \in [Calls -> ConnType], conn'[k] = r,
         \A j \in Calls : j # k => conn'[j] = conn[j],
         NEW a \in {"streams", "init"}, listener' = [at |-> a, conn |-> k],
         a = "streams" => Len(r.accepted) < 3, r.opened # << >>,
         UNCHANGED <<materialVars, clientVars, backlog, peeked, session>>
  PROVE  IInv'
<1>1. TypeOK /\ MaterialTypeOK' /\ Pair'
  BY MaterialSame DEF IInv, TypeOK
<1>2. UNCHANGED <<at, calls, failed, auth_token, client_init>>
  BY DEF clientVars
<1>3. TypeOK'
  <2>1. listener' \in [at : {"down", "accept", "streams", "init", "refuse"},
                       conn : Calls \union {NoCall}]
    OBVIOUS
  <2> QED BY <1>1, <1>2, <2>1 DEF TypeOK, ConnType, StreamNames
<1>4. ConnsOK'
  <2> SUFFICES ASSUME NEW j \in Calls
               PROVE  Ordered(conn'[j]) /\ Honest(j[1], conn'[j])
    BY DEF ConnsOK, Ordered, Honest, ClientStreams, ServerStreams, TokenOf
  <2>1. CASE j = k
    <3>1. Honest(k[1], conn[k])
      BY DEF IInv, ConnsOK
    <3> QED BY <2>1, <3>1 DEF Honest
  <2>2. CASE j # k
    BY <2>2 DEF IInv, ConnsOK
  <2> QED BY <2>1, <2>2
<1>5. Tokens'
  BY <1>2 DEF IInv, Tokens, TokenOf
<1>6. Fresh'
  <2> SUFFICES ASSUME NEW j \in Calls, Undialled(j)
               PROVE  conn'[j] = Closed
    BY <1>2 DEF Fresh, Undialled
  <2>1. conn[j] = Closed
    BY DEF IInv, Fresh
  <2>2. j # k
    BY <2>1 DEF Closed
  <2> QED BY <2>1, <2>2
<1>7. Calling'
  <2> SUFFICES ASSUME NEW c \in Clients
               PROVE  /\ at[c] # "idle" => calls[c] >= 1
                      /\ at[c] = "open" => Len(conn'[Current(c)].opened) < 3
                      /\ at[c] \notin {"idle", "dial"} => conn'[Current(c)].state # "none"
    BY <1>2 DEF Calling, Current
  <2>1. at[c] # "idle" => calls[c] >= 1 /\ Current(c) \in Calls
    BY <1>1, CurrentCall DEF IInv, Calling
  <2>2. at[c] # "idle" => conn'[Current(c)].opened = conn[Current(c)].opened
                          /\ conn'[Current(c)].state = conn[Current(c)].state
    BY <2>1
  <2> QED BY <2>1, <2>2 DEF IInv, Calling
<1>8. ~Waiting(k) /\ conn[k].state # "none"
  BY DEF IInv, Once, Known, Busy
<1>9. Known'
  BY <1>8 DEF IInv, Known, Waiting, Busy
<1>10. Once'
  <2>1. \A i \in 1 .. Len(backlog) : backlog[i] \in Calls /\ backlog[i] # k
    BY <1>1, <1>8, ServerTyped DEF Waiting
  <2>2. \A i \in 1 .. Len(backlog) : conn'[backlog[i]] = conn[backlog[i]]
    BY <2>1
  <2>3. listener'.at = a /\ listener'.conn = k
    OBVIOUS
  <2> QED BY <1>8, <2>2, <2>3 DEF IInv, Once, Waiting, Busy
<1> QED BY <1>1, <1>3, <1>4, <1>5, <1>6, <1>7, <1>9, <1>10 DEF IInv

LEMMA AcceptStreamKeeps ==
  ASSUME IInv, accept_bidirectional_stream
  PROVE  IInv'
<1>1. /\ TypeOK /\ listener.at = "streams" /\ Busy /\ listener.conn \in Calls
      /\ UNCHANGED <<materialVars, clientVars, backlog, peeked, session>>
  BY DEF IInv, Known, Busy, accept_bidirectional_stream
<1>2. PICK k \in Calls : k = listener.conn
  BY <1>1
<1>3. CASE Continue
  BY <1>1, <1>3, ContinueKeeps
<1>4. CASE /\ Len(conn[k].accepted) < Len(conn[k].opened)
           /\ conn' = [conn EXCEPT ![k].accepted = Append(@, ServerStreams[Len(conn[k].accepted) + 1])]
           /\ listener' = [listener EXCEPT !.at =
                             IF Len(conn[k].accepted) + 1 = Len(ServerStreams) THEN "init" ELSE @]
  <2>1. /\ conn[k] \in ConnType /\ Ordered(conn[k])
        /\ conn[k].opened \in Seq(StreamNames) /\ conn[k].accepted \in Seq(StreamNames)
    BY <1>1, ConnTyped DEF IInv, ConnsOK, ConnType
  <2>2. PICK r : r = [conn[k] EXCEPT !.accepted = Append(@, ServerStreams[Len(conn[k].accepted) + 1])]
    OBVIOUS
  <2>3. /\ r \in ConnType /\ Ordered(r) /\ Len(r.accepted) = Len(conn[k].accepted) + 1
        /\ r.state = conn[k].state /\ r.opened = conn[k].opened /\ r.init = conn[k].init
        /\ r.told = conn[k].told
    BY <1>4, <2>1, <2>2, StreamAccepted
  <2>4. conn' = [conn EXCEPT ![k] = r]
    BY <1>1, <1>4, <2>2, ConnTyped
  <2>5. /\ conn' \in [Calls -> ConnType] /\ conn'[k] = r
        /\ \A j \in Calls : j # k => conn'[j] = conn[j]
    BY <1>1, <2>3, <2>4, SetField
  <2>6. r.opened # << >>
    BY <1>4, <2>1, <2>3
  <2>7. PICK a \in {"streams", "init"} :
          listener' = [at |-> a, conn |-> k] /\ (a = "streams" => Len(r.accepted) < 3)
    <3>1. /\ listener \in [at : {"down", "accept", "streams", "init", "refuse"},
                           conn : Calls \union {NoCall}]
          /\ Len(r.accepted) \in Nat /\ Len(r.accepted) <= 3
      <4>1. r.accepted \in Seq(StreamNames) /\ r.opened \in Seq(StreamNames)
        BY <2>3 DEF ConnType
      <4> QED BY <1>1, <2>3, <4>1, ServerTyped DEF Ordered
    <3>2. CASE Len(r.accepted) = 3
      BY <1>2, <1>4, <2>3, <3>1, <3>2, Streams
    <3>3. CASE Len(r.accepted) # 3
      BY <1>1, <1>2, <1>4, <2>3, <3>1, <3>3, Streams
    <3> QED BY <3>2, <3>3
  <2> QED BY <1>1, <1>2, <2>3, <2>5, <2>6, <2>7, AcceptedKeeps
<1> QED BY <1>2, <1>3, <1>4 DEF accept_bidirectional_stream

LEMMA ReceiveInitKeeps ==
  ASSUME IInv, ReceiveClientInit
  PROVE  IInv'
<1>1. /\ TypeOK /\ listener.at = "init" /\ Busy /\ listener.conn \in Calls
      /\ UNCHANGED <<materialVars, clientVars, backlog, session>> /\ MaterialTypeOK' /\ Pair'
  BY MaterialSame DEF IInv, TypeOK, Known, Busy, ReceiveClientInit
<1>2. PICK k \in Calls : k = listener.conn
  BY <1>1
<1>3. CASE Continue /\ UNCHANGED peeked
  BY <1>1, <1>3, ContinueKeeps
<1>4. CASE peeked' = k /\ listener' = [at |-> "accept", conn |-> NoCall] /\ UNCHANGED conn
  <2>1. ConnsLater /\ ToldOK'
    BY <1>1, <1>4, LaterSame, ToldKept
  <2>2. Known' /\ Once'
    BY <1>1, <1>2, <1>4, <2>1, ListenerRests DEF IInv, Known
  <2>3. /\ backlog' \in Seq(Calls) /\ peeked' \in Calls \union {NoCall}
        /\ listener' \in [at : {"down", "accept", "streams", "init", "refuse"},
                          conn : Calls \union {NoCall}]
        /\ session' \in [conn : Calls \union {NoCall}, answered : BOOLEAN]
    BY <1>1, <1>4, ServerTyped
  <2> QED BY <1>1, <2>1, <2>2, <2>3, ServerStepKeeps
<1>5. CASE /\ conn[k].init # NoInit /\ ~verify_password(conn[k].init)
           /\ listener' = [listener EXCEPT !.at = "refuse"]
           /\ UNCHANGED <<peeked, conn>>
  <2>1. ConnsLater /\ ToldOK'
    BY <1>1, <1>5, LaterSame, ToldKept
  <2>2. k[1] \notin Authorized
    BY <1>5 DEF IInv, ConnsOK, Honest, TokenOf, verify_password
  <2>3. listener' = [at |-> "refuse", conn |-> k]
    BY <1>1, <1>2, <1>5, ServerTyped
  <2>4. Known'
    BY <1>1, <1>2, <1>5, <2>3 DEF IInv, Known, Waiting, Busy
  <2>5. Once'
    BY <1>1, <1>2, <1>5, <2>2, <2>3 DEF IInv, Once, Waiting, Busy
  <2>6. /\ backlog' \in Seq(Calls) /\ peeked' \in Calls \union {NoCall}
        /\ listener' \in [at : {"down", "accept", "streams", "init", "refuse"},
                          conn : Calls \union {NoCall}]
        /\ session' \in [conn : Calls \union {NoCall}, answered : BOOLEAN]
    BY <1>1, <1>5, <2>3, ServerTyped
  <2> QED BY <1>1, <2>1, <2>4, <2>5, <2>6, ServerStepKeeps
<1> QED BY <1>2, <1>3, <1>4, <1>5 DEF ReceiveClientInit

\* What is told is typed, and blames nobody who is not to blame.
LEMMA TextAppended ==
  ASSUME IInv, NEW k \in Calls, NEW m \in ServerInits \union Goodbyes,
         m = "AuthenticationFailure" => k[1] \notin Authorized
  PROVE  /\ conn[k].told \in Seq(ServerInits \union Goodbyes)
         /\ Append(conn[k].told, m) \in Seq(ServerInits \union Goodbyes)
         /\ \A i \in 1 .. Len(conn[k].told) :
              conn[k].told[i] = "AuthenticationFailure" => k[1] \notin Authorized
         /\ \A i \in 1 .. Len(Append(conn[k].told, m)) :
              Append(conn[k].told, m)[i] = "AuthenticationFailure" => k[1] \notin Authorized
<1>1. conn[k].told \in Seq(ServerInits \union Goodbyes)
  BY ConnTyped DEF IInv, ConnType
<1>2. PICK s \in Seq(ServerInits \union Goodbyes) : s = conn[k].told
  BY <1>1
<1>3. \A i \in 1 .. Len(s) : s[i] = "AuthenticationFailure" => k[1] \notin Authorized
  BY <1>2 DEF IInv, ConnsOK, Honest
<1>4. PICK n \in Nat : n = Len(s)
  BY <1>2
<1>5. /\ Append(s, m) \in Seq(ServerInits \union Goodbyes) /\ Len(Append(s, m)) = n + 1
      /\ \A i \in 1 .. n : Append(s, m)[i] = s[i]
      /\ Append(s, m)[n + 1] = m
  BY <1>4
<1>6. \A i \in 1 .. n + 1 : Append(s, m)[i] = "AuthenticationFailure" => k[1] \notin Authorized
  BY <1>3, <1>4, <1>5
<1> QED BY <1>2, <1>3, <1>5, <1>6

\* The text told over connection k is set.
LEMMA ToldSet ==
  ASSUME IInv, NEW k \in Calls, conn[k].state # "none",
         NEW text \in Seq(ServerInits \union Goodbyes),
         \A i \in 1 .. Len(text) : text[i] = "AuthenticationFailure" => k[1] \notin Authorized,
         \/ conn' = [conn EXCEPT ![k].told = text]
         \/ conn' = [conn EXCEPT ![k].told = text, ![k].state = "closed"]
  PROVE  ConnsLater /\ ToldOK'
<1>1. TypeOK /\ conn \in [Calls -> ConnType]
  BY ConnTyped DEF IInv
<1>2. conn[k] \in ConnType /\ conn[k].state \in {"open", "closed"}
  BY <1>1 DEF ConnType
<1>3. [conn EXCEPT ![k].told = text] = [conn EXCEPT ![k].told = text, ![k].state = conn[k].state]
  BY <1>1, <1>2 DEF ConnType
<1>4. PICK state \in {"open", "closed"} : conn' = [conn EXCEPT ![k].told = text, ![k].state = state]
  BY <1>2, <1>3
<1>5. /\ ConnsLater /\ conn'[k].told = text
      /\ \A j \in Calls : j # k => conn'[j] = conn[j]
  BY <1>1, <1>4, LaterTold
<1>6. ToldOK'
  BY <1>5 DEF ToldOK, IInv, ConnsOK, Honest
<1> QED BY <1>5, <1>6

LEMMA RefuseKeeps ==
  ASSUME IInv, Refuse
  PROVE  IInv'
<1>1. /\ TypeOK /\ listener.at = "refuse" /\ listener.conn \in Calls
      /\ conn[listener.conn].state # "none" /\ listener.conn[1] \notin Authorized
      /\ UNCHANGED <<materialVars, clientVars, backlog, peeked, session>> /\ MaterialTypeOK' /\ Pair'
      /\ listener' = [at |-> "accept", conn |-> NoCall]
  BY MaterialSame DEF IInv, TypeOK, Known, Once, Busy, Refuse
<1>2. PICK k \in Calls : k = listener.conn
  BY <1>1
<1>3. "AuthenticationFailure" \in ServerInits \union Goodbyes
  BY DEF Goodbyes
<1>4. PICK s \in Seq(ServerInits \union Goodbyes) : s = conn[k].told
  BY <1>1, <1>2, <1>3, TextAppended
<1>5. /\ s \o << >> = s /\ s \o <<"AuthenticationFailure">> = Append(s, "AuthenticationFailure")
  BY <1>3, <1>4
<1>6. PICK text \in {s, Append(s, "AuthenticationFailure")} :
        conn' = [conn EXCEPT ![k].told = text, ![k].state = "closed"]
  <2>1. PICK more \in {<< >>, <<"AuthenticationFailure">>} :
          conn' = [conn EXCEPT ![k].told = @ \o more, ![k].state = "closed"]
    BY <1>2 DEF Refuse
  <2>2. s \o more \in {s, Append(s, "AuthenticationFailure")}
    BY <1>5, <2>1
  <2>3. conn' = [conn EXCEPT ![k].told = s \o more, ![k].state = "closed"]
    BY <1>4, <2>1
  <2> QED BY <2>2, <2>3
<1>7. /\ text \in Seq(ServerInits \union Goodbyes)
      /\ \A i \in 1 .. Len(text) : text[i] = "AuthenticationFailure" => k[1] \notin Authorized
  BY <1>1, <1>2, <1>3, <1>4, <1>6, TextAppended
<1>8. ConnsLater /\ ToldOK'
  BY <1>1, <1>2, <1>6, <1>7, ToldSet
<1>9. Known' /\ Once'
  BY <1>1, <1>8, ListenerRests DEF IInv, Known
<1>10. /\ backlog' \in Seq(Calls) /\ peeked' \in Calls \union {NoCall}
       /\ listener' \in [at : {"down", "accept", "streams", "init", "refuse"},
                         conn : Calls \union {NoCall}]
       /\ session' \in [conn : Calls \union {NoCall}, answered : BOOLEAN]
  BY <1>1, ServerTyped
<1> QED BY <1>1, <1>8, <1>9, <1>10, ServerStepKeeps

LEMMA ConfigureKeeps ==
  ASSUME IInv, Configure \/ ConfigureOther
  PROVE  IInv'
<1>1. /\ TypeOK /\ session.conn \in Calls /\ conn[session.conn].state # "none"
      /\ UNCHANGED <<materialVars, clientVars, backlog, listener, peeked>> /\ MaterialTypeOK' /\ Pair'
  <2>1. /\ TypeOK /\ session.conn # NoCall
        /\ UNCHANGED <<materialVars, clientVars, backlog, listener, peeked>>
    BY DEF IInv, Configure, ConfigureOther
  <2>2. session.conn \in Calls
    BY <2>1, ServerTyped
  <2> QED BY <2>1, <2>2, MaterialSame DEF IInv, TypeOK, Known
<1>2. PICK k \in Calls : k = session.conn
  BY <1>1
<1>3. /\ {"ServerInit", "NoDisplays", "TooManyDecoders", "Refused"} \subseteq ServerInits \union Goodbyes
      /\ "AuthenticationFailure" \notin ServerInits \union {"Refused"}
  BY DEF ServerInits, Goodbyes
<1>4. PICK text :
        /\ text \in {conn[k].told} \union {Append(conn[k].told, m) : m \in ServerInits \union {"Refused"}}
        /\ \/ conn' = [conn EXCEPT ![k].told = text]
           \/ conn' = [conn EXCEPT ![k].told = text, ![k].state = "closed"]
  <2>1. CASE Configure
    <3>1. PICK m \in {"ServerInit", "Refused"} :
            \/ conn' = [conn EXCEPT ![k].told = IF Open(k) THEN Append(@, m) ELSE @]
            \/ conn' = [conn EXCEPT ![k].told = IF Open(k) THEN Append(@, m) ELSE @, ![k].state = "closed"]
      BY <1>2, <2>1 DEF Configure
    <3>2. "ServerInit" \in ServerInits
      BY DEF ServerInits
    <3>3. CASE Open(k)
      <4>1. PICK t : t = Append(conn[k].told, m)
        OBVIOUS
      <4>2. t \in {Append(conn[k].told, i) : i \in ServerInits \union {"Refused"}}
        BY <3>1, <3>2, <4>1
      <4>3. \/ conn' = [conn EXCEPT ![k].told = t]
            \/ conn' = [conn EXCEPT ![k].told = t, ![k].state = "closed"]
        BY <3>1, <3>3, <4>1
      <4> QED BY <4>2, <4>3
    <3>4. CASE ~Open(k)
      BY <3>1, <3>4
    <3> QED BY <3>3, <3>4
  <2>2. CASE ConfigureOther
    BY <1>2, <2>2 DEF ConfigureOther
  <2> QED BY <2>1, <2>2
<1>5. /\ text \in Seq(ServerInits \union Goodbyes)
      /\ \A i \in 1 .. Len(text) : text[i] = "AuthenticationFailure" => k[1] \notin Authorized
  <2>1. CASE text = conn[k].told
    BY <1>3, <2>1, TextAppended
  <2>2. CASE text # conn[k].told
    <3>1. PICK m \in ServerInits \union {"Refused"} : text = Append(conn[k].told, m)
      BY <1>4, <2>2
    <3>2. m \in ServerInits \union Goodbyes /\ m # "AuthenticationFailure"
      BY <1>3, <3>1
    <3> QED BY <3>1, <3>2, TextAppended
  <2> QED BY <2>1, <2>2
<1>6. ConnsLater /\ ToldOK'
  BY <1>1, <1>2, <1>4, <1>5, ToldSet
<1>7. \/ session' = [conn |-> k, answered |-> TRUE]
      \/ session' = [conn |-> NoCall, answered |-> FALSE]
  BY <1>1, <1>2, ServerTyped DEF Configure, ConfigureOther, NoSession
<1>8. \A i \in 1 .. Len(backlog) : backlog[i] \in Calls
  BY <1>1, ServerTyped
<1>9. Known'
  BY <1>1, <1>2, <1>6, <1>7, NoCallIsNone DEF IInv, Known, Waiting, Busy, ConnsLater
<1>10. Once'
  BY <1>1, <1>6, <1>8 DEF IInv, Once, Known, Waiting, Busy, ConnsLater
<1>11. /\ backlog' \in Seq(Calls) /\ peeked' \in Calls \union {NoCall}
       /\ listener' \in [at : {"down", "accept", "streams", "init", "refuse"},
                         conn : Calls \union {NoCall}]
       /\ session' \in [conn : Calls \union {NoCall}, answered : BOOLEAN]
  <2>1. \A j \in Calls \union {NoCall}, b \in BOOLEAN :
          [conn |-> j, answered |-> b] \in [conn : Calls \union {NoCall}, answered : BOOLEAN]
    OBVIOUS
  <2>2. session' \in [conn : Calls \union {NoCall}, answered : BOOLEAN]
    BY <1>7, <2>1, Zenon
  <2> QED BY <1>1, <2>2, ServerTyped
<1> QED BY <1>1, <1>6, <1>9, <1>10, <1>11, ServerStepKeeps

LEMMA StopsKeeps ==
  ASSUME IInv, ServerStops
  PROVE  IInv'
<1>1. /\ TypeOK /\ MaterialTypeOK' /\ Pair' /\ UNCHANGED clientVars
      /\ listener' = [at |-> "down", conn |-> NoCall] /\ backlog' = << >> /\ peeked' = NoCall
      /\ session' = [conn |-> NoCall, answered |-> FALSE]
  BY MaterialKeeps DEF IInv, TypeOK, ServerStops, Idle, NoSession
<1>2. conn' = [k \in Calls |-> IF Open(k) THEN [conn[k] EXCEPT !.state = "closed"] ELSE conn[k]]
  BY DEF ServerStops
<1>3. ASSUME NEW k \in Calls
      PROVE  /\ conn'[k] \in ConnType
             /\ conn[k].state = "none" => conn'[k] = conn[k]
             /\ conn[k].state # "none" => conn'[k].state # "none"
             /\ conn'[k].opened = conn[k].opened /\ conn'[k].accepted = conn[k].accepted
             /\ conn'[k].init = conn[k].init /\ conn'[k].told = conn[k].told
  <2>1. conn[k] \in ConnType
    BY <1>1, ConnTyped
  <2>2. CASE Open(k)
    BY <1>2, <2>1, <2>2 DEF Open, ConnType
  <2>3. CASE ~Open(k)
    BY <1>2, <2>1, <2>3
  <2> QED BY <2>2, <2>3
<1>4. conn' \in [Calls -> ConnType]
  BY <1>2, <1>3
<1>5. ConnsLater /\ ToldOK'
  BY <1>3, <1>4, ToldKept DEF ConnsLater
<1>6. Len(backlog') = 0 /\ backlog' \in Seq(Calls)
  BY <1>1
<1>7. Known' /\ Once'
  BY <1>1, <1>6, NoCallIsNone DEF Known, Once, Waiting, Busy
<1>8. /\ peeked' \in Calls \union {NoCall}
      /\ listener' \in [at : {"down", "accept", "streams", "init", "refuse"},
                        conn : Calls \union {NoCall}]
      /\ session' \in [conn : Calls \union {NoCall}, answered : BOOLEAN]
  BY <1>1
<1> QED BY <1>1, <1>5, <1>6, <1>7, <1>8, ServerStepKeeps

-----------------------------------------------------------------------------
(* The invariant and what follows from it.                                 *)

LEMMA InitEstablishes ==
  ASSUME Init
  PROVE  IInv
<1> USE MaterialAssumption, ConnectionAssumption
<1>1. MaterialTypeOK /\ Pair
  <2> DEFINE Names == SUBSET (ExternalAddresses \union EarlierAddresses \union {"localhost"})
  <2>1. (EarlierAddresses \union {"localhost"}) \in Names
    OBVIOUS
  <2> HIDE DEF Names
  <2>2. /\ << >> \in Seq(Names) /\ Len(<< >>) = 0
        /\ <<EarlierAddresses \union {"localhost"}>> \in Seq(Names)
        /\ Len(<<EarlierAddresses \union {"localhost"}>>) = 1
    BY <2>1
  <2>3. subjects \in Seq(Names) /\ Len(subjects) \in {0, 1}
    BY <2>2, Zenon DEF Init, MaterialInit
  <2>4. Len(subjects) <= MaxPairs
    BY <2>3
  <2>5. cert_pem \in {0, 1} /\ key_pem \in {0, 1} /\ tls_material = NoMaterial
        /\ starting = "down" /\ faults = 0
    BY DEF Init, MaterialInit, Absent
  <2>6. {0, 1} \subseteq Files /\ 0 \in 0 .. MaxPairs + 2
    BY DEF Files, Absent
  <2>7. NoMaterial \in [certificate : 0 .. MaxPairs + 2, pkey : 0 .. MaxPairs + 2]
    BY <2>6 DEF NoMaterial, Absent
  <2> QED BY <2>3, <2>4, <2>5, <2>6, <2>7 DEF MaterialTypeOK, Pair, Names
<1>2. /\ Closed \in ConnType /\ Closed.opened = << >> /\ Closed.accepted = << >>
      /\ Closed.told = << >> /\ Closed.init = NoInit
  BY DEF Closed, ConnType
<1>3. Len(Closed.opened) = 0 /\ Len(Closed.accepted) = 0 /\ Len(Closed.told) = 0
  BY <1>2
<1>4. conn \in [Calls -> ConnType] /\ \A k \in Calls : conn[k] = Closed
  BY <1>2 DEF Init
<1>5. /\ backlog = << >> /\ backlog \in Seq(Calls) /\ Len(backlog) = 0
      /\ listener = [at |-> "down", conn |-> NoCall]
      /\ peeked = NoCall /\ session = [conn |-> NoCall, answered |-> FALSE]
  BY DEF Init, Idle, NoSession
<1>6. /\ at \in [Clients -> {"idle", "dial", "open", "init", "answer", "connected"}]
      /\ calls \in [Clients -> 0 .. MaxConnects] /\ failed \in [Clients -> 0 .. Addresses]
      /\ auth_token \in [Clients -> {Right, Wrong, Empty}]
      /\ client_init \in [Clients -> {Right, Wrong, Empty, NoInit}]
      /\ \A c \in Clients : at[c] = "idle" /\ auth_token[c] = TokenOf(c) /\ client_init[c] = NoInit
  BY DEF Init, TokenOf
<1>7. TypeOK
  BY <1>1, <1>4, <1>5, <1>6 DEF TypeOK, ConnType, StreamNames
<1>8. ConnsOK
  BY <1>2, <1>3, <1>4 DEF ConnsOK, Ordered, Honest
<1>9. Tokens /\ Calling
  BY <1>6 DEF Tokens, Calling
<1>10. Fresh
  BY <1>4 DEF Fresh
<1>11. Known /\ Once
  BY <1>5, NoCallIsNone DEF Known, Once, Waiting, Busy
<1> QED BY <1>1, <1>7, <1>8, <1>9, <1>10, <1>11 DEF IInv

LEMMA StutterKeeps ==
  ASSUME IInv, UNCHANGED vars
  PROVE  IInv'
<1>1. TypeOK /\ UNCHANGED <<materialVars, clientVars, conn, serverVars>> /\ MaterialTypeOK' /\ Pair'
  BY MaterialSame DEF vars, IInv, TypeOK
<1>2. ConnsLater /\ ToldOK'
  BY <1>1, LaterSame, ToldKept
<1>3. Known' /\ Once'
  BY <1>1, <1>2, ServerKeeps
<1>4. /\ backlog' \in Seq(Calls) /\ peeked' \in Calls \union {NoCall}
      /\ listener' \in [at : {"down", "accept", "streams", "init", "refuse"},
                        conn : Calls \union {NoCall}]
      /\ session' \in [conn : Calls \union {NoCall}, answered : BOOLEAN]
  BY <1>1, ServerTyped DEF serverVars
<1> QED BY <1>1, <1>2, <1>3, <1>4, ServerStepKeeps

LEMMA NextKeeps ==
  ASSUME IInv, [Next]_vars
  PROVE  IInv'
<1>1. CASE \E c \in Clients : connect(c) \/ ClientStep(c) \/ Leave(c)
  BY <1>1, ConnectKeeps, DoConnectKeeps, OpenKeeps, SendKeeps, AnswerKeeps DEF ClientStep
<1>2. CASE \E k \in Calls : Lose(k)
  BY <1>2, LoseKeeps
<1>3. CASE ServerStep \/ ConfigureOther
  BY <1>3, ListenKeeps, AcceptKeeps, AcceptStreamKeeps, ReceiveInitKeeps, RefuseKeeps, ConfigureKeeps
     DEF ServerStep
<1>4. CASE ServerStops
  BY <1>4, StopsKeeps
<1>5. CASE MaterialStep
  BY <1>5, MaterialStepKeeps
<1> QED BY <1>1, <1>2, <1>3, <1>4, <1>5, StutterKeeps DEF Next

LEMMA Invariant == Spec => []IInv
  BY InitEstablishes, NextKeeps, PTL DEF Spec

\* Every variable of the connection set-up keeps its type: what the server
\* holds are calls of connect, and each connection has three streams at most.
THEOREM ConnectionTypes == Spec => []TypeOK
<1>1. IInv => TypeOK
  BY DEF IInv
<1> QED BY <1>1, Invariant, PTL

\* A certificate that the server generated is used with its own key, whatever
\* the start before it left in the two files, torn or of two different pairs,
\* and whatever starts with provided files come between.
THEOREM MaterialBelongsTogether == Spec => []MaterialMatches
<1>1. IInv => MaterialMatches
  BY DEF IInv, Pair, MaterialMatches
<1> QED BY <1>1, Invariant, PTL

\* A client that was configured with the server's token is never told that its
\* authentication failed, however often it connects with the same Client: its
\* ClientInit is built before the token is zeroized, and kept.
THEOREM FailureIsDeserved == Spec => []FailureDeserved
<1>1. IInv => FailureDeserved
  <2> SUFFICES ASSUME IInv, NEW c \in Clients, NEW n \in 1 .. MaxConnects,
                      conn[<<c, n>>].told # << >>,
                      conn[<<c, n>>].told[1] = "AuthenticationFailure"
               PROVE  c \notin Authorized
    BY DEF FailureDeserved
  <2>1. PICK k \in Calls : k = <<c, n>> /\ k[1] = c
    BY DEF Calls
  <2>2. conn[k] \in ConnType /\ Honest(c, conn[k])
    BY <2>1, ConnTyped DEF IInv, ConnsOK
  <2>3. conn[k].told \in Seq(ServerInits \union Goodbyes) /\ conn[k].told # << >>
    BY <2>1, <2>2 DEF ConnType
  <2>4. 1 \in 1 .. Len(conn[k].told)
    BY <2>3
  <2> QED BY <2>1, <2>2, <2>4 DEF Honest
<1> QED BY <1>1, Invariant, PTL
=============================================================================
