------------------------ MODULE ClientInterfaceProofs ------------------------
(***************************************************************************)
(* The C interface, for any number of threads, errors and events: nothing  *)
(* that the caller may use is freed, and nothing leaks.  Nearly all        *)
(* functions end in one of a few ways, and there is one lemma for each of  *)
(* those.                                                                  *)
(***************************************************************************)
EXTENDS ClientInterface, TLAPS

\* The error kept for ac_last_error is allocated.
Kept == last_error # Null => last_error \in live

\* Only the thread that connects disconnects, and what it disconnects is no
\* longer the caller's.
Disconnecting ==
  \A t \in Threads : calling[t] = "disconnect" => t = Main /\ "connection" \notin owned

IInv == InterfaceTypeOK /\ NoDangling /\ NoLeak /\ Kept /\ Disconnecting

-----------------------------------------------------------------------------
(* Objects and addresses.                                                  *)

LEMMA Addresses ==
  /\ \A b \in Boxes : b \notin Errors /\ b \notin Events /\ b # Null
  /\ \A e \in Errors : e \notin Boxes /\ e \notin Events /\ e # Null
  /\ \A e \in Events : e \notin Boxes /\ e \notin Errors /\ e # Null
  BY InterfaceAssumption

\* What the parts of the invariant say of an object.
LEMMA HeldIs ==
  \A p : p \in CallersToFree <=> p \in owned \/ (p \in Events /\ fresh /\ p = event)
  BY DEF CallersToFree

LEMMA LeakIs ==
  NoLeak <=> /\ \A p \in live : \/ p \in CallersToFree \/ p = last_error
                                \/ p = "connection" /\ \E t \in Threads : calling[t] = "disconnect"
             /\ last_error \notin CallersToFree
  BY DEF NoLeak

\* An error is allocated and replaces the one that was kept.
LEMMA RejectMakes ==
  ASSUME InterfaceTypeOK, RejectCall
  PROVE  \E error \in Errors :
           /\ error \notin live /\ live' = (live \ {last_error}) \union {error}
           /\ last_error' = error
<1>1. PICK error : error = CHOOSE e \in Errors \ live : TRUE
  OBVIOUS
<1>2. error \in Errors \ live
  BY <1>1 DEF RejectCall
<1> QED BY <1>1, <1>2 DEF RejectCall

\* The parts of the invariant that a call which allocates an error and leaves
\* the caller's objects alone keeps.
LEMMA ErrorKept ==
  ASSUME IInv, NEW error \in Errors, error \notin live,
         live' = (live \ {last_error}) \union {error}, last_error' = error,
         UNCHANGED <<text, lent, calling>>, owned' = owned,
         \A p : p \in CallersToFree' <=> p \in CallersToFree, InterfaceTypeOK'
  PROVE  IInv'
<1>1. NoDangling'
  <2>1. \A p \in CallersToFree : p \in live /\ p # last_error
    BY LeakIs DEF IInv, NoDangling
  <2> QED BY <2>1 DEF IInv, NoDangling
<1>2. NoLeak'
  <2>1. error \notin CallersToFree
    BY DEF IInv, NoDangling
  <2>2. \A p \in live : \/ p \in CallersToFree \/ p = last_error
                        \/ p = "connection" /\ \E u \in Threads : calling[u] = "disconnect"
    BY LeakIs DEF IInv
  <2>3. \A p \in live' : \/ p \in CallersToFree \/ p = error
                         \/ p = "connection" /\ \E u \in Threads : calling[u] = "disconnect"
    BY <2>2
  <2> QED BY <2>1, <2>3 DEF NoLeak
<1>3. Kept'
  BY Addresses DEF Kept
<1>4. Disconnecting'
  BY DEF IInv, Disconnecting
<1> QED BY <1>1, <1>2, <1>3, <1>4 DEF IInv

\* A call that succeeds: the invariants on errors.
LEMMA SucceedKeeps ==
  ASSUME IInv, Succeed, last_error \in live => last_error \in live'
  PROVE  Kept' /\ last_error' = last_error
<1>1. last_error' = last_error
  BY DEF Succeed
<1> QED BY <1>1 DEF IInv, Kept, InterfaceTypeOK

LEMMA FailsKeeps ==
  ASSUME IInv, Fails
  PROVE  IInv'
<1>1. InterfaceTypeOK /\ RejectCall /\ UNCHANGED <<owned, heap, calling, library>>
  BY DEF IInv, Fails
<1>2. PICK error \in Errors :
        /\ error \notin live /\ live' = (live \ {last_error}) \union {error}
        /\ last_error' = error
  BY <1>1, RejectMakes
<1>3. InterfaceTypeOK'
  BY <1>1, <1>2 DEF InterfaceTypeOK, heap, library
<1>4. \A p : p \in CallersToFree' <=> p \in CallersToFree
  BY <1>1 DEF CallersToFree, heap
<1> QED BY <1>1, <1>2, <1>3, <1>4, ErrorKept DEF heap

LEMMA ReadsKeeps ==
  ASSUME IInv, Reads
  PROVE  IInv'
<1>1. Succeed /\ UNCHANGED <<live, owned, heap, calling, library>>
  BY DEF Reads
<1>2. Kept' /\ last_error' = last_error
  BY <1>1, SucceedKeeps
<1>3. InterfaceTypeOK'
  BY <1>1, <1>2 DEF IInv, InterfaceTypeOK, heap, library
<1>4. NoDangling' /\ NoLeak' /\ Disconnecting'
  BY <1>1, <1>2 DEF IInv, NoDangling, NoLeak, CallersToFree, Disconnecting, heap
<1> QED BY <1>2, <1>3, <1>4 DEF IInv

LEMMA CreatesKeeps ==
  ASSUME IInv, NEW box \in Boxes \ {"connection"}, Creates(box)
  PROVE  IInv'
<1>1. /\ Succeed /\ live' = live \union {box} /\ owned' = owned \union {box}
      /\ UNCHANGED <<heap, calling, library>>
  BY DEF Creates
<1>2. Kept' /\ last_error' = last_error
  BY <1>1, SucceedKeeps
<1>3. InterfaceTypeOK'
  BY <1>1, <1>2 DEF IInv, InterfaceTypeOK, heap, library
<1>4. \A p : p \in CallersToFree' <=> p \in CallersToFree \/ p = box
  BY <1>1 DEF CallersToFree, heap
<1>5. last_error # box
  BY Addresses DEF IInv, InterfaceTypeOK
<1>6. NoDangling'
  BY <1>1, <1>4 DEF IInv, NoDangling, heap
<1>7. NoLeak'
  BY <1>1, <1>2, <1>4, <1>5 DEF IInv, NoLeak
<1>8. Disconnecting'
  BY <1>1 DEF IInv, Disconnecting
<1> QED BY <1>2, <1>3, <1>6, <1>7, <1>8 DEF IInv

LEMMA FreesKeeps ==
  ASSUME IInv, NEW t \in Threads, NEW box \in Boxes, Frees(t, box)
  PROVE  IInv'
<1>1. /\ Succeed /\ live' = live \ {box} /\ owned' = owned \ {box}
      /\ UNCHANGED <<heap, calling, library>>
  BY DEF Frees
<1>2. last_error # box /\ event # box
  BY Addresses DEF IInv, InterfaceTypeOK
<1>3. Kept' /\ last_error' = last_error
  BY <1>1, <1>2, SucceedKeeps
<1>4. InterfaceTypeOK'
  BY <1>1, <1>3 DEF IInv, InterfaceTypeOK, heap, library
<1>5. \A p : p \in CallersToFree' <=> p \in CallersToFree /\ p # box
  BY <1>1, <1>2 DEF CallersToFree, heap
<1>6. NoDangling'
  BY <1>1, <1>5 DEF IInv, NoDangling, heap
<1>7. NoLeak'
  BY <1>1, <1>3, <1>5 DEF IInv, NoLeak
<1>8. Disconnecting'
  BY <1>1 DEF IInv, Disconnecting
<1> QED BY <1>3, <1>4, <1>6, <1>7, <1>8 DEF IInv

LEMMA LendsKeeps ==
  ASSUME IInv, NEW p \in Errors \union Events, Lends(p)
  PROVE  IInv'
<1>1. /\ Succeed /\ UNCHANGED <<live, owned, event, fresh, content, calling, library>>
      /\ text' = [text EXCEPT ![p] = IF @ = 0 THEN 1 ELSE @]
      /\ lent' = [lent EXCEPT ![p] = @ \union {text'[p]}]
  BY DEF Lends
<1>2. Kept' /\ last_error' = last_error
  BY <1>1, SucceedKeeps
<1>3. /\ text \in [Errors \union Events -> 0 .. 2]
      /\ lent \in [Errors \union Events -> SUBSET (1 .. 2)]
  BY DEF IInv, InterfaceTypeOK
<1>4. text' \in [Errors \union Events -> 0 .. 2] /\ text'[p] \in 1 .. 2 /\ (text[p] # 0 => text'[p] = text[p])
      /\ \A q \in Errors \union Events : q # p => text'[q] = text[q]
  BY <1>1, <1>3
<1>5. /\ lent' \in [Errors \union Events -> SUBSET (1 .. 2)]
      /\ lent'[p] = lent[p] \union {text'[p]}
      /\ \A q \in Errors \union Events : q # p => lent'[q] = lent[q]
  BY <1>1, <1>3, <1>4
<1>6. InterfaceTypeOK'
  BY <1>1, <1>2, <1>4, <1>5 DEF IInv, InterfaceTypeOK, library
<1>7. NoLeak' /\ Disconnecting' /\ CallersToFree' \subseteq live'
  BY <1>1, <1>2 DEF IInv, NoDangling, NoLeak, CallersToFree, Disconnecting
<1>8. \A q \in DOMAIN lent' : lent'[q] \subseteq {text'[q]}
  <2> SUFFICES ASSUME NEW q \in Errors \union Events
               PROVE  lent'[q] \subseteq {text'[q]}
    BY <1>5
  <2>1. lent[q] \subseteq {text[q]} /\ lent[q] \subseteq 1 .. 2
    BY <1>3 DEF IInv, NoDangling
  <2>2. CASE q = p
    <3>1. CASE text[p] = 0
      <4>1. lent[p] = {}
        BY <2>1, <2>2, <3>1
      <4> QED BY <1>5, <2>2, <4>1
    <3>2. CASE text[p] # 0
      BY <1>4, <1>5, <2>1, <2>2, <3>2
    <3> QED BY <3>1, <3>2
  <2>3. CASE q # p
    BY <1>4, <1>5, <2>1, <2>3
  <2> QED BY <2>2, <2>3
<1>9. NoDangling'
  BY <1>7, <1>8 DEF NoDangling
<1> QED BY <1>2, <1>6, <1>7, <1>9 DEF IInv

\* Dropping an object takes the strings lent from it.
LEMMA DropsStrings ==
  ASSUME IInv, NEW p \in Errors \union Events, Drops(p)
  PROVE  /\ live' = live \ {p}
         /\ text' \in [Errors \union Events -> 0 .. 2]
         /\ lent' \in [Errors \union Events -> SUBSET (1 .. 2)]
         /\ \A q \in DOMAIN lent' : lent'[q] \subseteq {text'[q]}
<1>1. /\ text \in [Errors \union Events -> 0 .. 2]
      /\ lent \in [Errors \union Events -> SUBSET (1 .. 2)]
      /\ \A q \in Errors \union Events : lent[q] \subseteq {text[q]}
  BY DEF IInv, InterfaceTypeOK, NoDangling
<1>2. live' = live \ {p} /\ text' = [text EXCEPT ![p] = 0] /\ lent' = [lent EXCEPT ![p] = {}]
  BY DEF Drops
<1> QED BY <1>1, <1>2

LEMMA LastErrorKeeps ==
  ASSUME IInv, NEW t \in Threads, ac_last_error(t)
  PROVE  IInv'
<1>1. /\ owned' = owned \union ({last_error} \ {Null}) /\ last_error' = Null
      /\ UNCHANGED <<live, heap, calling, library>>
  BY DEF ac_last_error
<1>2. InterfaceTypeOK'
  BY <1>1 DEF IInv, InterfaceTypeOK, heap, library
<1>3. \A p : p \in CallersToFree' <=> p \in CallersToFree \/ (p = last_error /\ p # Null)
  BY <1>1 DEF CallersToFree, heap
<1>4. Null \notin CallersToFree
  BY Addresses DEF CallersToFree, IInv, InterfaceTypeOK
<1>5. NoDangling'
  BY <1>1, <1>3 DEF IInv, NoDangling, Kept, heap
<1>6. NoLeak'
  <2>1. Null \notin live
    BY Addresses DEF IInv, InterfaceTypeOK
  <2> QED BY <1>1, <1>3, <1>4, <2>1 DEF IInv, NoLeak
<1>7. Disconnecting'
  <2>1. last_error # "connection"
    BY Addresses DEF IInv, InterfaceTypeOK, Boxes
  <2> QED BY <1>1, <2>1 DEF IInv, Disconnecting
<1>8. Kept'
  BY <1>1 DEF Kept
<1> QED BY <1>2, <1>5, <1>6, <1>7, <1>8 DEF IInv

LEMMA ErrorFreeKeeps ==
  ASSUME IInv, NEW t \in Threads, ac_error_free(t)
  PROVE  IInv'
<1>1. PICK e \in Errors : e \in owned /\ Drops(e) /\ owned' = owned \ {e}
  BY DEF ac_error_free
<1>2. Succeed /\ UNCHANGED <<event, fresh, content, calling, library>>
  BY DEF ac_error_free
<1>3. /\ live' = live \ {e}
      /\ text' \in [Errors \union Events -> 0 .. 2]
      /\ lent' \in [Errors \union Events -> SUBSET (1 .. 2)]
      /\ \A q \in DOMAIN lent' : lent'[q] \subseteq {text'[q]}
  BY <1>1, DropsStrings
<1>4. last_error # e /\ event # e
  <2>1. e \in CallersToFree
    BY <1>1 DEF CallersToFree
  <2> QED BY <2>1, Addresses DEF IInv, NoLeak, InterfaceTypeOK
<1>5. Kept' /\ last_error' = last_error
  BY <1>2, <1>3, <1>4, SucceedKeeps
<1>6. InterfaceTypeOK'
  BY <1>1, <1>2, <1>3, <1>5 DEF IInv, InterfaceTypeOK, library
<1>7. \A p : p \in CallersToFree' <=> p \in CallersToFree /\ p # e
  BY <1>1, <1>2, <1>4 DEF CallersToFree
<1>8. NoDangling'
  BY <1>3, <1>7 DEF IInv, NoDangling
<1>9. NoLeak' /\ Disconnecting'
  BY <1>1, <1>2, <1>3, <1>5, <1>7 DEF IInv, NoLeak, Disconnecting
<1> QED BY <1>5, <1>6, <1>8, <1>9 DEF IInv

-----------------------------------------------------------------------------
(* Events.                                                                 *)

LEMMA ReceivesKeeps ==
  ASSUME IInv, MayOverwrite, Receives
  PROVE  IInv'
<1>1. PICK new : new = CHOOSE e \in Events \ live : TRUE
  OBVIOUS
<1>2. new \in Events /\ new \notin live
  BY <1>1 DEF Receives
<1>3. /\ queue # << >> /\ Succeed /\ live' = live \union {new} /\ event' = new /\ fresh' = TRUE
      /\ content' = [content EXCEPT ![new] = Head(queue)] /\ queue' = Tail(queue)
      /\ UNCHANGED <<owned, text, lent, calling, session, metrics>>
  BY <1>1 DEF Receives
<1>4. queue \in Seq(Contents) /\ Len(queue) <= MaxQueued
  BY DEF IInv, InterfaceTypeOK
<1>5. Head(queue) \in Contents /\ queue' \in Seq(Contents) /\ Len(queue') <= MaxQueued
  BY <1>3, <1>4, InterfaceAssumption
<1>6. content' \in [Events -> Contents \union {"none"}]
  BY <1>2, <1>3, <1>5 DEF IInv, InterfaceTypeOK
<1>7. Kept' /\ last_error' = last_error
  BY <1>3, SucceedKeeps
<1>8. InterfaceTypeOK'
  BY <1>2, <1>3, <1>5, <1>6, <1>7 DEF IInv, InterfaceTypeOK
<1>9. \A p : p \in CallersToFree' <=> p \in CallersToFree \/ p = new
  <2>1. \A p : p \in CallersToFree <=> p \in owned
    BY Addresses DEF CallersToFree, MayOverwrite
  <2> QED BY <1>2, <1>3, <2>1 DEF CallersToFree
<1>10. last_error # new
  BY <1>2, Addresses DEF IInv, InterfaceTypeOK
<1>11. NoDangling'
  BY <1>3, <1>9 DEF IInv, NoDangling
<1>12. NoLeak' /\ Disconnecting'
  BY <1>3, <1>7, <1>9, <1>10 DEF IInv, NoLeak, Disconnecting
<1> QED BY <1>7, <1>8, <1>11, <1>12 DEF IInv

LEMMA ReceivesNoneKeeps ==
  ASSUME IInv, MayOverwrite, ReceivesNone
  PROVE  IInv'
<1>1. /\ Succeed /\ event' = Null /\ fresh' = TRUE
      /\ UNCHANGED <<live, owned, content, text, lent, calling, library>>
  BY DEF ReceivesNone
<1>2. Kept' /\ last_error' = last_error
  BY <1>1, SucceedKeeps
<1>3. InterfaceTypeOK'
  BY <1>1, <1>2 DEF IInv, InterfaceTypeOK, library
<1>4. \A p : p \in CallersToFree' <=> p \in CallersToFree
  BY <1>1, Addresses DEF CallersToFree, MayOverwrite
<1>5. NoDangling' /\ NoLeak' /\ Disconnecting'
  BY <1>1, <1>2, <1>4 DEF IInv, NoDangling, NoLeak, Disconnecting
<1> QED BY <1>2, <1>3, <1>5 DEF IInv

LEMMA ReceiveFailsKeeps ==
  ASSUME IInv, NEW valid, MayOverwrite, ReceiveFails(valid)
  PROVE  IInv'
<1>1. /\ InterfaceTypeOK /\ RejectCall /\ fresh' = FALSE
      /\ UNCHANGED <<owned, event, content, text, lent, calling, library>>
  BY DEF IInv, ReceiveFails
<1>2. PICK error \in Errors :
        /\ error \notin live /\ live' = (live \ {last_error}) \union {error}
        /\ last_error' = error
  BY <1>1, RejectMakes
<1>3. InterfaceTypeOK'
  BY <1>1, <1>2 DEF InterfaceTypeOK, library
<1>4. \A p : p \in CallersToFree' <=> p \in CallersToFree
  BY <1>1, Addresses DEF CallersToFree, MayOverwrite
<1> QED BY <1>1, <1>2, <1>3, <1>4, ErrorKept

LEMMA EventFreeKeeps ==
  ASSUME IInv, NEW t \in Threads, ac_event_free(t)
  PROVE  IInv'
<1>1. Succeed /\ fresh /\ fresh' = FALSE /\ UNCHANGED <<owned, event, calling, library>>
  BY DEF ac_event_free
<1>2. (event \in Events \union {Null} /\ last_error # event) \/ event = Null
  BY Addresses DEF IInv, InterfaceTypeOK
<1>3. /\ live' = IF event = Null THEN live ELSE live \ {event}
      /\ text' \in [Errors \union Events -> 0 .. 2]
      /\ lent' \in [Errors \union Events -> SUBSET (1 .. 2)]
      /\ \A q \in DOMAIN lent' : lent'[q] \subseteq {text'[q]}
      /\ content' \in [Events -> Contents \union {"none"}]
  <2>1. CASE event = Null
    <3>1. UNCHANGED <<live, text, lent, content>>
      BY <2>1 DEF ac_event_free
    <3> QED BY <2>1, <3>1 DEF IInv, InterfaceTypeOK, NoDangling
  <2>2. CASE event # Null
    <3>1. event \in Events /\ Drops(event) /\ content' = [content EXCEPT ![event] = "none"]
      BY <2>2 DEF ac_event_free, IInv, InterfaceTypeOK
    <3>2. content' \in [Events -> Contents \union {"none"}]
      BY <3>1 DEF IInv, InterfaceTypeOK
    <3> QED BY <2>2, <3>1, <3>2, DropsStrings
  <2> QED BY <2>1, <2>2
<1>4. last_error \in live => last_error \in live'
  BY <1>2, <1>3, Addresses
<1>5. Kept' /\ last_error' = last_error
  BY <1>1, <1>4, SucceedKeeps
<1>6. InterfaceTypeOK'
  BY <1>1, <1>3, <1>5 DEF IInv, InterfaceTypeOK, library
<1>7. \A p : p \in CallersToFree' <=> p \in owned
  BY <1>1 DEF CallersToFree
<1>8. \A p : p \in CallersToFree <=> p \in owned \/ (p = event /\ p # Null)
  BY <1>1, <1>2, Addresses DEF CallersToFree, IInv, InterfaceTypeOK
<1>9. event \notin owned
  BY Addresses DEF IInv, InterfaceTypeOK
<1>10. NoDangling'
  BY <1>3, <1>7, <1>8, <1>9 DEF IInv, NoDangling
<1>11. NoLeak'
  <2>1. \A p \in live' : p \in live /\ (p = event => event = Null)
    BY <1>3
  <2>2. Null \notin live
    BY Addresses DEF IInv, InterfaceTypeOK
  <2> QED BY <1>1, <1>5, <1>7, <1>8, <2>1, <2>2 DEF IInv, NoLeak
<1>12. Disconnecting'
  BY <1>1 DEF IInv, Disconnecting
<1> QED BY <1>5, <1>6, <1>10, <1>11, <1>12 DEF IInv

-----------------------------------------------------------------------------
(* The connection.                                                         *)

LEMMA ConnectKeeps ==
  ASSUME IInv, NEW valid \in BOOLEAN, NEW connects \in BOOLEAN,
         ac_client_connect(Main, valid, connects)
  PROVE  IInv'
<1>1. Main \in Threads
  BY InterfaceAssumption
<1>2. CASE Fails
  BY <1>1, <1>2, FailsKeeps
<1>3. CASE /\ Succeed /\ live' = live \union {"connection"}
           /\ owned' = owned \union {"connection"} /\ session' = "active"
           /\ UNCHANGED <<heap, calling, queue, metrics>>
  <2>1. Kept' /\ last_error' = last_error
    BY <1>3, SucceedKeeps
  <2>2. "connection" \in Boxes
    BY DEF Boxes
  <2>3. InterfaceTypeOK'
    BY <1>3, <2>1, <2>2 DEF IInv, InterfaceTypeOK, heap
  <2>4. \A p : p \in CallersToFree' <=> p \in CallersToFree \/ p = "connection"
    BY <1>3 DEF CallersToFree, heap
  <2>5. last_error # "connection"
    BY <2>2, Addresses DEF IInv, InterfaceTypeOK
  <2>6. \A t \in Threads : calling[t] # "disconnect"
    BY DEF ac_client_connect, IdleThread, IInv, Disconnecting
  <2>7. NoDangling'
    BY <1>3, <2>4 DEF IInv, NoDangling, heap
  <2>8. NoLeak' /\ Disconnecting'
    BY <1>3, <2>1, <2>4, <2>5, <2>6 DEF IInv, NoLeak, Disconnecting
  <2> QED BY <2>1, <2>3, <2>7, <2>8 DEF IInv
<1> QED BY <1>2, <1>3 DEF ac_client_connect

LEMMA DisconnectKeeps ==
  ASSUME IInv, NEW valid \in BOOLEAN, ac_connection_disconnect(Main, valid)
  PROVE  IInv'
<1>1. Main \in Threads
  BY InterfaceAssumption
<1>2. CASE Fails
  BY <1>1, <1>2, FailsKeeps
<1>3. CASE /\ valid /\ owned' = owned \ {"connection"}
           /\ calling' = [calling EXCEPT ![Main] = "disconnect"]
           /\ UNCHANGED <<live, heap, last_error, library>>
  <2>1. calling \in [Threads -> {"none", "disconnect", "init_metrics"}]
    BY DEF IInv, InterfaceTypeOK
  <2>2. /\ calling' \in [Threads -> {"none", "disconnect", "init_metrics"}]
        /\ calling'[Main] = "disconnect"
        /\ \A t \in Threads : t # Main => calling'[t] = calling[t]
    BY <1>1, <1>3, <2>1
  <2>3. InterfaceTypeOK'
    BY <1>3, <2>2 DEF IInv, InterfaceTypeOK, heap, library
  <2>4. "connection" \in Boxes
    BY DEF Boxes
  <2>5. \A p : p \in CallersToFree' <=> p \in CallersToFree /\ p # "connection"
    BY <1>3, <2>4, Addresses DEF CallersToFree, heap
  <2>6. NoDangling'
    BY <1>3, <2>5 DEF IInv, NoDangling, heap
  <2>7. NoLeak'
    <3>1. \A p \in live' : \/ p \in CallersToFree' \/ p = last_error'
                           \/ p = "connection" /\ \E t \in Threads : calling'[t] = "disconnect"
      BY <1>1, <1>3, <2>2, <2>5, LeakIs DEF IInv
    <3>2. last_error' \notin CallersToFree'
      BY <1>3, <2>5 DEF IInv, NoLeak
    <3> QED BY <3>1, <3>2 DEF NoLeak
  <2>8. Disconnecting'
    BY <1>3, <2>2 DEF IInv, Disconnecting
  <2>9. Kept'
    BY <1>3 DEF IInv, Kept
  <2> QED BY <2>3, <2>6, <2>7, <2>8, <2>9 DEF IInv
<1> QED BY <1>2, <1>3 DEF ac_connection_disconnect

LEMMA DisconnectedKeeps ==
  ASSUME IInv, Disconnected(Main)
  PROVE  IInv'
<1>1. Main \in Threads /\ calling[Main] = "disconnect"
  BY InterfaceAssumption DEF Disconnected
<1>2. /\ Succeed /\ calling' = [calling EXCEPT ![Main] = "none"]
      /\ live' = live \ {"connection"} /\ session' = "none" /\ queue' = << >>
      /\ UNCHANGED <<owned, heap, metrics>>
  BY DEF Disconnected
<1>3. calling \in [Threads -> {"none", "disconnect", "init_metrics"}]
  BY DEF IInv, InterfaceTypeOK
<1>4. /\ calling' \in [Threads -> {"none", "disconnect", "init_metrics"}]
      /\ \A t \in Threads : calling'[t] # "disconnect"
  BY <1>1, <1>2, <1>3 DEF IInv, Disconnecting
<1>5. "connection" \in Boxes /\ "connection" \notin owned
  BY <1>1 DEF Boxes, IInv, Disconnecting
<1>6. last_error # "connection"
  BY <1>5, Addresses DEF IInv, InterfaceTypeOK
<1>7. Kept' /\ last_error' = last_error
  BY <1>1, <1>2, <1>6, SucceedKeeps
<1>8. queue' \in Seq(Contents) /\ Len(queue') <= MaxQueued
  BY <1>2, InterfaceAssumption
<1>9. InterfaceTypeOK'
  BY <1>2, <1>4, <1>7, <1>8 DEF IInv, InterfaceTypeOK, heap
<1>10. (\A p : p \in CallersToFree' <=> p \in CallersToFree) /\ "connection" \notin CallersToFree
  BY <1>2, <1>5, Addresses DEF CallersToFree, heap
<1>11. NoDangling'
  BY <1>2, <1>10 DEF IInv, NoDangling, heap
<1>12. NoLeak'
  <2>1. \A p \in live' : p \in CallersToFree' \/ p = last_error'
    BY <1>2, <1>7, <1>10, LeakIs DEF IInv
  <2>2. last_error' \notin CallersToFree'
    BY <1>7, <1>10 DEF IInv, NoLeak
  <2> QED BY <2>1, <2>2 DEF NoLeak
<1>13. Disconnecting'
  BY <1>4 DEF Disconnecting
<1> QED BY <1>7, <1>9, <1>11, <1>12, <1>13 DEF IInv

LEMMA PrimaryKeeps ==
  ASSUME IInv, Primary
  PROVE  IInv'
<1>1. UNCHANGED <<live, owned, heap, last_error, calling, metrics>>
  BY DEF Primary, PrimaryQueues, PrimaryLeaves, PrimaryEnds
<1>2. queue \in Seq(Contents) /\ Len(queue) <= MaxQueued
  BY DEF IInv, InterfaceTypeOK
<1>3. /\ queue' \in Seq(Contents) /\ Len(queue') <= MaxQueued
      /\ session' \in {"none", "active", "leaving", "ended"}
  <2>1. CASE \E c \in Contents : PrimaryQueues(c)
    <3>1. PICK c \in Contents : PrimaryQueues(c)
      BY <2>1
    <3>2. Len(queue) < MaxQueued /\ queue' = Append(queue, c)
      BY <3>1 DEF PrimaryQueues
    <3>3. session' \in {"none", "active", "leaving", "ended"}
      BY <3>1 DEF PrimaryQueues
    <3> QED BY <1>2, <3>2, <3>3, InterfaceAssumption
  <2>2. CASE PrimaryLeaves \/ PrimaryEnds
    BY <1>2, <2>2 DEF PrimaryLeaves, PrimaryEnds
  <2> QED BY <2>1, <2>2 DEF Primary
<1>4. InterfaceTypeOK'
  BY <1>1, <1>3 DEF IInv, InterfaceTypeOK, heap
<1>5. NoDangling' /\ NoLeak' /\ Kept' /\ Disconnecting'
  BY <1>1 DEF IInv, NoDangling, NoLeak, CallersToFree, Kept, Disconnecting, heap
<1> QED BY <1>4, <1>5 DEF IInv

-----------------------------------------------------------------------------
(* The metrics.                                                            *)

LEMMA MetricsTyped ==
  ASSUME IInv
  PROVE  /\ metrics \in [initialized : BOOLEAN, runs : BOOLEAN]
         /\ calling \in [Threads -> {"none", "disconnect", "init_metrics"}]
  BY DEF IInv, InterfaceTypeOK

LEMMA ExporterGone ==
  ASSUME IInv, owned' = owned \ {"exporter"}, UNCHANGED heap
  PROVE  /\ \A p : p \in CallersToFree' <=> p \in CallersToFree /\ p # "exporter"
         /\ last_error # "exporter" /\ "exporter" \in Boxes
<1>1. "exporter" \in Boxes
  BY DEF Boxes
<1> QED BY <1>1, Addresses DEF CallersToFree, heap, IInv, InterfaceTypeOK

LEMMA InitMetricsKeeps ==
  ASSUME IInv, NEW t \in Threads, NEW valid \in BOOLEAN, NEW empty \in BOOLEAN,
         ac_init_metrics(t, valid, empty)
  PROVE  IInv'
<1>1. CASE Fails
  BY <1>1, FailsKeeps
<1>2. CASE /\ owned' = owned \ {"exporter"} /\ init_metrics(t)
           /\ UNCHANGED <<heap, session, queue>>
  <2>1. /\ \A p : p \in CallersToFree' <=> p \in CallersToFree /\ p # "exporter"
        /\ last_error # "exporter" /\ "exporter" \in Boxes
    BY <1>2, ExporterGone
  <2>2. CASE metrics.initialized
    <3>1. PICK error : error = CHOOSE e \in Errors \ live : TRUE
      OBVIOUS
    <3>2. /\ error \in Errors /\ error \notin live
          /\ last_error' = error /\ live' = (live \ {"exporter", last_error}) \union {error}
          /\ UNCHANGED <<calling, metrics>>
      BY <1>2, <2>2, <3>1 DEF init_metrics
    <3>3. InterfaceTypeOK'
      BY <1>2, <3>2 DEF IInv, InterfaceTypeOK, heap
    <3>4. NoDangling'
      <4>1. \A p \in CallersToFree : p \in live /\ p # last_error
        BY LeakIs DEF IInv, NoDangling
      <4> QED BY <1>2, <2>1, <3>2, <4>1 DEF IInv, NoDangling, heap
    <3>5. NoLeak'
      <4>1. error \notin CallersToFree
        BY <3>2 DEF IInv, NoDangling
      <4>2. \A p \in live : \/ p \in CallersToFree \/ p = last_error
                            \/ p = "connection" /\ \E u \in Threads : calling[u] = "disconnect"
        BY LeakIs DEF IInv
      <4>3. \A p \in live' : \/ p \in CallersToFree' \/ p = error
                             \/ p = "connection" /\ \E u \in Threads : calling[u] = "disconnect"
        BY <2>1, <3>2, <4>2
      <4> QED BY <2>1, <3>2, <4>1, <4>3 DEF NoLeak
    <3>6. Kept'
      BY <3>2, Addresses DEF Kept
    <3>7. Disconnecting'
      BY <1>2, <3>2 DEF IInv, Disconnecting
    <3> QED BY <3>3, <3>4, <3>5, <3>6, <3>7 DEF IInv
  <2>3. CASE ~metrics.initialized
    <3>1. /\ live' = live \ {"exporter"}
          /\ metrics' = [metrics EXCEPT !.initialized = TRUE, !.runs = TRUE]
          /\ calling' = [calling EXCEPT ![t] = "init_metrics"]
          /\ UNCHANGED last_error
      BY <1>2, <2>3 DEF init_metrics
    <3>2. metrics' \in [initialized : BOOLEAN, runs : BOOLEAN]
      BY <3>1, MetricsTyped
    <3>3. calling[t] = "none"
      BY DEF ac_init_metrics, Prepares, IdleThread
    <3>4. /\ calling' \in [Threads -> {"none", "disconnect", "init_metrics"}]
          /\ \A u \in Threads : calling'[u] = "disconnect" <=> calling[u] = "disconnect"
      BY <3>1, <3>3, MetricsTyped
    <3>5. InterfaceTypeOK'
      BY <1>2, <3>1, <3>2, <3>4 DEF IInv, InterfaceTypeOK, heap
    <3>6. NoDangling'
      BY <1>2, <2>1, <3>1 DEF IInv, NoDangling, heap
    <3>7. NoLeak'
      <4>1. \A p \in live' : \/ p \in CallersToFree' \/ p = last_error
                             \/ p = "connection" /\ \E u \in Threads : calling'[u] = "disconnect"
        BY <2>1, <3>1, <3>4, LeakIs DEF IInv
      <4>2. last_error \notin CallersToFree'
        BY <2>1 DEF IInv, NoLeak
      <4> QED BY <3>1, <4>1, <4>2 DEF NoLeak
    <3>8. Kept'
      BY <2>1, <3>1 DEF IInv, Kept
    <3>9. Disconnecting'
      BY <1>2, <3>4 DEF IInv, Disconnecting
    <3> QED BY <3>5, <3>6, <3>7, <3>8, <3>9 DEF IInv
  <2> QED BY <2>2, <2>3
<1> QED BY <1>1, <1>2 DEF ac_init_metrics

LEMMA MetricsInitKeeps ==
  ASSUME IInv, NEW t \in Threads, NEW starts \in BOOLEAN, MetricsInit(t, starts)
  PROVE  IInv'
<1>1. /\ calling[t] = "init_metrics" /\ calling' = [calling EXCEPT ![t] = "none"]
      /\ metrics' = [initialized |-> starts, runs |-> FALSE]
      /\ UNCHANGED <<owned, heap, session, queue>>
  BY DEF MetricsInit
<1>2. metrics' \in [initialized : BOOLEAN, runs : BOOLEAN]
  BY <1>1, MetricsTyped
<1>3. /\ calling' \in [Threads -> {"none", "disconnect", "init_metrics"}]
      /\ \A u \in Threads : calling'[u] = "disconnect" <=> calling[u] = "disconnect"
  BY <1>1, MetricsTyped
<1>4. \A p : p \in CallersToFree' <=> p \in CallersToFree
  BY <1>1 DEF CallersToFree, heap
<1>5. Disconnecting'
  BY <1>1, <1>3 DEF IInv, Disconnecting
<1>6. CASE starts
  <2>1. Succeed /\ live' = live
    BY <1>6 DEF MetricsInit
  <2>2. Kept' /\ last_error' = last_error
    BY <2>1, SucceedKeeps
  <2>3. InterfaceTypeOK'
    BY <1>1, <1>2, <1>3, <2>1, <2>2 DEF IInv, InterfaceTypeOK, heap
  <2>4. NoDangling'
    BY <1>1, <1>4, <2>1 DEF IInv, NoDangling, heap
  <2>5. NoLeak'
    <3>1. \A p \in live' : \/ p \in CallersToFree' \/ p = last_error'
                           \/ p = "connection" /\ \E u \in Threads : calling'[u] = "disconnect"
      BY <1>3, <1>4, <2>1, <2>2, LeakIs DEF IInv
    <3> QED BY <1>4, <2>2, <3>1 DEF IInv, NoLeak
  <2> QED BY <1>5, <2>2, <2>3, <2>4, <2>5 DEF IInv
<1>7. CASE ~starts
  <2>1. InterfaceTypeOK /\ RejectCall
    BY <1>7 DEF IInv, MetricsInit
  <2>2. PICK error \in Errors :
          /\ error \notin live /\ live' = (live \ {last_error}) \union {error}
          /\ last_error' = error
    BY <2>1, RejectMakes
  <2>3. InterfaceTypeOK'
    BY <1>1, <1>2, <1>3, <2>1, <2>2 DEF InterfaceTypeOK, heap
  <2>4. \A p \in CallersToFree : p \in live /\ p # last_error
    BY LeakIs DEF IInv, NoDangling
  <2>5. NoDangling'
    BY <1>1, <1>4, <2>2, <2>4 DEF IInv, NoDangling, heap
  <2>6. NoLeak'
    <3>1. \A p \in live' : \/ p \in CallersToFree' \/ p = error
                           \/ p = "connection" /\ \E u \in Threads : calling'[u] = "disconnect"
      BY <1>3, <1>4, <2>2, LeakIs DEF IInv
    <3>2. error \notin CallersToFree'
      BY <1>4, <2>2, <2>4
    <3> QED BY <2>2, <3>1, <3>2 DEF NoLeak
  <2>7. Kept'
    BY <2>2, Addresses DEF Kept
  <2> QED BY <1>5, <2>3, <2>5, <2>6, <2>7 DEF IInv
<1> QED BY <1>6, <1>7

-----------------------------------------------------------------------------
(* Every call.                                                             *)

LEMMA ErrorsKeep ==
  ASSUME IInv, NEW t \in Threads, Errors_(t)
  PROVE  IInv'
<1>1. CASE \E valid \in BOOLEAN : ac_error_as_str(t, valid)
  BY <1>1, FailsKeeps, LendsKeeps DEF ac_error_as_str
<1> QED BY <1>1, LastErrorKeeps, ErrorFreeKeeps DEF Errors_

\* The calls that make and free the objects of which there is one of a kind.
LEMMA ObjectsKeep ==
  ASSUME IInv, NEW t \in Threads, Objects(t)
  PROVE  IInv'
<1>1. \/ Fails \/ \E box \in Boxes \ {"connection"} : Creates(box) \/ Frees(t, box)
  BY DEF Objects, Boxes, ac_configuration_free, ac_lock_state_new, ac_lock_state_free,
         ac_display_new, ac_display_free, ac_client_free, ac_client_new,
         ac_configuration_from_argv, ac_configuration_from_uri, ac_client_from_args,
         ac_client_from_uri
<1> QED BY <1>1, FailsKeeps, CreatesKeeps, FreesKeeps

LEMMA ConnectionsKeep ==
  ASSUME IInv, Connections(Main)
  PROVE  IInv'
<1>1. Main \in Threads
  BY InterfaceAssumption
<1>2. CASE \E valid \in BOOLEAN : \/ ac_connection_poll_event(Main, valid)
                                  \/ ac_connection_wait_event(Main, valid)
                                  \/ ac_connection_wait_event_timeout(Main, valid)
  BY <1>1, <1>2, ReceivesKeeps, ReceivesNoneKeeps, ReceiveFailsKeeps
     DEF ac_connection_poll_event, ac_connection_wait_event, ac_connection_wait_event_timeout,
         CanReceive
<1>3. CASE \E valid \in BOOLEAN : \/ ac_connection_disconnect(Main, valid)
                                  \/ ac_connection_free(Main, valid)
  BY <1>3, DisconnectKeeps DEF ac_connection_free
<1>4. CASE \E valid, connects \in BOOLEAN : ac_client_connect(Main, valid, connects)
  BY <1>4, ConnectKeeps
<1> QED BY <1>1, <1>2, <1>3, <1>4, DisconnectedKeeps, EventFreeKeeps DEF Connections

LEMMA AccessorsKeep ==
  ASSUME IInv, Accessors(Main)
  PROVE  IInv'
<1>1. Main \in Threads
  BY InterfaceAssumption
<1>2. event \in Events \union {Null}
  BY DEF IInv, InterfaceTypeOK
<1>3. \/ Fails \/ Reads
      \/ event \in Events /\ Lends(event)
      \/ Creates("display_configuration") \/ Frees(Main, "display_configuration")
  <2>1. CASE \E valid \in BOOLEAN : \/ ac_event_get_type(Main, valid)
                                    \/ ac_event_draw_get_frame(Main, valid)
                                    \/ ac_event_draw_get_origin(Main, valid)
                                    \/ ac_event_draw_get_size(Main, valid)
                                    \/ ac_event_draw_get_pixels(Main, valid)
                                    \/ ac_event_cursor_get_hotspot(Main, valid)
                                    \/ ac_event_cursor_get_size(Main, valid)
                                    \/ ac_event_cursor_get_pixels(Main, valid)
                                    \/ ac_event_quit_get_reason_type(Main, valid)
    BY <2>1 DEF ac_event_get_type, ac_event_draw_get_frame, ac_event_draw_get_origin,
         ac_event_draw_get_size, ac_event_draw_get_pixels, ac_event_cursor_get_hotspot,
         ac_event_cursor_get_size, ac_event_cursor_get_pixels, ac_event_quit_get_reason_type,
         Accesses
  <2>2. CASE \E valid \in BOOLEAN : \/ ac_event_quit_get_server_reason(Main, valid)
                                    \/ ac_event_quit_get_error_message(Main, valid)
    BY <1>2, <2>2 DEF ac_event_quit_get_server_reason, ac_event_quit_get_error_message, Passed
  <2>3. CASE \E valid \in BOOLEAN : \/ ac_event_display_get_configuration(Main, valid)
                                    \/ ac_connection_display_configuration(Main, valid)
    BY <2>3 DEF ac_event_display_get_configuration, ac_connection_display_configuration
  <2>4. CASE \E valid \in BOOLEAN :
               \/ ac_display_configuration_get_id(Main, valid)
               \/ ac_display_configuration_encoder_count(Main, valid)
               \/ ac_display_configuration_get_display_count(Main, valid)
               \/ \E inBounds \in BOOLEAN :
                    ac_display_configuration_get_display_at(Main, valid, inBounds)
    BY <2>4 DEF ac_display_configuration_get_id, ac_display_configuration_encoder_count,
         ac_display_configuration_get_display_count, ac_display_configuration_get_display_at,
         Inspects
  <2> QED BY <2>1, <2>2, <2>3, <2>4 DEF Accessors, ac_display_configuration_free
<1>4. "display_configuration" \in Boxes \ {"connection"}
  BY DEF Boxes
<1> QED BY <1>1, <1>3, <1>4, FailsKeeps, ReadsKeeps, LendsKeeps, CreatesKeeps, FreesKeeps

LEMMA InputsKeep ==
  ASSUME IInv, InputCalls(Main)
  PROVE  IInv'
<1>1. Fails \/ Reads
  BY DEF InputCalls, ac_connection_key_press, ac_connection_key_release,
         ac_connection_request_display_change, ac_connection_pointer_move,
         ac_connection_mouse_button_press, ac_connection_mouse_button_release, InputsAt, Inputs
<1> QED BY <1>1, FailsKeeps, ReadsKeeps, InterfaceAssumption

LEMMA MetricsKeep ==
  ASSUME IInv, NEW t \in Threads, Metrics(t)
  PROVE  IInv'
<1>1. CASE \/ ac_metrics_exporter_free(t) \/ ac_metrics_initialized(t)
           \/ \E valid \in BOOLEAN : ac_metrics_exporter_new(t, valid)
  <2>1. Fails \/ Reads \/ Creates("exporter") \/ Frees(t, "exporter")
    BY <1>1 DEF ac_metrics_exporter_free, ac_metrics_initialized, ac_metrics_exporter_new
  <2>2. "exporter" \in Boxes \ {"connection"}
    BY DEF Boxes
  <2> QED BY <2>1, <2>2, FailsKeeps, ReadsKeeps, CreatesKeeps, FreesKeeps
<1>2. CASE \E valid, empty \in BOOLEAN : ac_init_metrics(t, valid, empty)
  BY <1>2, InitMetricsKeeps
<1>3. CASE \E starts \in BOOLEAN : MetricsInit(t, starts)
  BY <1>3, MetricsInitKeeps
<1> QED BY <1>1, <1>2, <1>3 DEF Metrics

LEMMA Starts ==
  InterfaceInit => IInv
<1> SUFFICES ASSUME InterfaceInit PROVE IInv
  OBVIOUS
<1>1. queue \in Seq(Contents) /\ Len(queue) <= MaxQueued
  BY InterfaceAssumption DEF InterfaceInit
<1>2. metrics \in [initialized : BOOLEAN, runs : BOOLEAN]
  BY DEF InterfaceInit
<1>3. InterfaceTypeOK
  <2>1. /\ text \in [Errors \union Events -> 0 .. 2]
        /\ content \in [Events -> Contents \union {"none"}]
        /\ calling \in [Threads -> {"none", "disconnect", "init_metrics"}]
    BY DEF InterfaceInit
  <2>2. lent \in [Errors \union Events -> SUBSET (1 .. 2)]
    BY DEF InterfaceInit
  <2>3. fresh \in BOOLEAN /\ session \in {"none", "active", "leaving", "ended"}
    BY DEF InterfaceInit
  <2> QED BY <1>1, <1>2, <2>1, <2>2, <2>3 DEF InterfaceInit, InterfaceTypeOK
<1>4. CallersToFree = {}
  BY Addresses DEF InterfaceInit, CallersToFree
<1>5. NoDangling /\ NoLeak /\ Kept /\ Disconnecting
  BY <1>4 DEF InterfaceInit, NoDangling, NoLeak, Kept, Disconnecting
<1> QED BY <1>3, <1>5 DEF IInv

LEMMA Stutters ==
  ASSUME IInv, UNCHANGED interfaceVars
  PROVE  IInv'
<1>1. InterfaceTypeOK'
  BY DEF IInv, InterfaceTypeOK, interfaceVars
<1>2. NoDangling' /\ NoLeak' /\ Kept' /\ Disconnecting'
  BY DEF IInv, NoDangling, NoLeak, CallersToFree, Kept, Disconnecting, interfaceVars
<1> QED BY <1>1, <1>2 DEF IInv

LEMMA StepKeeps ==
  IInv /\ [InterfaceNext]_interfaceVars => IInv'
<1> SUFFICES ASSUME IInv, [InterfaceNext]_interfaceVars PROVE IInv'
  OBVIOUS
<1>1. CASE \E t \in Threads : Errors_(t) \/ Objects(t) \/ Metrics(t)
  BY <1>1, ErrorsKeep, ObjectsKeep, MetricsKeep
<1>2. CASE Connections(Main) \/ Accessors(Main) \/ InputCalls(Main)
  BY <1>2, ConnectionsKeep, AccessorsKeep, InputsKeep
<1>3. CASE Primary
  BY <1>3, PrimaryKeeps
<1>4. CASE UNCHANGED interfaceVars
  BY <1>4, Stutters
<1> QED BY <1>1, <1>2, <1>3, <1>4 DEF InterfaceNext

LEMMA InterfaceInvariant ==
  InterfaceSpec => []IInv
  BY Starts, StepKeeps, PTL DEF InterfaceSpec

-----------------------------------------------------------------------------
(* The theorems.                                                           *)

\* The state of the interface keeps its type in every call of ffi.rs.
THEOREM InterfaceTypes == InterfaceSpec => []InterfaceTypeOK
<1>1. IInv => InterfaceTypeOK
  BY DEF IInv
<1> QED BY <1>1, InterfaceInvariant, PTL

\* However the calls of the caller's threads interleave, no pointer that it
\* owns and no string that it was lent refers to something freed: not the
\* AcError of an earlier failure, not the event left in its variable by a poll
\* that found none or that failed.
THEOREM NothingDangles == InterfaceSpec => []NoDangling
<1>1. IInv => NoDangling
  BY DEF IInv
<1> QED BY <1>1, InterfaceInvariant, PTL

\* Whatever path a call returns by, all that is allocated is the caller's to
\* free, the error kept in LAST_ERROR, which is not the caller's as well, or
\* the connection that its thread is disconnecting.
THEOREM NothingLeaks == InterfaceSpec => []NoLeak
<1>1. IInv => NoLeak
  BY DEF IInv
<1> QED BY <1>1, InterfaceInvariant, PTL
=============================================================================
