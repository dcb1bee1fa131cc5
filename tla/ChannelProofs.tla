--------------------------- MODULE ChannelProofs ---------------------------
(***************************************************************************)
(* What the channels promise.  The in-order codec implements the message   *)
(* queue, for every set of messages and every length of their delimiters   *)
(* and bodies, as long as no peer of an async duplex sends a second        *)
(* message before the split.  The out-of-order codec implements the        *)
(* message bag.  The tunnel carries the data of any number of streams in   *)
(* order, closes each behind its data and tracks it until it is done.      *)
(***************************************************************************)
EXTENDS InOrderChannel, OutOfOrderChannel, Tunnel, SequenceTheorems, TLAPS

\* Where the message before the next one to be taken ends.
TakenEnd == IF taken = 0 THEN 0 ELSE ends[taken]

\* Messages lie in the stream one behind the other, none of them empty.
Laid ==
  /\ \A i \in 1 .. Len(sent) : ends[i] = Start(i) + Size(sent[i])
  /\ \A i \in 1 .. Len(sent) : ends[i] > 0
  /\ \A i, j \in 1 .. Len(sent) : i < j => ends[i] < ends[j]

\* The buffer begins where a message does, and never reaches beyond what was
\* written.
Aligned ==
  /\ taken <= Len(sent)
  /\ consumed = TakenEnd
  /\ consumed <= arrived /\ arrived <= readable /\ readable <= Written

\* Before an async duplex is split there is one message at most.
Unpipelined == kind = "async" /\ ~split => Len(sent) <= 1

CodecIInv == InOrderTypeOK /\ Laid /\ Aligned /\ Unpipelined

LEMMA SizeIsPositive ==
  \A m \in Messages : DelimLen[m] \in Nat /\ BodyLen[m] \in Nat /\ Size(m) \in Nat /\ Size(m) > 0
  BY SizesAssumption DEF Size

\* Everything written reaches from the end of what was taken.
LEMMA EndsAreWithin ==
  ASSUME InOrderTypeOK, Laid
  PROVE  /\ Written \in Nat
         /\ \A i \in 1 .. Len(sent) : ends[i] \in Nat /\ ends[i] <= Written
  BY DEF InOrderTypeOK, Laid, Written

\* The message at the head of the buffer is the one after the last taken.
LEMMA HeadIsNext ==
  ASSUME CodecIInv, NEW i \in DOMAIN sent, AtHead(i)
  PROVE  i = taken + 1
<1>1. i \in 1 .. Len(sent) /\ taken \in 0 .. Len(sent) /\ Start(i) = TakenEnd
  BY DEF CodecIInv, InOrderTypeOK, Aligned, AtHead
<1>2. \A j \in 1 .. Len(sent) : ends[j] \in Nat /\ ends[j] > 0
  BY EndsAreWithin DEF CodecIInv, Laid
<1>3. CASE i = 1
  BY <1>1, <1>2, <1>3 DEF Start, TakenEnd
<1>4. CASE i # 1
  <2>1. i - 1 \in 1 .. Len(sent) /\ ends[i - 1] = TakenEnd
    BY <1>1, <1>4 DEF Start
  <2>2. taken \in 1 .. Len(sent) /\ ends[taken] = ends[i - 1]
    BY <1>1, <1>2, <2>1 DEF TakenEnd
  <2>3. ~(taken < i - 1) /\ ~(i - 1 < taken)
    BY <1>2, <2>1, <2>2 DEF CodecIInv, Laid
  <2> QED BY <1>1, <2>1, <2>2, <2>3
<1> QED BY <1>3, <1>4

LEMMA CodecInit ==
  ASSUME InOrderInit
  PROVE  CodecIInv
<1>1. InOrderTypeOK /\ Len(sent) = 0
  <2>1. sent = << >> /\ ends = << >> /\ received = << >> /\ split \in BOOLEAN
    BY DEF InOrderInit
  <2>2. sent \in Seq(Messages) /\ ends \in Seq(Nat) /\ received \in Seq(Messages)
        /\ Len(ends) = 0 /\ Len(sent) = 0
    BY <2>1
  <2>3. result \in Results
    BY DEF InOrderInit, Results
  <2> QED BY <2>1, <2>2, <2>3 DEF InOrderInit, InOrderTypeOK
<1>2. Laid
  BY <1>1 DEF Laid
<1>3. Aligned /\ Unpipelined
  BY <1>1 DEF InOrderInit, Aligned, Unpipelined, TakenEnd, Written
<1> QED BY <1>1, <1>2, <1>3 DEF CodecIInv

\* A send appends a message behind the last.
LEMMA SendPreserves ==
  ASSUME ~Pipelined, CodecIInv, NEW m \in Messages, send(m)
  PROVE  CodecIInv'
<1> PICK n \in Nat : n = Len(sent)
  BY DEF CodecIInv, InOrderTypeOK
<1>1. n \in Nat /\ Len(ends) = n /\ Written \in Nat
      /\ \A i \in 1 .. n : ends[i] \in Nat /\ ends[i] <= Written
  BY EndsAreWithin DEF CodecIInv, InOrderTypeOK
<1>2. Size(m) \in Nat /\ Size(m) > 0
  BY SizeIsPositive
<1>3. /\ sent' = Append(sent, m) /\ ends' = Append(ends, Written + Size(m))
      /\ sent \in Seq(Messages) /\ ends \in Seq(Nat)
  BY DEF send, CodecIInv, InOrderTypeOK
<1>4. /\ sent' \in Seq(Messages) /\ ends' \in Seq(Nat)
      /\ Len(sent') = n + 1 /\ Len(ends') = n + 1
      /\ \A i \in 1 .. n : sent'[i] = sent[i] /\ ends'[i] = ends[i]
      /\ sent'[n + 1] = m /\ ends'[n + 1] = Written + Size(m)
  BY <1>1, <1>2, <1>3
<1>5. InOrderTypeOK'
  BY <1>4 DEF CodecIInv, InOrderTypeOK, send
<1>6. Laid'
  <2>1. ends'[n + 1] = Start(n + 1)' + Size(m)
    BY <1>1, <1>3, <1>4 DEF Start, Written
  <2>2. \A i \in 1 .. n : Start(i)' = Start(i)
    <3> SUFFICES ASSUME NEW i \in 1 .. n PROVE Start(i)' = Start(i)
      OBVIOUS
    <3>1. i # 1 => i - 1 \in 1 .. n
      BY <1>1
    <3> QED BY <1>4, <3>1 DEF Start
  <2>3. \A i \in 1 .. n + 1 : ends'[i] = Start(i)' + Size(sent'[i])
    <3> SUFFICES ASSUME NEW i \in 1 .. n + 1 PROVE ends'[i] = Start(i)' + Size(sent'[i])
      OBVIOUS
    <3>1. CASE i = n + 1
      BY <1>4, <2>1, <3>1
    <3>2. CASE i \in 1 .. n
      <4>1. ends[i] = Start(i) + Size(sent[i])
        BY <3>2 DEF CodecIInv, Laid
      <4>2. ends'[i] = ends[i] /\ sent'[i] = sent[i] /\ Start(i)' = Start(i)
        BY <1>4, <2>2, <3>2
      <4> QED BY <4>1, <4>2
    <3> QED BY <1>1, <3>1, <3>2
  <2>4. \A i \in 1 .. n + 1 : ends'[i] > 0
    <3>1. \A i \in 1 .. n : ends'[i] > 0
      BY <1>4 DEF CodecIInv, Laid
    <3>2. ends'[n + 1] > 0
      BY <1>1, <1>2, <1>4
    <3> QED BY <3>1, <3>2
  <2>5. \A i, j \in 1 .. n + 1 : i < j => ends'[i] < ends'[j]
    <3> SUFFICES ASSUME NEW i \in 1 .. n + 1, NEW j \in 1 .. n + 1, i < j
                 PROVE  ends'[i] < ends'[j]
      OBVIOUS
    <3>1. i \in 1 .. n
      BY <1>1
    <3>2. CASE j \in 1 .. n
      BY <1>4, <3>1, <3>2 DEF CodecIInv, Laid
    <3>3. CASE j = n + 1
      BY <1>1, <1>2, <1>4, <3>1, <3>3
    <3> QED BY <1>1, <3>2, <3>3
  <2> QED BY <1>4, <2>3, <2>4, <2>5 DEF Laid, Size
<1>7. Aligned'
  <2>1. Written' = Written + Size(m)
    BY <1>1, <1>4 DEF Written
  <2>2. TakenEnd' = TakenEnd
    BY <1>1, <1>4 DEF TakenEnd, send, CodecIInv, Aligned, InOrderTypeOK
  <2> QED BY <1>1, <1>2, <1>4, <2>1, <2>2 DEF Aligned, send, CodecIInv, InOrderTypeOK
<1>8. Unpipelined'
  BY <1>1, <1>4 DEF Unpipelined, send, MaySend, CodecIInv
<1> QED BY <1>5, <1>6, <1>7, <1>8 DEF CodecIInv

\* A call that finds a whole message takes the next one, or leaves it.
LEMMA TakePreserves ==
  ASSUME CodecIInv, receive_with_len
  PROVE  /\ CodecIInv'
         /\ Queue!Deliver \/ Queue!Refuse \/ UNCHANGED <<sent, taken, received>>
<1> PICK i \in DOMAIN sent : HasMessage(i) /\ (DecodeError(i) \/ Convert(i))
  BY DEF receive_with_len
<1> DEFINE m == sent[i]
<1>1. i = taken + 1 /\ i \in 1 .. Len(sent) /\ m \in Messages /\ taken \in Nat
  BY HeadIsNext DEF HasMessage, CodecIInv, InOrderTypeOK
<1>2. UNCHANGED <<kind, split, sent, ends, stream, readable, arrived>>
  BY DEF receive_with_len
<1>3. Laid' /\ Unpipelined' /\ Written' = Written
  BY <1>2 DEF CodecIInv, Laid, Unpipelined, Written, Start
<1>4. CASE DecodeError(i)
  <2>1. InOrderTypeOK'
    BY <1>2, <1>4 DEF DecodeError, Return, CodecIInv, InOrderTypeOK, Results, RxError
  <2>2. Aligned'
    BY <1>2, <1>3, <1>4 DEF DecodeError, CodecIInv, Aligned, TakenEnd
  <2> QED BY <1>2, <1>3, <1>4, <2>1, <2>2 DEF DecodeError, CodecIInv
<1>5. CASE Convert(i)
  <2>1. consumed' = consumed + Size(m) /\ taken' = taken + 1 /\ m \notin Undecodable
    BY <1>5 DEF Convert, Consume
  <2>2. \/ m \in Incomplete /\ UNCHANGED received /\ result' = "MissingField" /\ rx' = "idle"
        \/ /\ m \notin Incomplete /\ received' = Append(received, m)
           /\ result' = "message" /\ rx' = "idle"
    BY <1>5 DEF Convert, Return
  <2>3. Size(m) \in Nat
    BY <1>1, SizeIsPositive
  <2>4. InOrderTypeOK'
    <3>1. received' \in Seq(Messages)
      <4>1. received \in Seq(Messages) /\ m \in Messages
        BY <1>1 DEF CodecIInv, InOrderTypeOK
      <4>2. Append(received, m) \in Seq(Messages)
        BY <4>1
      <4> QED BY <2>2, <4>1, <4>2
    <3>2. result' \in Results /\ rx' = "idle"
      BY <2>2 DEF Results, RxError
    <3>3. consumed' \in Nat /\ taken' \in Nat
      BY <1>1, <2>1, <2>3 DEF CodecIInv, InOrderTypeOK
    <3> QED BY <1>2, <3>1, <3>2, <3>3 DEF CodecIInv, InOrderTypeOK
  <2>5. consumed' = ends[i]
    <3>1. Start(i) = consumed /\ ends[i] = Start(i) + Size(sent[i])
      BY <1>1 DEF HasMessage, AtHead, CodecIInv, Laid
    <3> QED BY <2>1, <3>1
  <2>6. consumed' <= arrived
    BY <2>1, <2>3 DEF HasMessage, Buffered, CodecIInv, InOrderTypeOK
  <2>7. Aligned'
    BY <1>1, <1>2, <1>3, <2>1, <2>5, <2>6 DEF Aligned, TakenEnd, CodecIInv, InOrderTypeOK
  <2>8. Queue!Deliver \/ Queue!Refuse
    BY <1>1, <1>2, <2>1, <2>2 DEF Queue!Deliver, Queue!Refuse
  <2> QED BY <1>3, <2>4, <2>7, <2>8 DEF CodecIInv
<1> QED BY <1>4, <1>5

\* Splitting an async duplex makes a new buffer: the old one is empty.
LEMMA SplitPreserves ==
  ASSUME CodecIInv, AsyncDuplex_split
  PROVE  CodecIInv'
<1>1. kind = "async" /\ ~split /\ (arrived = 0 \/ taken > 0)
  BY DEF AsyncDuplex_split, MaySplit
<1>2. Len(sent) \in Nat /\ Len(ends) = Len(sent) /\ Len(sent) <= 1
  BY <1>1 DEF CodecIInv, Unpipelined, InOrderTypeOK
<1>3. arrived = consumed
  <2>1. CASE arrived = 0
    BY <2>1 DEF CodecIInv, Aligned, InOrderTypeOK
  <2>2. CASE taken > 0
    <3>1. taken = 1 /\ Len(sent) = 1
      BY <1>2, <2>2 DEF CodecIInv, Aligned, InOrderTypeOK
    <3>2. consumed = Written
      BY <1>2, <3>1 DEF CodecIInv, Aligned, TakenEnd, Written, InOrderTypeOK
    <3> QED BY <3>2, EndsAreWithin DEF CodecIInv, Aligned, InOrderTypeOK
  <2> QED BY <1>1, <2>1, <2>2
<1>4. UNCHANGED <<kind, sent, ends, stream, readable, rx, taken, received, result>>
      /\ consumed' = arrived /\ arrived' = arrived /\ split' = TRUE
  BY DEF AsyncDuplex_split, DropBuffer
<1>5. InOrderTypeOK' /\ Laid' /\ Unpipelined'
  BY <1>4 DEF CodecIInv, InOrderTypeOK, Laid, Unpipelined, Start
<1>6. Aligned'
  BY <1>3, <1>4 DEF CodecIInv, Aligned, TakenEnd, Written
<1> QED BY <1>5, <1>6 DEF CodecIInv

\* The steps that neither send nor take.
Moves ==
  finish \/ close \/ network \/ call \/ take_chunk \/ receive_error \/ receive_timeout \/ cancel
    \/ Duplex_split

LEMMA MovePreserves ==
  ASSUME CodecIInv, Moves
  PROVE  CodecIInv' /\ UNCHANGED <<sent, taken, received>>
<1> DEFINE Kept == <<kind, sent, ends, taken, received>>
<1>1. UNCHANGED Kept /\ consumed' = consumed
  BY DEF Moves, finish, close, network, call, take_chunk, receive_error, receive_timeout, cancel,
         Duplex_split, KeepBuffer, receive_buf
<1>2. InOrderTypeOK'
  <2>1. CASE finish \/ close \/ call \/ cancel \/ Duplex_split
    BY <2>1 DEF finish, close, call, cancel, Duplex_split, KeepBuffer, receive_buf, CodecIInv, InOrderTypeOK
  <2>2. CASE receive_error \/ receive_timeout
    BY <2>2 DEF receive_error, receive_timeout, KeepBuffer, receive_buf, Return, CodecIInv, InOrderTypeOK, Results,
                RxError
  <2>3. CASE network \/ take_chunk
    <3>1. Written \in Nat
      BY EndsAreWithin DEF CodecIInv
    <3>2. readable' \in Nat /\ arrived' \in Nat
      BY <2>3, <3>1 DEF network, take_chunk, CodecIInv, InOrderTypeOK
    <3> QED BY <2>3, <3>2 DEF network, take_chunk, CodecIInv, InOrderTypeOK
  <2> QED BY <2>1, <2>2, <2>3 DEF Moves
<1>3. Laid' /\ Written' = Written /\ TakenEnd' = TakenEnd
  BY <1>1 DEF CodecIInv, Laid, Start, Written, TakenEnd
<1>4. split' = split \/ split' = TRUE
  BY DEF Moves, finish, close, network, call, take_chunk, receive_error, receive_timeout, cancel,
         Duplex_split
<1>5. Unpipelined'
  BY <1>1, <1>4 DEF CodecIInv, Unpipelined
<1>6. consumed' <= arrived' /\ arrived' <= readable' /\ readable' <= Written
  <2>1. Written \in Nat
    BY EndsAreWithin DEF CodecIInv
  <2> QED BY <1>1, <2>1 DEF Moves, finish, close, network, call, take_chunk, receive_error, receive_timeout,
             cancel, Duplex_split, KeepBuffer, receive_buf, CodecIInv, Aligned, InOrderTypeOK
<1>7. Aligned'
  BY <1>1, <1>3, <1>6 DEF CodecIInv, Aligned
<1> QED BY <1>1, <1>2, <1>3, <1>5, <1>7 DEF CodecIInv

LEMMA StepRefines ==
  ASSUME ~Pipelined, CodecIInv, [InOrderNext]_inOrderVars
  PROVE  CodecIInv' /\ [Queue!Next]_<<sent, taken, received>>
<1>1. ASSUME NEW m \in Messages,
             SenderSimplex_send(m) \/ AsyncDuplex_send(m) \/ AsyncSenderSimplex_send(m)
      PROVE  CodecIInv' /\ Queue!Next
  <2>1. send(m)
    BY <1>1 DEF SenderSimplex_send, AsyncDuplex_send, AsyncSenderSimplex_send
  <2>2. Queue!Send(m)
    BY <2>1 DEF send, Queue!Send
  <2> QED BY <2>1, <2>2, SendPreserves DEF Queue!Next
<1>2. CASE Moves
  BY <1>2, MovePreserves
<1>3. CASE receive_with_len
  BY <1>3, TakePreserves DEF Queue!Next
<1>4. CASE AsyncDuplex_split
  BY <1>4, SplitPreserves DEF AsyncDuplex_split
<1>5. CASE UNCHANGED inOrderVars
  BY <1>5 DEF inOrderVars, CodecIInv, InOrderTypeOK, Laid, Aligned, Unpipelined, TakenEnd, Written, Start
<1> QED
  BY <1>1, <1>2, <1>3, <1>4, <1>5
  DEF InOrderNext, ReceiverStep, Moves, Duplex_receive, ReceiverSimplex_receive,
      AsyncDuplex_receive, AsyncReceiverSimplex_receive

\* The codec implements the message queue: whatever chunks the stream arrives in
\* and wherever a call times out, is dropped or is the last of a duplex, the
\* messages are taken in the order of sending, each whole and once
\* (receive_internal and receive_with_len of codec/in_order.rs).
THEOREM CodecImplementsQueue ==
  ASSUME ~Pipelined
  PROVE  InOrderSpec => ImplementsQueue
<1>1. InOrderInit => Queue!Init
  BY DEF InOrderInit, Queue!Init
<1>2. InOrderInit => CodecIInv
  BY CodecInit
<1>3. CodecIInv /\ [InOrderNext]_inOrderVars => CodecIInv' /\ [Queue!Next]_<<sent, taken, received>>
  BY StepRefines
<1> QED BY <1>1, <1>2, <1>3, PTL DEF InOrderSpec, ImplementsQueue, Queue!Spec

-----------------------------------------------------------------------------
(* Sequences. *)

LEMMA ElementIn ==
  ASSUME NEW R, NEW s \in Seq(R), NEW j \in 1 .. Len(s)
  PROVE  s[j] \in R
  OBVIOUS

LEMMA Appended ==
  ASSUME NEW R, NEW s \in Seq(R), NEW e \in R
  PROVE  /\ Append(s, e) \in Seq(R) /\ Len(Append(s, e)) = Len(s) + 1
         /\ DOMAIN Append(s, e) = 1 .. Len(s) + 1
         /\ \A j \in 1 .. Len(s) : Append(s, e)[j] = s[j]
         /\ Append(s, e)[Len(s) + 1] = e
         /\ Append(s, e) = [j \in 1 .. Len(s) + 1 |-> IF j = Len(s) + 1 THEN e ELSE s[j]]
<1>1. PICK n \in Nat : n = Len(s)
  OBVIOUS
<1>2. /\ Append(s, e) \in Seq(R) /\ Len(Append(s, e)) = n + 1
      /\ DOMAIN Append(s, e) = 1 .. n + 1
      /\ \A j \in 1 .. n : Append(s, e)[j] = s[j]
      /\ Append(s, e)[n + 1] = e
  BY <1>1
<1>3. Append(s, e) \in [1 .. n + 1 -> R]
  BY <1>2, LenProperties
<1>4. \A j \in 1 .. n + 1 : j = n + 1 \/ j \in 1 .. n
  BY <1>1
<1>5. Append(s, e) = [j \in 1 .. n + 1 |-> IF j = n + 1 THEN e ELSE s[j]]
  BY <1>2, <1>3, <1>4, Zenon
<1> QED BY <1>1, <1>2, <1>5

-----------------------------------------------------------------------------
(* The out-of-order codec.                                                 *)

\* A stream that has been returned was read to its end, and is not read again;
\* the stream of the message being sent has no bytes yet.
BagIInv ==
  /\ sending \in {"idle", "gate", "open", "transmit"}
  /\ sending # "idle" => msg \in Media
  /\ opened \in Seq([msg : Media, sent : BOOLEAN])
  /\ Len(opened) <= MaxMedia
  /\ sending \in {"gate", "open"} => Len(opened) < MaxMedia
  /\ sending = "transmit" => Len(opened) > 0 /\ ~opened[Len(opened)].sent
  /\ accepted \in Nat /\ accepted <= Len(opened)
  /\ DOMAIN rx_streams \subseteq 1 .. accepted
  /\ returned \in Seq(Nat \X Nat)
  /\ \A k \in DOMAIN returned :
       /\ returned[k][1] \in 1 .. accepted /\ returned[k][1] \notin DOMAIN rx_streams
       /\ opened[returned[k][1]].sent
       /\ returned[k][2] = StreamLen(returned[k][1])
  /\ \A k, l \in DOMAIN returned : returned[k][1] = returned[l][1] => k = l

Inside == {<<i, opened[i].msg>> : i \in {j \in DOMAIN opened : opened[j].sent}}
Outside == [k \in DOMAIN returned |-> Returned(returned[k])]

LEMMA BagInit ==
  ASSUME MediaInit
  PROVE  BagIInv /\ Bag!Init
<1>1. /\ sending = "idle" /\ opened = << >> /\ accepted = 0 /\ rx_streams = << >>
      /\ returned = << >>
  BY DEF MediaInit
<1>2. /\ Len(opened) = 0 /\ DOMAIN opened = {} /\ DOMAIN rx_streams = {} /\ DOMAIN returned = {}
      /\ opened \in Seq([msg : Media, sent : BOOLEAN]) /\ returned \in Seq(Nat \X Nat)
  BY <1>1
<1>3. BagIInv
  BY <1>1, <1>2, MaxMediaAssumption DEF BagIInv
<1>4. Inside = {} /\ Outside = << >>
  BY <1>2 DEF Inside, Outside
<1> QED BY <1>3, <1>4 DEF Bag!Init, Inside, Outside

\* Steps that neither send bytes nor return a stream.
LEMMA BagStutters ==
  ASSUME BagIInv, UNCHANGED <<opened, returned>>
  PROVE  Inside' = Inside /\ Outside' = Outside
  BY DEF Inside, Outside, Returned, StreamLen

LEMMA OpenRefines ==
  ASSUME BagIInv, open
  PROVE  BagIInv' /\ Inside' = Inside /\ Outside' = Outside
<1>1. PICK n \in Nat : n = Len(opened)
  BY DEF BagIInv
<1>2. /\ opened \in Seq([msg : Media, sent : BOOLEAN]) /\ DOMAIN opened = 1 .. n
      /\ sending = "open" /\ msg \in Media /\ n < MaxMedia /\ accepted <= n /\ accepted \in Nat
      /\ UNCHANGED <<msg, accepted, rx_streams, returned>>
  BY <1>1 DEF BagIInv, open, rxs
<1>3. CASE connected
  <2>1. PICK new : new = [msg |-> msg, sent |-> FALSE]
    OBVIOUS
  <2>2. opened' = Append(opened, new) /\ sending' = "transmit"
    BY <1>3, <2>1 DEF open
  <2>3. new \in [msg : Media, sent : BOOLEAN] /\ ~new.sent
    BY <1>2, <2>1
  <2>4. /\ opened' \in Seq([msg : Media, sent : BOOLEAN]) /\ Len(opened') = n + 1
        /\ DOMAIN opened' = 1 .. n + 1
        /\ \A i \in 1 .. n : opened'[i] = opened[i]
        /\ opened'[n + 1] = new
    BY <1>1, <1>2, <2>2, <2>3
  <2>5. \A i \in 1 .. accepted : i \in 1 .. n /\ opened'[i] = opened[i] /\ StreamLen(i)' = StreamLen(i)
    BY <1>2, <2>4 DEF StreamLen
  <2>6. BagIInv'
    <3>1. Len(opened') <= MaxMedia /\ accepted' <= Len(opened') /\ Len(opened') > 0
      BY <1>2, <2>4, MaxMediaAssumption
    <3>2. \A k \in DOMAIN returned :
            opened'[returned[k][1]].sent /\ returned[k][2] = StreamLen(returned[k][1])'
      BY <1>2, <2>5 DEF BagIInv
    <3> QED BY <1>2, <2>2, <2>3, <2>4, <3>1, <3>2 DEF BagIInv
  <2>7. Inside' = Inside
    <3>1. \A i \in DOMAIN opened' : opened'[i].sent => i \in DOMAIN opened /\ opened'[i] = opened[i]
      BY <1>1, <1>2, <2>3, <2>4
    <3>2. \A i \in DOMAIN opened : i \in DOMAIN opened' /\ opened'[i] = opened[i]
      BY <1>1, <1>2, <2>4
    <3> QED BY <3>1, <3>2 DEF Inside
  <2>8. Outside' = Outside
    <3>1. \A k \in DOMAIN returned : Returned(returned[k])' = Returned(returned[k])
      BY <1>2, <2>5 DEF Returned, BagIInv
    <3> QED BY <1>2, <3>1 DEF Outside
  <2> QED BY <2>6, <2>7, <2>8
<1>4. CASE ~connected
  <2>1. UNCHANGED opened /\ sending' = "idle"
    BY <1>4 DEF open
  <2>2. BagIInv'
    BY <1>2, <2>1 DEF BagIInv, StreamLen
  <2> QED BY <1>2, <2>1, <2>2, BagStutters
<1> QED BY <1>3, <1>4

LEMMA TransmitRefines ==
  ASSUME BagIInv, transmit
  PROVE  BagIInv' /\ (Bag!Next \/ (Inside' = Inside /\ Outside' = Outside))
<1>1. PICK n \in Nat : n = Len(opened)
  BY DEF BagIInv
<1>2. /\ opened \in Seq([msg : Media, sent : BOOLEAN]) /\ DOMAIN opened = 1 .. n
      /\ n > 0 /\ ~opened[n].sent /\ n <= MaxMedia /\ accepted <= n /\ accepted \in Nat
      /\ sending' = "idle" /\ UNCHANGED <<msg, accepted, rx_streams, returned>>
  BY <1>1 DEF BagIInv, transmit, rxs
<1>3. CASE connected
  <2>1. PICK done : done = [opened[n] EXCEPT !.sent = TRUE]
    OBVIOUS
  <2>2. opened' = [opened EXCEPT ![n] = done]
    BY <1>1, <1>3, <2>1 DEF transmit
  <2>3. opened[n] \in [msg : Media, sent : BOOLEAN]
    <3>1. n \in 1 .. Len(opened)
      BY <1>1, <1>2
    <3> QED BY <1>2, <3>1, ElementIn
  <2>4. done \in [msg : Media, sent : BOOLEAN] /\ done.sent /\ done.msg = opened[n].msg
    BY <2>1, <2>3
  <2>5. /\ opened' \in Seq([msg : Media, sent : BOOLEAN]) /\ Len(opened') = n
        /\ DOMAIN opened' = 1 .. n
        /\ \A i \in 1 .. n : i # n => opened'[i] = opened[i]
        /\ opened'[n] = done
    BY <1>1, <1>2, <2>2, <2>4
  <2>6. \A i \in 1 .. n : opened'[i].msg = opened[i].msg /\ (opened[i].sent => opened'[i].sent)
    BY <2>4, <2>5
  <2>7. \A i \in 1 .. accepted :
           /\ i \in 1 .. n /\ StreamLen(i)' = StreamLen(i)
           /\ opened'[i].msg = opened[i].msg /\ (opened[i].sent => opened'[i].sent)
    BY <1>2, <2>6 DEF StreamLen
  <2>8. BagIInv'
    <3>1. \A k \in DOMAIN returned :
            opened'[returned[k][1]].sent /\ returned[k][2] = StreamLen(returned[k][1])'
      BY <1>2, <2>7 DEF BagIInv
    <3> QED BY <1>2, <2>5, <3>1 DEF BagIInv
  <2>9. Outside' = Outside
    <3>1. \A k \in DOMAIN returned : Returned(returned[k])' = Returned(returned[k])
      BY <1>2, <2>7 DEF Returned, BagIInv
    <3> QED BY <1>2, <3>1 DEF Outside
  <2>10. PICK x : x = <<n, opened[n].msg>>
    OBVIOUS
  <2>11. x \in (1 .. MaxMedia) \X Media
    BY <1>2, <2>3, <2>10, MaxMediaAssumption
  <2>12. x \notin Inside
    BY <1>2, <2>10 DEF Inside
  <2>13. Inside' = Inside \union {x}
    <3>1. \A i \in DOMAIN opened' : opened'[i].sent <=> opened[i].sent \/ i = n
      BY <1>2, <2>4, <2>5
    <3> QED BY <1>2, <2>5, <2>6, <2>10, <3>1 DEF Inside
  <2>14. Bag!Send(x)
    BY <2>9, <2>12, <2>13 DEF Bag!Send, Inside, Outside
  <2> QED BY <2>8, <2>11, <2>14 DEF Bag!Next
<1>4. CASE ~connected
  <2>1. UNCHANGED opened
    BY <1>4 DEF transmit
  <2>2. BagIInv'
    BY <1>2, <2>1 DEF BagIInv, StreamLen
  <2> QED BY <1>2, <2>1, <2>2, BagStutters
<1> QED BY <1>3, <1>4

\* A complete stream is returned: its message is taken out of the bag.
LEMMA CompleteRefines ==
  ASSUME BagIInv, NEW i, complete(i)
  PROVE  BagIInv' /\ Bag!Next
<1>0. PICK n \in Nat : n = Len(returned)
  BY DEF BagIInv
<1>1. PICK r : r = <<i, rx_streams[i]>>
  OBVIOUS
<1>2. /\ i \in DOMAIN rx_streams /\ opened[i].sent /\ rx_streams[i] = StreamLen(i)
      /\ returned' = Append(returned, r)
      /\ DOMAIN rx_streams' = DOMAIN rx_streams \ {i}
      /\ UNCHANGED <<sending, msg, opened, accepted>>
  BY <1>1 DEF complete, Complete, Forget, Restricted, tx
<1>3. /\ i \in 1 .. accepted /\ accepted \in Nat /\ i \in DOMAIN opened /\ i \in 1 .. MaxMedia
      /\ opened[i] \in [msg : Media, sent : BOOLEAN]
  <2>1. /\ i \in 1 .. accepted /\ accepted \in Nat /\ accepted <= Len(opened)
        /\ Len(opened) <= MaxMedia /\ opened \in Seq([msg : Media, sent : BOOLEAN])
    BY <1>2 DEF BagIInv
  <2>2. Len(opened) \in Nat /\ DOMAIN opened = 1 .. Len(opened)
    BY <2>1
  <2>3. i \in 1 .. Len(opened) /\ i \in 1 .. MaxMedia
    BY <2>1, <2>2, MaxMediaAssumption
  <2> QED BY <2>1, <2>2, <2>3, ElementIn
<1>4. StreamLen(i) \in Nat
  BY <1>3, MediaAssumption DEF StreamLen
<1>5. r \in Nat \X Nat /\ r[1] = i /\ r[2] = StreamLen(i)
  BY <1>1, <1>2, <1>3, <1>4
<1>6. /\ returned \in Seq(Nat \X Nat) /\ returned' \in Seq(Nat \X Nat)
      /\ DOMAIN returned = 1 .. n /\ DOMAIN returned' = 1 .. n + 1
      /\ \A k \in 1 .. n : returned'[k] = returned[k]
      /\ returned'[n + 1] = r
  <2>1. returned \in Seq(Nat \X Nat)
    BY DEF BagIInv
  <2>2. returned' \in Seq(Nat \X Nat)
    BY <1>2, <1>5, <2>1
  <2> QED BY <1>0, <1>2, <1>5, <2>1, <2>2, Appended
<1>7. \A k \in 1 .. n : returned[k][1] # i
  <2>1. \A k \in DOMAIN returned : returned[k][1] \notin DOMAIN rx_streams
    BY Zenon DEF BagIInv
  <2>2. i \in DOMAIN rx_streams
    BY <1>2
  <2>3. \A k \in DOMAIN returned : returned[k][1] # i
    BY <2>1, <2>2
  <2>4. DOMAIN returned = 1 .. n
    BY <1>6
  <2> QED BY <2>3, <2>4
<1>8. \A j : StreamLen(j)' = StreamLen(j) /\ \A q : Returned(q)' = Returned(q)
  BY <1>2 DEF StreamLen, Returned
<1>9. BagIInv'
  <2>1. ASSUME NEW k \in DOMAIN returned'
        PROVE  /\ returned'[k][1] \in 1 .. accepted /\ returned'[k][1] \notin DOMAIN rx_streams'
               /\ opened'[returned'[k][1]].sent
               /\ returned'[k][2] = StreamLen(returned'[k][1])
    <3>1. CASE k \in 1 .. n
      BY <1>2, <1>6, <3>1 DEF BagIInv
    <3>2. CASE k = n + 1
      BY <1>2, <1>3, <1>5, <1>6, <3>2
    <3> QED BY <1>6, <3>1, <3>2
  <2>2. ASSUME NEW k \in DOMAIN returned', NEW l \in DOMAIN returned', returned'[k][1] = returned'[l][1]
        PROVE  k = l
    <3>1. CASE k \in 1 .. n /\ l \in 1 .. n
      BY <1>6, <2>2, <3>1 DEF BagIInv
    <3>2. CASE ~(k \in 1 .. n /\ l \in 1 .. n)
      <4>1. \A j \in 1 .. n + 1 : returned'[j][1] = i => j = n + 1
        <5> SUFFICES ASSUME NEW j \in 1 .. n + 1, returned'[j][1] = i, j # n + 1 PROVE FALSE
          OBVIOUS
        <5>1. j \in 1 .. n
          BY <1>0
        <5> QED BY <1>6, <1>7, <5>1
      <4>2. returned'[n + 1][1] = i
        BY <1>5, <1>6
      <4>3. k = n + 1 \/ l = n + 1
        <5>1. k \in 1 .. n + 1 /\ l \in 1 .. n + 1
          BY <1>6
        <5> QED BY <1>0, <3>2, <5>1
      <4> QED BY <1>6, <2>2, <4>1, <4>2, <4>3
    <3> QED BY <3>1, <3>2
  <2>3. DOMAIN rx_streams' \subseteq 1 .. accepted
    BY <1>2 DEF BagIInv
  <2> QED BY <1>2, <1>6, <1>8, <2>1, <2>2, <2>3 DEF BagIInv
<1>10. PICK x : x = <<i, opened[i].msg>>
  OBVIOUS
<1>11. x \in (1 .. MaxMedia) \X Media /\ x \in Inside /\ Inside' = Inside
  BY <1>2, <1>3, <1>10 DEF Inside
<1>12. Returned(r) = x
  BY <1>5, <1>10 DEF Returned
<1>13. \A k \in DOMAIN Outside : Outside[k] # x
  <2> SUFFICES ASSUME NEW k \in 1 .. n PROVE Returned(returned[k]) # x
    BY <1>6 DEF Outside
  <2>1. returned[k][1] # i
    BY <1>7
  <2> QED BY <1>10, <2>1 DEF Returned
<1>14. Outside' = Append(Outside, x)
  <2>1. PICK S : S = {Returned(returned[k]) : k \in 1 .. n} \union {x}
    OBVIOUS
  <2>2. Outside \in Seq(S) /\ Len(Outside) = n /\ DOMAIN Outside = 1 .. n
    <3>1. Outside \in [1 .. n -> S]
      BY <1>6, <2>1 DEF Outside
    <3> QED BY <3>1
  <2>3. Outside' = [k \in 1 .. n + 1 |-> IF k = n + 1 THEN x ELSE Outside[k]]
    BY <1>6, <1>8, <1>12 DEF Outside
  <2>4. x \in S
    BY <2>1
  <2>5. Append(Outside, x) = [k \in 1 .. n + 1 |-> IF k = n + 1 THEN x ELSE Outside[k]]
    BY <2>2, <2>4, Appended
  <2> QED BY <2>3, <2>5
<1>15. Bag!Take(x)
  BY <1>11, <1>13, <1>14 DEF Bag!Take, Inside, Outside
<1> QED BY <1>9, <1>11, <1>15 DEF Bag!Next

LEMMA BagStepRefines ==
  ASSUME BagIInv, [MediaNext]_mediaVars
  PROVE  BagIInv' /\ (Bag!Next \/ (Inside' = Inside /\ Outside' = Outside))
<1>1. CASE \E m \in Media : gated_send(m)
  <2>1. /\ msg' \in Media /\ sending' = "gate" /\ Len(opened) < MaxMedia
        /\ UNCHANGED <<opened, accepted, rx_streams, returned>>
    BY <1>1 DEF gated_send, rxs
  <2>2. BagIInv'
    BY <2>1 DEF BagIInv, StreamLen
  <2> QED BY <2>1, <2>2, BagStutters
<1>2. CASE gate_wait
  <2>1. /\ sending = "gate" /\ sending' \in {"open", "idle"}
        /\ UNCHANGED <<msg, opened, accepted, rx_streams, returned>>
    BY <1>2 DEF gate_wait, rxs
  <2>2. BagIInv'
    BY <2>1 DEF BagIInv, StreamLen
  <2> QED BY <2>1, <2>2, BagStutters
<1>3. CASE disconnect \/ do_receive \/ accept_error \/ do_receive_timeout \/ UNCHANGED mediaVars
  <2>1. UNCHANGED <<sending, msg, opened, accepted, rx_streams, returned>>
    BY <1>3 DEF disconnect, do_receive, accept_error, do_receive_timeout, mediaVars, tx, rxs
  <2>2. BagIInv'
    BY <2>1 DEF BagIInv, StreamLen
  <2> QED BY <2>1, <2>2, BagStutters
<1>4. CASE accept_stream
  <2>1. /\ accepted < Len(opened) /\ accepted' = accepted + 1
        /\ DOMAIN rx_streams' = DOMAIN rx_streams \union {accepted + 1}
        /\ UNCHANGED <<sending, msg, opened, returned>>
    BY <1>4 DEF accept_stream, tx
  <2>2. /\ accepted \in Nat /\ Len(opened) \in Nat /\ accepted' \in Nat /\ accepted' <= Len(opened)
        /\ DOMAIN rx_streams' \subseteq 1 .. accepted'
    BY <2>1 DEF BagIInv
  <2>3. \A k \in DOMAIN returned :
          returned[k][1] \in 1 .. accepted' /\ returned[k][1] \notin DOMAIN rx_streams'
    BY <2>1, <2>2 DEF BagIInv
  <2>4. BagIInv'
    BY <2>1, <2>2, <2>3 DEF BagIInv, StreamLen
  <2> QED BY <2>1, <2>4, BagStutters
<1>5. ASSUME NEW i, read(i)
      PROVE  BagIInv' /\ Inside' = Inside /\ Outside' = Outside
  <2>1. /\ DOMAIN rx_streams' = DOMAIN rx_streams
        /\ UNCHANGED <<sending, msg, opened, accepted, returned>>
    BY <1>5 DEF read, tx
  <2>2. BagIInv'
    BY <2>1 DEF BagIInv, StreamLen
  <2> QED BY <2>1, <2>2, BagStutters
<1> QED
  BY <1>1, <1>2, <1>3, <1>4, <1>5, OpenRefines, TransmitRefines, CompleteRefines
     DEF MediaNext, MediaReceive

\* The transport of the media channel implements the bag: a message comes out
\* whole, once, and only if it was sent, for any messages of any length, however
\* streams are accepted, read and completed and wherever a call times out or the
\* connection is lost (OutOfOrderTransport::receive of transport/datagram.rs,
\* codec/out_of_order.rs).
THEOREM TransportImplementsBag == MediaSpec => ImplementsBag
<1>1. MediaInit => BagIInv /\ Bag!Init
  BY BagInit
<1>2. BagIInv /\ [MediaNext]_mediaVars =>
        BagIInv' /\ [Bag!Next]_<<{<<i, opened[i].msg>> : i \in {j \in DOMAIN opened : opened[j].sent}},
                                [k \in DOMAIN returned |-> Returned(returned[k])]>>
  BY BagStepRefines DEF Inside, Outside
<1> QED BY <1>1, <1>2, PTL DEF MediaSpec, ImplementsBag, Bag!Spec

-----------------------------------------------------------------------------
(***************************************************************************)
(* The tunnel channel.  Its invariant is about one stream at a time: the   *)
(* step lemmas begin with what an action does to the typed state (its      *)
(* Effect), then follow the opens, the threads, the closes, the tables,    *)
(* the halves and the data of a stream.                                    *)
(***************************************************************************)


\* The server's queues by name.
OpensIn == queue["opens_from_client"]
NewStreams == queue["new_tcp_streams"]
OpensOut == queue["opens_to_client"]
ClosesIn == queue["closes_from_client"]
ClosesOut == queue["closes_to_client"]
DataIn == queue["data_from_client"]
DataOut == queue["data_to_client"]

serverQueues == <<OpensIn, NewStreams, OpensOut, ClosesIn, ClosesOut, DataIn, DataOut>>

OfKind(k) == {m \in Message : m.kind = k}

\* Each of the server's queues has messages of one kind.
Pure ==
  /\ OpensIn \in Seq(OfKind("OpenTcp")) /\ NewStreams \in Seq(OfKind("OpenTcp"))
  /\ OpensOut \in Seq(OfKind("OpenTcp"))
  /\ ClosesIn \in Seq(OfKind("CloseTcp")) /\ ClosesOut \in Seq(OfKind("CloseTcp"))
  /\ DataIn \in Seq(OfKind("TcpData")) /\ DataOut \in Seq(OfKind("TcpData"))

Typed == TypeOK /\ Pure

LEMMA QueueNames ==
  Queues = {"opens_from_client", "new_tcp_streams", "data_to_client", "data_from_client",
            "closes_from_client", "closes_to_client", "opens_to_client"}
<1>1. DOMAIN Branches = 1 .. 8
  BY DEF Branches
<1>2. /\ Branches[1] = "opens_from_client" /\ Branches[2] = "new_tcp_streams"
      /\ Branches[3] = "stream_tasks" /\ Branches[4] = "data_to_client"
      /\ Branches[5] = "data_from_client" /\ Branches[6] = "closes_from_client"
      /\ Branches[7] = "closes_to_client" /\ Branches[8] = "opens_to_client"
  BY DEF Branches
<1> QED BY <1>1, <1>2 DEF Queues

LEMMA Polls ==
  ASSUME poll \in DOMAIN Branches
  PROVE  /\ poll \in 1 .. 8
         /\ Branches[poll] = "stream_tasks" <=> poll = 3
         /\ Branches[poll] = "data_to_client" <=> poll = 4
         /\ Branches[poll] = "closes_to_client" <=> poll = 7
  BY DEF Branches

LEMMA OfKindMessages ==
  ASSUME NEW k, NEW s \in Seq(OfKind(k))
  PROVE  s \in Seq(Message)
<1>1. OfKind(k) \subseteq Message
  BY DEF OfKind
<1>2. s \in [1 .. Len(s) -> Message]
  BY <1>1, LenProperties
<1> QED BY <1>2

LEMMA MessageKinds ==
  ASSUME NEW id \in Streams
  PROVE  /\ open_tcp_stream(id) \in OfKind("OpenTcp") /\ open_tcp_stream(id).id = id
         /\ close_tcp_stream(id) \in OfKind("CloseTcp") /\ close_tcp_stream(id).id = id
         /\ open_tcp_stream(id).kind = "OpenTcp" /\ close_tcp_stream(id).kind = "CloseTcp"
         /\ open_tcp_stream(id) \in Message /\ close_tcp_stream(id) \in Message
         /\ \A d \in Nat : /\ tcp_data(id, d) \in OfKind("TcpData") /\ tcp_data(id, d) \in Message
                           /\ tcp_data(id, d).kind = "TcpData" /\ tcp_data(id, d).id = id
                           /\ tcp_data(id, d).data = d
  BY DEF open_tcp_stream, close_tcp_stream, tcp_data, OfKind, Message

LEMMA SocketSteps ==
  ASSUME NEW s \in Socket
  PROVE  /\ PeerSends(s) \in Socket /\ PeerSends(s).read = s.read /\ PeerSends(s).written = s.written
         /\ PeerCloses(s) \in Socket /\ PeerCloses(s).read = s.read
         /\ PeerCloses(s).written = s.written
         /\ Read(s) \in Socket /\ Read(s).read = s.read + 1 /\ Read(s).written = s.written
         /\ s.read \in Nat /\ s.written \in Seq(Nat)
         /\ \A d \in Seq(Nat) : /\ Write(s, d) \in Socket /\ Write(s, d).read = s.read
                                /\ Write(s, d).written = s.written \o d
<1>1. s.read \in Nat /\ s.written \in Seq(Nat) /\ s.sent \in Nat /\ s.peer \in {"open", "closed"}
  BY DEF Socket
<1>2. PeerSends(s) \in Socket /\ PeerSends(s).read = s.read /\ PeerSends(s).written = s.written
  BY <1>1 DEF PeerSends, Socket
<1>3. PeerCloses(s) \in Socket /\ PeerCloses(s).read = s.read /\ PeerCloses(s).written = s.written
  BY <1>1 DEF PeerCloses, Socket
<1>4. Read(s) \in Socket /\ Read(s).read = s.read + 1 /\ Read(s).written = s.written
  BY <1>1 DEF Read, Socket
<1>5. ASSUME NEW d \in Seq(Nat)
      PROVE  Write(s, d) \in Socket /\ Write(s, d).read = s.read /\ Write(s, d).written = s.written \o d
  <2>1. s.written \o d \in Seq(Nat)
    BY <1>1
  <2> QED BY <1>1, <2>1 DEF Write, Socket
<1> QED BY <1>1, <1>2, <1>3, <1>4, <1>5

\* A message goes to, or comes from, the end of one of the server's queues.
LEMMA QueueAppend ==
  ASSUME Typed, NEW q \in Queues, NEW m \in Message, queue' = [queue EXCEPT ![q] = Append(@, m)]
  PROVE  /\ queue' \in [Queues -> Seq(Message)] /\ queue'[q] = Append(queue[q], m)
         /\ \A p \in Queues : p # q => queue'[p] = queue[p]
<1>1. queue \in [Queues -> Seq(Message)] /\ queue[q] \in Seq(Message)
  BY DEF Typed, TypeOK, ServerTypeOK
<1>2. Append(queue[q], m) \in Seq(Message)
  BY <1>1, Appended
<1> QED BY <1>1, <1>2

LEMMA TailTyped ==
  ASSUME NEW R, NEW s \in Seq(R), s # << >>
  PROVE  Head(s) \in R /\ Tail(s) \in Seq(R)
  OBVIOUS

LEMMA QueuePop ==
  ASSUME Typed, NEW q \in Queues, queue[q] # << >>, queue' = Popped(q)
  PROVE  /\ queue' \in [Queues -> Seq(Message)] /\ queue'[q] = Tail(queue[q])
         /\ \A p \in Queues : p # q => queue'[p] = queue[p]
<1>1. queue \in [Queues -> Seq(Message)] /\ queue[q] \in Seq(Message)
  BY DEF Typed, TypeOK, ServerTypeOK
<1>2. Tail(queue[q]) \in Seq(Message)
  BY <1>1, TailTyped
<1> QED BY <1>1, <1>2 DEF Popped

LEMMA QueuePush ==
  ASSUME Typed, NEW q \in Queues, NEW r \in Queues, q # r, queue[q] # << >>, NEW m \in Message,
         queue' = Pushed(q, r, m)
  PROVE  /\ queue' \in [Queues -> Seq(Message)] /\ queue'[q] = Tail(queue[q])
         /\ queue'[r] = Append(queue[r], m)
         /\ \A p \in Queues : p # q /\ p # r => queue'[p] = queue[p]
<1>1. queue \in [Queues -> Seq(Message)] /\ queue[q] \in Seq(Message) /\ queue[r] \in Seq(Message)
  BY DEF Typed, TypeOK, ServerTypeOK
<1>2. Tail(queue[q]) \in Seq(Message) /\ Append(queue[r], m) \in Seq(Message)
  BY <1>1, TailTyped, Appended
<1> QED BY <1>1, <1>2 DEF Pushed

\* What a step leaves of the types when the server's state, or the client's, is
\* well typed after it.
LEMMA ServerStepTyped ==
  ASSUME Typed, UNCHANGED <<client, server_bound>>, ServerTypeOK', Pure',
         to_client' \in Seq(Message), to_server' \in Seq(Message)
  PROVE  Typed'
<1>1. ClientTypeOK'
  BY DEF Typed, TypeOK, ClientTypeOK, client
<1> QED BY <1>1 DEF Typed, TypeOK

LEMMA ClientStepTyped ==
  ASSUME Typed, UNCHANGED <<server, server_bound>>, ClientTypeOK',
         to_client' \in Seq(Message), to_server' \in Seq(Message)
  PROVE  Typed' /\ UNCHANGED serverQueues
<1>1. UNCHANGED serverQueues
  BY DEF server, serverQueues, OpensIn, NewStreams, OpensOut, ClosesIn, ClosesOut, DataIn, DataOut
<1>2. ServerTypeOK'
  BY DEF Typed, TypeOK, ServerTypeOK, server
<1>3. Pure'
  BY <1>1 DEF Typed, Pure, serverQueues
<1> QED BY <1>1, <1>2, <1>3 DEF Typed, TypeOK

LEMMA AcceptAtServerEffect ==
  ASSUME Typed, NEW id \in Streams, AcceptAtServer(id), UNCHANGED client
  PROVE  /\ Typed'
         /\ NewStreams' = Append(NewStreams, open_tcp_stream(id))
         /\ UNCHANGED <<OpensIn, OpensOut, ClosesIn, ClosesOut, DataIn, DataOut>>
<1>1. PICK m : m = open_tcp_stream(id)
  OBVIOUS
<1>2. m \in Message /\ m \in OfKind("OpenTcp")
  BY <1>1, MessageKinds
<1>3. /\ queue' = [queue EXCEPT !["new_tcp_streams"] = Append(@, m)]
      /\ task' = [task EXCEPT ![id] = "accepted"]
      /\ UNCHANGED <<txs, slot, closed_by_client, poll, server_sock, channel>>
  BY <1>1 DEF AcceptAtServer
<1>4. /\ queue' \in [Queues -> Seq(Message)]
      /\ NewStreams' = Append(NewStreams, m)
      /\ UNCHANGED <<OpensIn, OpensOut, ClosesIn, ClosesOut, DataIn, DataOut>>
  BY <1>2, <1>3, QueueAppend, QueueNames
     DEF OpensIn, NewStreams, OpensOut, ClosesIn, ClosesOut, DataIn, DataOut
<1>5. Pure'
  BY <1>2, <1>4, Appended DEF Typed, Pure
<1>6. ServerTypeOK'
  BY <1>3, <1>4 DEF Typed, TypeOK, ServerTypeOK
<1>7. Typed'
  BY <1>3, <1>5, <1>6, ServerStepTyped DEF Typed, TypeOK, channel
<1> QED BY <1>1, <1>4, <1>7

LEMMA ReceiveFromClientEffect ==
  ASSUME Typed, ReceiveFromClient, UNCHANGED client, NEW m, m = Head(to_server)
  PROVE  /\ Typed' /\ m \in Message /\ to_server # << >> /\ to_server' = Tail(to_server)
         /\ OpensIn' = IF m.kind = "OpenTcp" THEN Append(OpensIn, m) ELSE OpensIn
         /\ ClosesIn' = IF m.kind = "CloseTcp" THEN Append(ClosesIn, m) ELSE ClosesIn
         /\ DataIn' = IF m.kind = "TcpData" THEN Append(DataIn, m) ELSE DataIn
         /\ UNCHANGED <<NewStreams, OpensOut, ClosesOut, DataOut>>
         /\ UNCHANGED <<task, txs, slot, closed_by_client, poll, server_sock, server_bound, to_client>>
<1>1. /\ to_server # << >> /\ to_server' = Tail(to_server)
      /\ UNCHANGED <<task, txs, slot, closed_by_client, poll, server_sock, server_bound, to_client>>
  BY DEF ReceiveFromClient
<1>2. m \in Message /\ to_server' \in Seq(Message)
  BY <1>1, TailTyped DEF Typed, TypeOK
<1>3. m.kind \in {"OpenTcp", "CloseTcp", "TcpData"}
  BY <1>2 DEF Message
<1>4. PICK q : /\ queue' = [queue EXCEPT ![q] = Append(@, m)]
               /\ q = CASE m.kind = "OpenTcp"  -> "opens_from_client"
                        [] m.kind = "CloseTcp" -> "closes_from_client"
                        [] m.kind = "TcpData"  -> "data_from_client"
  BY DEF ReceiveFromClient
<1>5. /\ m.kind = "OpenTcp" => q = "opens_from_client"
      /\ m.kind = "CloseTcp" => q = "closes_from_client"
      /\ m.kind = "TcpData" => q = "data_from_client"
  BY <1>4
<1>6. q \in Queues
  BY <1>3, <1>5, QueueNames
<1>7. /\ queue' \in [Queues -> Seq(Message)] /\ queue'[q] = Append(queue[q], m)
      /\ \A p \in Queues : p # q => queue'[p] = queue[p]
  BY <1>2, <1>4, <1>6, QueueAppend
<1>8. /\ OpensIn' = IF m.kind = "OpenTcp" THEN Append(OpensIn, m) ELSE OpensIn
      /\ ClosesIn' = IF m.kind = "CloseTcp" THEN Append(ClosesIn, m) ELSE ClosesIn
      /\ DataIn' = IF m.kind = "TcpData" THEN Append(DataIn, m) ELSE DataIn
      /\ UNCHANGED <<NewStreams, OpensOut, ClosesOut, DataOut>>
  BY <1>3, <1>5, <1>7, QueueNames
     DEF OpensIn, NewStreams, OpensOut, ClosesIn, ClosesOut, DataIn, DataOut
<1>9. Pure'
  <2>1. m \in OfKind(m.kind)
    BY <1>2 DEF OfKind
  <2>2. OpensIn' \in Seq(OfKind("OpenTcp"))
    BY <1>8, <2>1, Appended DEF Typed, Pure
  <2>3. ClosesIn' \in Seq(OfKind("CloseTcp"))
    BY <1>8, <2>1, Appended DEF Typed, Pure
  <2>4. DataIn' \in Seq(OfKind("TcpData"))
    BY <1>8, <2>1, Appended DEF Typed, Pure
  <2> QED BY <1>8, <2>2, <2>3, <2>4 DEF Typed, Pure
<1>10. ServerTypeOK'
  BY <1>1, <1>7 DEF Typed, TypeOK, ServerTypeOK
<1>11. Typed'
  BY <1>1, <1>2, <1>9, <1>10, ServerStepTyped DEF Typed, TypeOK
<1> QED BY <1>1, <1>2, <1>8, <1>11

\* The steps of the server that leave its queues and the channel alone.
LEMMA TaskStepTyped ==
  ASSUME Typed, UNCHANGED <<client, channel, queue>>, ServerTypeOK'
  PROVE  Typed' /\ UNCHANGED serverQueues
<1>1. UNCHANGED serverQueues
  BY DEF serverQueues, OpensIn, NewStreams, OpensOut, ClosesIn, ClosesOut, DataIn, DataOut
<1>2. Pure'
  BY <1>1 DEF Typed, Pure, serverQueues
<1> QED BY <1>1, <1>2, ServerStepTyped DEF Typed, TypeOK, channel

LEMMA TaskWriteEffect ==
  ASSUME Typed, NEW id \in Streams, TaskWrite(id), UNCHANGED client
  PROVE  /\ Typed' /\ UNCHANGED serverQueues
         /\ server_sock'[id].read = server_sock[id].read
         /\ \/ server_sock'[id].written = server_sock[id].written \o slot[id] /\ task' = task
            \/ server_sock' = server_sock /\ task' = [task EXCEPT ![id] = "finished"]
         /\ \A i \in Streams \ {id} : server_sock'[i] = server_sock[i]
<1>1. /\ slot' = [slot EXCEPT ![id] = << >>]
      /\ \/ /\ server_sock' = [server_sock EXCEPT ![id] = Write(@, slot[id])]
            /\ UNCHANGED task
         \/ /\ task' = [task EXCEPT ![id] = "finished"]
            /\ UNCHANGED server_sock
      /\ UNCHANGED <<queue, txs, closed_by_client, poll, channel>>
  BY DEF TaskWrite
<1>2. /\ slot \in [Streams -> Seq(Nat)] /\ server_sock \in [Streams -> Socket]
      /\ slot[id] \in Seq(Nat) /\ server_sock[id] \in Socket /\ \A i \in Streams : Len(slot[i]) <= 1
      /\ task \in [Streams -> {"none", "accepted", "running", "finished", "joined"}]
  BY DEF Typed, TypeOK, ServerTypeOK
<1>3. /\ Write(server_sock[id], slot[id]) \in Socket
      /\ Write(server_sock[id], slot[id]).read = server_sock[id].read
      /\ Write(server_sock[id], slot[id]).written = server_sock[id].written \o slot[id]
  BY <1>2, SocketSteps
<1>4. slot' \in [Streams -> Seq(Nat)] /\ \A i \in Streams : Len(slot'[i]) <= 1
  <2>1. << >> \in Seq(Nat) /\ Len(<< >>) = 0
    OBVIOUS
  <2> QED BY <1>1, <1>2, <2>1
<1>5. /\ server_sock' \in [Streams -> Socket]
      /\ server_sock'[id].read = server_sock[id].read
      /\ \/ server_sock'[id].written = server_sock[id].written \o slot[id] /\ task' = task
         \/ server_sock' = server_sock /\ task' = [task EXCEPT ![id] = "finished"]
      /\ \A i \in Streams \ {id} : server_sock'[i] = server_sock[i]
  BY <1>1, <1>2, <1>3
<1>6. task' \in [Streams -> {"none", "accepted", "running", "finished", "joined"}]
  BY <1>1, <1>2
<1>7. ServerTypeOK'
  BY <1>1, <1>4, <1>5, <1>6 DEF Typed, TypeOK, ServerTypeOK
<1> QED BY <1>1, <1>5, <1>7, TaskStepTyped

LEMMA TaskEndsEffect ==
  ASSUME Typed, NEW id \in Streams, TaskWriterClosed(id) \/ TaskReadEnds(id), UNCHANGED client
  PROVE  /\ Typed' /\ UNCHANGED serverQueues
         /\ task[id] = "running" /\ task' = [task EXCEPT ![id] = "finished"]
         /\ slot' = [slot EXCEPT ![id] = << >>]
         /\ UNCHANGED <<txs, closed_by_client, poll, server_sock, channel>>
<1>1. /\ slot \in [Streams -> Seq(Nat)] /\ \A i \in Streams : Len(slot[i]) <= 1
      /\ task \in [Streams -> {"none", "accepted", "running", "finished", "joined"}]
  BY DEF Typed, TypeOK, ServerTypeOK
<1>2. /\ task[id] = "running" /\ task' = [task EXCEPT ![id] = "finished"]
      /\ slot' = [slot EXCEPT ![id] = << >>]
      /\ UNCHANGED <<queue, txs, closed_by_client, poll, server_sock, channel>>
  BY <1>1 DEF TaskWriterClosed, TaskReadEnds
<1>3. slot' \in [Streams -> Seq(Nat)] /\ \A i \in Streams : Len(slot'[i]) <= 1
  <2>1. << >> \in Seq(Nat) /\ Len(<< >>) = 0
    OBVIOUS
  <2> QED BY <1>1, <1>2, <2>1
<1>4. ServerTypeOK'
  BY <1>1, <1>2, <1>3 DEF Typed, TypeOK, ServerTypeOK
<1> QED BY <1>2, <1>4, TaskStepTyped

LEMMA TaskReadEffect ==
  ASSUME Typed, NEW id \in Streams, TaskRead(id), UNCHANGED client
  PROVE  /\ Typed'
         /\ task[id] = "running"
         /\ server_sock'[id].read = server_sock[id].read + 1
         /\ server_sock'[id].written = server_sock[id].written
         /\ \A i \in Streams \ {id} : server_sock'[i] = server_sock[i]
         /\ DataOut' = Append(DataOut, tcp_data(id, server_sock[id].read + 1))
         /\ UNCHANGED <<OpensIn, NewStreams, OpensOut, ClosesIn, ClosesOut, DataIn>>
         /\ UNCHANGED <<task, txs, slot, closed_by_client, poll, channel>>
<1>1. server_sock \in [Streams -> Socket] /\ server_sock[id] \in Socket
  BY DEF Typed, TypeOK, ServerTypeOK
<1>2. /\ task[id] = "running"
      /\ server_sock' = [server_sock EXCEPT ![id] = Read(@)]
      /\ queue' = [queue EXCEPT !["data_to_client"] = Append(@, tcp_data(id, server_sock'[id].read))]
      /\ UNCHANGED <<task, txs, slot, closed_by_client, poll, channel>>
  BY DEF TaskRead
<1>3. /\ Read(server_sock[id]) \in Socket /\ server_sock[id].read \in Nat
      /\ Read(server_sock[id]).read = server_sock[id].read + 1
      /\ Read(server_sock[id]).written = server_sock[id].written
  BY <1>1, SocketSteps
<1>4. /\ server_sock' \in [Streams -> Socket]
      /\ server_sock'[id].read = server_sock[id].read + 1
      /\ server_sock'[id].written = server_sock[id].written
      /\ \A i \in Streams \ {id} : server_sock'[i] = server_sock[i]
  BY <1>1, <1>2, <1>3
<1>5. PICK m : m = tcp_data(id, server_sock[id].read + 1)
  OBVIOUS
<1>6. m \in Message /\ m \in OfKind("TcpData")
  BY <1>3, <1>5, MessageKinds
<1>7. queue' = [queue EXCEPT !["data_to_client"] = Append(@, m)]
  BY <1>2, <1>4, <1>5
<1>8. /\ queue' \in [Queues -> Seq(Message)]
      /\ DataOut' = Append(DataOut, m)
      /\ UNCHANGED <<OpensIn, NewStreams, OpensOut, ClosesIn, ClosesOut, DataIn>>
  BY <1>6, <1>7, QueueAppend, QueueNames
     DEF OpensIn, NewStreams, OpensOut, ClosesIn, ClosesOut, DataIn, DataOut
<1>9. Pure'
  BY <1>6, <1>8, Appended DEF Typed, Pure
<1>10. ServerTypeOK'
  BY <1>2, <1>4, <1>8 DEF Typed, TypeOK, ServerTypeOK
<1>11. Typed'
  BY <1>2, <1>9, <1>10, ServerStepTyped DEF Typed, TypeOK, channel
<1> QED BY <1>2, <1>4, <1>5, <1>8, <1>11

LEMMA PollNextEffect ==
  ASSUME Typed, PollNext, UNCHANGED client
  PROVE  /\ Typed' /\ UNCHANGED serverQueues
         /\ poll' > 4 => poll > 4 \/ DataOut = << >>
         /\ UNCHANGED <<task, txs, slot, closed_by_client, server_sock, channel>>
<1>1. /\ ~BranchReady(Branches[poll])
      /\ (poll' = poll + 1 /\ poll < Len(Branches)) \/ poll' = 1
      /\ UNCHANGED <<task, queue, txs, slot, closed_by_client, server_sock, channel>>
  BY DEF PollNext
<1>2. poll \in DOMAIN Branches
  BY DEF Typed, TypeOK, ServerTypeOK
<1>3. Len(Branches) = 8 /\ DOMAIN Branches = 1 .. 8
  BY DEF Branches
<1>4. poll' \in DOMAIN Branches
  BY <1>1, <1>2, <1>3
<1>5. ServerTypeOK'
  BY <1>1, <1>4 DEF Typed, TypeOK, ServerTypeOK
<1>6. Typed' /\ UNCHANGED serverQueues
  BY <1>1, <1>5, TaskStepTyped
<1>7. ASSUME poll' > 4, ~(poll > 4) PROVE DataOut = << >>
  <2>1. poll = 4
    BY <1>1, <1>2, <1>3, <1>7
  <2>2. Branches[poll] = "data_to_client"
    BY <1>2, <2>1, Polls
  <2> QED BY <1>1, <2>2 DEF BranchReady, DataOut
<1> QED BY <1>1, <1>6, <1>7

LEMMA ServerPeerEffect ==
  ASSUME Typed, NEW id \in Streams, ServerPeer(id), UNCHANGED client
  PROVE  /\ Typed' /\ UNCHANGED serverQueues
         /\ \A i \in Streams : /\ server_sock'[i].read = server_sock[i].read
                               /\ server_sock'[i].written = server_sock[i].written
         /\ UNCHANGED <<task, txs, slot, closed_by_client, poll, channel>>
<1>1. server_sock \in [Streams -> Socket] /\ server_sock[id] \in Socket
  BY DEF Typed, TypeOK, ServerTypeOK
<1>2. PICK s \in {PeerSends(server_sock[id]), PeerCloses(server_sock[id])} :
           /\ server_sock' = [server_sock EXCEPT ![id] = s]
           /\ UNCHANGED <<task, queue, txs, slot, closed_by_client, poll, channel>>
  BY DEF ServerPeer
<1>3. s \in Socket /\ s.read = server_sock[id].read /\ s.written = server_sock[id].written
  BY <1>1, <1>2, SocketSteps
<1>4. /\ server_sock' \in [Streams -> Socket]
      /\ \A i \in Streams : /\ server_sock'[i].read = server_sock[i].read
                            /\ server_sock'[i].written = server_sock[i].written
  BY <1>1, <1>2, <1>3
<1>5. ServerTypeOK'
  BY <1>2, <1>4 DEF Typed, TypeOK, ServerTypeOK
<1> QED BY <1>2, <1>4, <1>5, TaskStepTyped

LEMMA FirstTyped ==
  ASSUME Typed, NEW q \in Queues, queue[q] # << >>
  PROVE  First(q) \in Message /\ First(q).id \in Streams /\ First(q).data \in Nat
<1>1. queue[q] \in Seq(Message)
  BY DEF Typed, TypeOK, ServerTypeOK
<1>2. First(q) \in Message
  BY <1>1, TailTyped DEF First
<1> QED BY <1>2 DEF Message

LEMMA OpenFromClientEffect ==
  ASSUME Typed, OpenFromClient, UNCHANGED client, NEW m, m = Head(OpensIn)
  PROVE  /\ Typed' /\ OpensIn # << >> /\ m \in OfKind("OpenTcp") /\ m.id \in Streams
         /\ OpensIn' = Tail(OpensIn)
         /\ \/ /\ m.id \notin server_bound /\ task' = [task EXCEPT ![m.id] = "accepted"]
               /\ NewStreams' = Append(NewStreams, m) /\ ClosesOut' = ClosesOut
            \/ /\ task' = task /\ NewStreams' = NewStreams
               /\ ClosesOut' = Append(ClosesOut, close_tcp_stream(m.id))
         /\ UNCHANGED <<OpensOut, ClosesIn, DataIn, DataOut>>
         /\ poll' = 1 /\ UNCHANGED <<txs, slot, closed_by_client, server_sock, channel>>
<1>1. /\ m = First("opens_from_client") /\ queue["opens_from_client"] # << >> /\ poll' = 1
      /\ \/ /\ m.id \notin server_bound /\ task' = [task EXCEPT ![m.id] = "accepted"]
            /\ queue' = Pushed("opens_from_client", "new_tcp_streams", m)
         \/ /\ queue' = Pushed("opens_from_client", "closes_to_client", close_tcp_stream(m.id))
            /\ UNCHANGED task
      /\ UNCHANGED <<txs, slot, closed_by_client, server_sock, channel>>
  BY DEF OpenFromClient, Takes, OpensIn, First
<1>2. OpensIn # << >> /\ m \in OfKind("OpenTcp")
  BY <1>1, TailTyped DEF Typed, Pure, OpensIn
<1>3. m \in Message /\ m.id \in Streams
  BY <1>1, FirstTyped, QueueNames
<1>4. task \in [Streams -> {"none", "accepted", "running", "finished", "joined"}] /\ 1 \in DOMAIN Branches
  BY DEF Typed, TypeOK, ServerTypeOK, Branches
<1>5. CASE /\ m.id \notin server_bound /\ task' = [task EXCEPT ![m.id] = "accepted"]
           /\ queue' = Pushed("opens_from_client", "new_tcp_streams", m)
  <2>1. /\ queue' \in [Queues -> Seq(Message)]
        /\ OpensIn' = Tail(OpensIn) /\ NewStreams' = Append(NewStreams, m)
        /\ UNCHANGED <<OpensOut, ClosesIn, ClosesOut, DataIn, DataOut>>
    BY <1>1, <1>3, <1>5, QueuePush, QueueNames
       DEF OpensIn, NewStreams, OpensOut, ClosesIn, ClosesOut, DataIn, DataOut
  <2>2. Pure'
    BY <1>2, <2>1, Appended, TailTyped DEF Typed, Pure
  <2>3. ServerTypeOK'
    BY <1>1, <1>3, <1>4, <1>5, <2>1 DEF Typed, TypeOK, ServerTypeOK
  <2>4. Typed'
    BY <1>1, <2>2, <2>3, ServerStepTyped DEF Typed, TypeOK, channel
  <2> QED BY <1>1, <1>2, <1>3, <1>5, <2>1, <2>4
<1>6. CASE /\ queue' = Pushed("opens_from_client", "closes_to_client", close_tcp_stream(m.id))
           /\ UNCHANGED task
  <2>0. PICK c : c = close_tcp_stream(m.id)
    OBVIOUS
  <2>1. c \in Message /\ c \in OfKind("CloseTcp")
    BY <1>3, <2>0, MessageKinds
  <2>6. queue' = Pushed("opens_from_client", "closes_to_client", c)
    BY <1>6, <2>0
  <2>2. /\ queue' \in [Queues -> Seq(Message)]
        /\ OpensIn' = Tail(OpensIn) /\ ClosesOut' = Append(ClosesOut, c)
        /\ UNCHANGED <<NewStreams, OpensOut, ClosesIn, DataIn, DataOut>>
    BY <1>1, <2>0, <2>1, <2>6, QueuePush, QueueNames
       DEF OpensIn, NewStreams, OpensOut, ClosesIn, ClosesOut, DataIn, DataOut
  <2>3. Pure'
    BY <1>2, <2>1, <2>2, Appended, TailTyped DEF Typed, Pure
  <2>4. ServerTypeOK'
    BY <1>1, <1>4, <1>6, <2>2 DEF Typed, TypeOK, ServerTypeOK
  <2>5. Typed'
    BY <1>1, <2>3, <2>4, ServerStepTyped DEF Typed, TypeOK, channel
  <2> QED BY <1>1, <1>2, <1>3, <1>6, <2>0, <2>2, <2>5
<1> QED BY <1>1, <1>5, <1>6

LEMMA NewTcpStreamEffect ==
  ASSUME Typed, NewTcpStream, UNCHANGED client, NEW m, m = Head(NewStreams)
  PROVE  /\ Typed' /\ NewStreams # << >> /\ m \in OfKind("OpenTcp") /\ m.id \in Streams
         /\ NewStreams' = Tail(NewStreams)
         /\ OpensOut' = IF m.id \in server_bound THEN Append(OpensOut, open_tcp_stream(m.id)) ELSE OpensOut
         /\ UNCHANGED <<OpensIn, ClosesIn, ClosesOut, DataIn, DataOut>>
         /\ task' = [task EXCEPT ![m.id] = "running"] /\ txs' = txs \union {m.id}
         /\ poll' = 1 /\ UNCHANGED <<slot, closed_by_client, server_sock, channel>>
<1>1. /\ m = First("new_tcp_streams") /\ queue["new_tcp_streams"] # << >> /\ poll' = 1
      /\ task' = [task EXCEPT ![m.id] = "running"] /\ txs' = txs \union {m.id}
      /\ queue' = IF m.id \in server_bound
                    THEN Pushed("new_tcp_streams", "opens_to_client", open_tcp_stream(m.id))
                    ELSE Popped("new_tcp_streams")
      /\ UNCHANGED <<slot, closed_by_client, server_sock, channel>>
  BY DEF NewTcpStream, Takes, NewStreams, First
<1>2. NewStreams # << >> /\ m \in OfKind("OpenTcp")
  BY <1>1, TailTyped DEF Typed, Pure, NewStreams
<1>3. m \in Message /\ m.id \in Streams
  BY <1>1, FirstTyped, QueueNames
<1>4. PICK c : c = open_tcp_stream(m.id)
  OBVIOUS
<1>5. c \in Message /\ c \in OfKind("OpenTcp")
  BY <1>3, <1>4, MessageKinds
<1>6. /\ queue' \in [Queues -> Seq(Message)]
      /\ NewStreams' = Tail(NewStreams)
      /\ OpensOut' = IF m.id \in server_bound THEN Append(OpensOut, c) ELSE OpensOut
      /\ UNCHANGED <<OpensIn, ClosesIn, ClosesOut, DataIn, DataOut>>
  <2>1. CASE m.id \in server_bound
    <3>1. queue' = Pushed("new_tcp_streams", "opens_to_client", c)
      BY <1>1, <1>4, <2>1
    <3>2. queue["new_tcp_streams"] # << >>
      BY <1>1
    <3> QED BY <1>5, <2>1, <3>1, <3>2, QueuePush, QueueNames
            DEF OpensIn, NewStreams, OpensOut, ClosesIn, ClosesOut, DataIn, DataOut
  <2>2. CASE m.id \notin server_bound
    <3>1. queue' = Popped("new_tcp_streams")
      BY <1>1, <2>2
    <3> QED BY <1>1, <2>2, <3>1, QueuePop, QueueNames
            DEF OpensIn, NewStreams, OpensOut, ClosesIn, ClosesOut, DataIn, DataOut
  <2> QED BY <2>1, <2>2
<1>7. Pure'
  <2>1. NewStreams' \in Seq(OfKind("OpenTcp"))
    BY <1>2, <1>6, TailTyped DEF Typed, Pure
  <2>2. OpensOut' \in Seq(OfKind("OpenTcp"))
    BY <1>5, <1>6, Appended DEF Typed, Pure
  <2> QED BY <1>6, <2>1, <2>2 DEF Typed, Pure
<1>8. ServerTypeOK'
  <2>1. task' \in [Streams -> {"none", "accepted", "running", "finished", "joined"}]
    BY <1>1, <1>3 DEF Typed, TypeOK, ServerTypeOK
  <2>2. txs' \subseteq Streams /\ 1 \in DOMAIN Branches
    BY <1>1, <1>3 DEF Typed, TypeOK, ServerTypeOK, Branches
  <2> QED BY <1>1, <1>6, <2>1, <2>2 DEF Typed, TypeOK, ServerTypeOK
<1>9. Typed'
  BY <1>1, <1>7, <1>8, ServerStepTyped DEF Typed, TypeOK, channel
<1> QED BY <1>1, <1>2, <1>3, <1>4, <1>6, <1>9

LEMMA JoinTaskEffect ==
  ASSUME Typed, NEW id \in Streams, JoinTask(id), UNCHANGED client
  PROVE  /\ Typed' /\ task[id] = "finished" /\ task' = [task EXCEPT ![id] = "joined"]
         /\ txs' = txs \ {id} /\ closed_by_client' = closed_by_client \ {id}
         /\ ClosesOut' = IF id \in closed_by_client THEN ClosesOut
                         ELSE Append(ClosesOut, close_tcp_stream(id))
         /\ UNCHANGED <<OpensIn, NewStreams, OpensOut, ClosesIn, DataIn, DataOut>>
         /\ poll' = 1 /\ UNCHANGED <<slot, server_sock, channel>>
<1>1. /\ task[id] = "finished" /\ task' = [task EXCEPT ![id] = "joined"]
      /\ txs' = txs \ {id} /\ closed_by_client' = closed_by_client \ {id}
      /\ queue' = IF id \in closed_by_client THEN queue
                  ELSE [queue EXCEPT !["closes_to_client"] = Append(@, close_tcp_stream(id))]
      /\ poll' = 1 /\ UNCHANGED <<slot, server_sock, channel>>
  BY DEF JoinTask, Finished
<1>2. PICK c : c = close_tcp_stream(id)
  OBVIOUS
<1>3. c \in Message /\ c \in OfKind("CloseTcp")
  BY <1>2, MessageKinds
<1>4. /\ queue' \in [Queues -> Seq(Message)]
      /\ ClosesOut' = IF id \in closed_by_client THEN ClosesOut ELSE Append(ClosesOut, c)
      /\ UNCHANGED <<OpensIn, NewStreams, OpensOut, ClosesIn, DataIn, DataOut>>
  <2>1. CASE id \in closed_by_client
    <3>1. queue' = queue /\ queue \in [Queues -> Seq(Message)]
      BY <1>1, <2>1 DEF Typed, TypeOK, ServerTypeOK
    <3> QED BY <2>1, <3>1 DEF OpensIn, NewStreams, OpensOut, ClosesIn, ClosesOut, DataIn, DataOut
  <2>2. CASE id \notin closed_by_client
    <3>1. queue' = [queue EXCEPT !["closes_to_client"] = Append(@, c)]
      BY <1>1, <1>2, <2>2
    <3> QED BY <1>3, <2>2, <3>1, QueueAppend, QueueNames
            DEF OpensIn, NewStreams, OpensOut, ClosesIn, ClosesOut, DataIn, DataOut
  <2> QED BY <2>1, <2>2
<1>5. Pure'
  <2>1. ClosesOut' \in Seq(OfKind("CloseTcp"))
    BY <1>3, <1>4, Appended DEF Typed, Pure
  <2> QED BY <1>4, <2>1 DEF Typed, Pure
<1>6. ServerTypeOK'
  <2>1. task' \in [Streams -> {"none", "accepted", "running", "finished", "joined"}]
    BY <1>1 DEF Typed, TypeOK, ServerTypeOK
  <2>2. txs' \subseteq Streams /\ closed_by_client' \subseteq Streams /\ 1 \in DOMAIN Branches
    BY <1>1 DEF Typed, TypeOK, ServerTypeOK, Branches
  <2> QED BY <1>1, <1>4, <2>1, <2>2 DEF Typed, TypeOK, ServerTypeOK
<1>7. Typed'
  BY <1>1, <1>5, <1>6, ServerStepTyped DEF Typed, TypeOK, channel
<1> QED BY <1>1, <1>2, <1>4, <1>7

\* A queue of the server is sent, or taken from without a successor.
LEMMA PopEffect ==
  ASSUME Typed, NEW q \in Queues, Takes(q), queue' = Popped(q)
  PROVE  /\ Pure' /\ queue' \in [Queues -> Seq(Message)]
         /\ queue'[q] = Tail(queue[q])
         /\ \A p \in Queues : p # q => queue'[p] = queue[p]
<1>1. /\ queue[q] # << >> /\ queue' \in [Queues -> Seq(Message)] /\ queue'[q] = Tail(queue[q])
      /\ \A p \in Queues : p # q => queue'[p] = queue[p]
  BY QueuePop DEF Takes
<1>2. \A p \in Queues : \A k : queue[p] \in Seq(OfKind(k)) => queue'[p] \in Seq(OfKind(k))
  <2> SUFFICES ASSUME NEW p \in Queues, NEW k, queue[p] \in Seq(OfKind(k))
               PROVE  queue'[p] \in Seq(OfKind(k))
    OBVIOUS
  <2>1. PICK R : R = OfKind(k)
    OBVIOUS
  <2>2. queue[p] # << >> => Tail(queue[p]) \in Seq(R)
    BY <2>1, TailTyped
  <2> QED BY <1>1, <2>1, <2>2
<1>3. Pure'
  BY <1>2, QueueNames DEF Typed, Pure, OpensIn, NewStreams, OpensOut, ClosesIn, ClosesOut, DataIn, DataOut
<1> QED BY <1>1, <1>3

LEMMA SendToClientEffect ==
  ASSUME Typed, SendToClient, UNCHANGED client
  PROVE  /\ Typed' /\ UNCHANGED <<OpensIn, NewStreams, ClosesIn, DataIn>>
         /\ \/ /\ OpensOut # << >> /\ OpensOut' = Tail(OpensOut)
               /\ to_client' = Append(to_client, Head(OpensOut)) /\ Head(OpensOut).kind = "OpenTcp"
               /\ UNCHANGED <<ClosesOut, DataOut>>
            \/ /\ ClosesOut # << >> /\ ClosesOut' = Tail(ClosesOut)
               /\ to_client' = Append(to_client, Head(ClosesOut)) /\ Head(ClosesOut).kind = "CloseTcp"
               /\ UNCHANGED <<OpensOut, DataOut>> /\ poll = 7
            \/ /\ DataOut # << >> /\ DataOut' = Tail(DataOut)
               /\ to_client' = Append(to_client, Head(DataOut)) /\ Head(DataOut).kind = "TcpData"
               /\ UNCHANGED <<OpensOut, ClosesOut>>
         /\ poll' = 1
         /\ UNCHANGED <<task, txs, slot, closed_by_client, server_sock, server_bound, to_server>>
<1>1. PICK b \in {"data_to_client", "closes_to_client", "opens_to_client"} :
           /\ Takes(b) /\ queue' = Popped(b) /\ to_client' = Append(to_client, First(b))
           /\ UNCHANGED <<task, txs, slot, closed_by_client, server_sock, server_bound, to_server>>
  BY DEF SendToClient
<1>2. b \in Queues /\ poll' = 1 /\ queue[b] # << >> /\ Branches[poll] = b
  BY <1>1, QueueNames DEF Takes
<1>3. First(b) \in Message
  BY <1>2, FirstTyped
<1>4. /\ Pure' /\ queue' \in [Queues -> Seq(Message)]
      /\ queue'[b] = Tail(queue[b])
      /\ \A p \in Queues : p # b => queue'[p] = queue[p]
  BY <1>1, <1>2, PopEffect
<1>5. UNCHANGED <<OpensIn, NewStreams, ClosesIn, DataIn>>
  BY <1>1, <1>4, QueueNames DEF OpensIn, NewStreams, ClosesIn, DataIn
<1>6. to_client' \in Seq(Message)
  BY <1>1, <1>3, Appended DEF Typed, TypeOK
<1>7. ServerTypeOK'
  <2>1. 1 \in DOMAIN Branches
    BY DEF Branches
  <2> QED BY <1>1, <1>2, <1>4, <2>1 DEF Typed, TypeOK, ServerTypeOK
<1>8. Typed'
  BY <1>1, <1>4, <1>6, <1>7, ServerStepTyped DEF Typed, TypeOK
<1>9. CASE b = "opens_to_client"
  <2>1. /\ OpensOut # << >> /\ OpensOut' = Tail(OpensOut)
        /\ to_client' = Append(to_client, Head(OpensOut))
        /\ UNCHANGED <<ClosesOut, DataOut>>
    BY <1>1, <1>2, <1>4, <1>9, QueueNames DEF OpensOut, ClosesOut, DataOut, First
  <2>2. Head(OpensOut).kind = "OpenTcp"
    BY <2>1, TailTyped DEF Typed, Pure, OfKind
  <2> QED BY <1>1, <1>2, <1>5, <1>8, <2>1, <2>2
<1>10. CASE b = "closes_to_client"
  <2>1. /\ ClosesOut # << >> /\ ClosesOut' = Tail(ClosesOut)
        /\ to_client' = Append(to_client, Head(ClosesOut))
        /\ UNCHANGED <<OpensOut, DataOut>>
    BY <1>1, <1>2, <1>4, <1>10, QueueNames DEF OpensOut, ClosesOut, DataOut, First
  <2>2. Head(ClosesOut).kind = "CloseTcp"
    BY <2>1, TailTyped DEF Typed, Pure, OfKind
  <2>3. poll = 7
    BY <1>2, <1>10, Polls DEF Typed, TypeOK, ServerTypeOK
  <2> QED BY <1>1, <1>2, <1>5, <1>8, <2>1, <2>2, <2>3
<1>11. CASE b = "data_to_client"
  <2>1. /\ DataOut # << >> /\ DataOut' = Tail(DataOut)
        /\ to_client' = Append(to_client, Head(DataOut))
        /\ UNCHANGED <<OpensOut, ClosesOut>>
    BY <1>1, <1>2, <1>4, <1>11, QueueNames DEF OpensOut, ClosesOut, DataOut, First
  <2>2. Head(DataOut).kind = "TcpData"
    BY <2>1, TailTyped DEF Typed, Pure, OfKind
  <2> QED BY <1>1, <1>2, <1>5, <1>8, <2>1, <2>2
<1> QED BY <1>1, <1>9, <1>10, <1>11

LEMMA DataFromClientEffect ==
  ASSUME Typed, DataFromClient, UNCHANGED client, NEW m, m = Head(DataIn)
  PROVE  /\ Typed' /\ DataIn # << >> /\ m \in Message /\ m.kind = "TcpData" /\ DataIn' = Tail(DataIn)
         /\ \/ slot' = slot
            \/ slot[m.id] = << >> /\ slot' = [slot EXCEPT ![m.id] = <<m.data>>]
         /\ UNCHANGED <<OpensIn, NewStreams, OpensOut, ClosesIn, ClosesOut, DataOut>>
         /\ poll' = 1 /\ UNCHANGED <<task, txs, closed_by_client, server_sock, channel>>
<1>1. /\ m = First("data_from_client") /\ Takes("data_from_client") /\ DataIn # << >> /\ poll' = 1
      /\ \/ slot' = slot
         \/ slot[m.id] = << >> /\ slot' = [slot EXCEPT ![m.id] = <<m.data>>]
      /\ queue' = Popped("data_from_client")
      /\ UNCHANGED <<task, txs, closed_by_client, server_sock, channel>>
  BY DEF DataFromClient, Takes, DataIn, First
<1>2. m \in OfKind("TcpData")
  BY <1>1, TailTyped DEF Typed, Pure
<1>3. m \in Message /\ m.kind = "TcpData" /\ m.id \in Streams /\ m.data \in Nat
  BY <1>2 DEF OfKind, Message
<1>4. /\ Pure' /\ queue' \in [Queues -> Seq(Message)] /\ DataIn' = Tail(DataIn)
      /\ UNCHANGED <<OpensIn, NewStreams, OpensOut, ClosesIn, ClosesOut, DataOut>>
  BY <1>1, PopEffect, QueueNames
     DEF OpensIn, NewStreams, OpensOut, ClosesIn, ClosesOut, DataIn, DataOut
<1>5. slot' \in [Streams -> Seq(Nat)] /\ \A i \in Streams : Len(slot'[i]) <= 1
  <2>1. <<m.data>> \in Seq(Nat) /\ Len(<<m.data>>) = 1
    BY <1>3
  <2>2. slot \in [Streams -> Seq(Nat)] /\ \A i \in Streams : Len(slot[i]) <= 1
    BY DEF Typed, TypeOK, ServerTypeOK
  <2>3. PICK d : d = <<m.data>>
    OBVIOUS
  <2>4. slot' = slot \/ slot' = [slot EXCEPT ![m.id] = d]
    BY <1>1, <2>3
  <2>5. d \in Seq(Nat) /\ Len(d) <= 1
    BY <2>1, <2>3
  <2> QED BY <1>3, <2>2, <2>4, <2>5
<1>6. ServerTypeOK'
  <2>1. 1 \in DOMAIN Branches
    BY DEF Branches
  <2> QED BY <1>1, <1>4, <1>5, <2>1 DEF Typed, TypeOK, ServerTypeOK
<1>7. Typed'
  BY <1>1, <1>4, <1>6, ServerStepTyped DEF Typed, TypeOK, channel
<1> QED BY <1>1, <1>3, <1>4, <1>7

LEMMA CloseFromClientEffect ==
  ASSUME Typed, CloseFromClient, UNCHANGED client, NEW m, m = Head(ClosesIn)
  PROVE  /\ Typed' /\ m.id \in Streams
         /\ txs' = txs \ {m.id}
         /\ closed_by_client' = closed_by_client \union ({m.id} \intersect txs)
         /\ UNCHANGED <<OpensIn, NewStreams, OpensOut, ClosesOut, DataIn, DataOut>>
         /\ poll' = 1 /\ UNCHANGED <<task, slot, server_sock, channel>>
<1>1. /\ m = First("closes_from_client") /\ Takes("closes_from_client") /\ ClosesIn # << >>
      /\ poll' = 1 /\ txs' = txs \ {m.id}
      /\ closed_by_client' = closed_by_client \union ({m.id} \intersect txs)
      /\ queue' = Popped("closes_from_client")
      /\ UNCHANGED <<task, slot, server_sock, channel>>
  BY DEF CloseFromClient, Takes, ClosesIn, First
<1>2. m.id \in Streams
  BY <1>1, TailTyped DEF Typed, Pure, OfKind, Message
<1>3. /\ Pure' /\ queue' \in [Queues -> Seq(Message)]
      /\ UNCHANGED <<OpensIn, NewStreams, OpensOut, ClosesOut, DataIn, DataOut>>
  BY <1>1, PopEffect, QueueNames
     DEF OpensIn, NewStreams, OpensOut, ClosesIn, ClosesOut, DataIn, DataOut
<1>4. txs' \subseteq Streams /\ closed_by_client' \subseteq Streams /\ 1 \in DOMAIN Branches
  BY <1>1 DEF Typed, TypeOK, ServerTypeOK, Branches
<1>5. ServerTypeOK'
  BY <1>1, <1>3, <1>4 DEF Typed, TypeOK, ServerTypeOK
<1>6. Typed'
  BY <1>1, <1>3, <1>5, ServerStepTyped DEF Typed, TypeOK, channel
<1> QED BY <1>1, <1>2, <1>3, <1>6

-----------------------------------------------------------------------------
StreamStates == {"none", "Opening", "Opened", "HalfClosed", "FullyClosed"}

LEMMA StateSteps ==
  ASSUME NEW s \in StreamStates
  PROVE  /\ s \in {"Opening", "Opened"} => AfterClose(s) = "HalfClosed"
         /\ s = "HalfClosed" => AfterClose(s) = "FullyClosed"
         /\ s \in {"FullyClosed", "none"} => AfterClose(s) = "none"
         /\ s = "Opened" => AfterResult(s) = "HalfClosed"
         /\ s = "HalfClosed" => AfterResult(s) = "FullyClosed"
         /\ s \in {"Opening", "FullyClosed", "none"} => AfterResult(s) = "none"
         /\ AfterClose(s) \in {"none", "HalfClosed", "FullyClosed"}
         /\ AfterResult(s) \in {"none", "HalfClosed", "FullyClosed"}
  BY DEF StreamStates, AfterClose, AfterResult

LEMMA EmptyTyped == << >> \in Seq(Nat) /\ Len(<< >>) = 0
  OBVIOUS

LEMMA SentToServer ==
  ASSUME Typed, NEW id \in Streams
  PROVE  /\ to_server \in Seq(Message)
         /\ Append(to_server, close_tcp_stream(id)) \in Seq(Message)
         /\ Append(to_server, open_tcp_stream(id)) \in Seq(Message)
         /\ \A d \in Nat : Append(to_server, tcp_data(id, d)) \in Seq(Message)
<1>1. to_server \in Seq(Message)
  BY DEF Typed, TypeOK
<1>2. ASSUME NEW m \in Message PROVE Append(to_server, m) \in Seq(Message)
  BY <1>1, Appended
<1> QED BY <1>1, <1>2, MessageKinds

LEMMA HandleOpenEffect ==
  ASSUME Typed, handle_open_from_server, UNCHANGED server, NEW m, m = Head(to_client)
  PROVE  /\ Typed' /\ UNCHANGED serverQueues /\ m \in Message /\ m.kind = "OpenTcp" /\ m.id \in Streams
         /\ main = Idle /\ to_client # << >> /\ to_client' = Tail(to_client)
         /\ \/ /\ m.id \in server_bound /\ streams[m.id] = "none"
               /\ streams' = [streams EXCEPT ![m.id] = "Opening"]
               /\ starter' = [starter EXCEPT ![m.id] = "connect"]
               /\ UNCHANGED to_server
            \/ /\ to_server' = Append(to_server, close_tcp_stream(m.id))
               /\ UNCHANGED <<streams, starter>>
         /\ UNCHANGED <<queued, reader, writer, buffer, main, client_sock, server_bound>>
<1>1. /\ main = Idle /\ m.kind = "OpenTcp" /\ to_client # << >> /\ to_client' = Tail(to_client)
      /\ \/ /\ m.id \in server_bound /\ streams[m.id] = "none"
            /\ streams' = [streams EXCEPT ![m.id] = "Opening"]
            /\ starter' = [starter EXCEPT ![m.id] = "connect"]
            /\ UNCHANGED to_server
         \/ /\ to_server' = Append(to_server, close_tcp_stream(m.id))
            /\ UNCHANGED <<streams, starter>>
      /\ UNCHANGED <<queued, reader, writer, buffer, main, client_sock, server_bound>>
  BY DEF handle_open_from_server, TakesMessage, FromServer
<1>2. m \in Message /\ to_client' \in Seq(Message)
  BY <1>1, TailTyped DEF Typed, TypeOK
<1>3. m.id \in Streams
  BY <1>2 DEF Message
<1>4. to_server' \in Seq(Message)
  BY <1>1, <1>3, SentToServer
<1>5. /\ streams' \in [Streams -> {"none", "Opening", "Opened", "HalfClosed", "FullyClosed"}]
      /\ starter' \in [Streams -> {"none", "connect", "failed", "started", "done"}]
  <2>1. /\ streams \in [Streams -> {"none", "Opening", "Opened", "HalfClosed", "FullyClosed"}]
        /\ starter \in [Streams -> {"none", "connect", "failed", "started", "done"}]
    BY DEF Typed, TypeOK, ClientTypeOK
  <2>2. /\ streams' = streams \/ streams' = [streams EXCEPT ![m.id] = "Opening"]
        /\ starter' = starter \/ starter' = [starter EXCEPT ![m.id] = "connect"]
    BY <1>1
  <2> QED BY <1>3, <2>1, <2>2
<1>6. ClientTypeOK'
  BY <1>1, <1>5 DEF Typed, TypeOK, ClientTypeOK
<1> QED BY <1>1, <1>2, <1>3, <1>4, <1>6, ClientStepTyped

LEMMA HandleCloseEffect ==
  ASSUME Typed, handle_close_from_server, UNCHANGED server, NEW m, m = Head(to_client)
  PROVE  /\ Typed' /\ UNCHANGED serverQueues /\ m \in Message /\ m.kind = "CloseTcp" /\ m.id \in Streams
         /\ main = Idle /\ to_client # << >> /\ to_client' = Tail(to_client)
         /\ streams' = [streams EXCEPT ![m.id] = AfterClose(@)]
         /\ queued' = queued \/ queued' = [queued EXCEPT ![m.id] = << >>]
         /\ UNCHANGED <<starter, reader, writer, buffer, main, client_sock, server_bound, to_server>>
<1>1. /\ main = Idle /\ m.kind = "CloseTcp" /\ to_client # << >> /\ to_client' = Tail(to_client)
      /\ streams' = [streams EXCEPT ![m.id] = AfterClose(@)]
      /\ queued' = queued \/ queued' = [queued EXCEPT ![m.id] = << >>]
      /\ UNCHANGED <<starter, reader, writer, buffer, main, client_sock, server_bound, to_server>>
  BY DEF handle_close_from_server, TakesMessage, FromServer
<1>2. m \in Message /\ to_client' \in Seq(Message)
  BY <1>1, TailTyped DEF Typed, TypeOK
<1>3. m.id \in Streams
  BY <1>2 DEF Message
<1>4. streams' \in [Streams -> {"none", "Opening", "Opened", "HalfClosed", "FullyClosed"}]
  <2>1. streams \in [Streams -> StreamStates] /\ streams[m.id] \in StreamStates
    BY <1>3 DEF Typed, TypeOK, ClientTypeOK, StreamStates
  <2>2. AfterClose(streams[m.id]) \in StreamStates
    BY <2>1, StateSteps DEF StreamStates
  <2> QED BY <1>1, <2>1, <2>2 DEF StreamStates
<1>5. queued' \in [Streams -> Seq(Nat)]
  BY <1>1, <1>3, EmptyTyped DEF Typed, TypeOK, ClientTypeOK
<1>6. ClientTypeOK'
  BY <1>1, <1>4, <1>5 DEF Typed, TypeOK, ClientTypeOK
<1> QED BY <1>1, <1>2, <1>3, <1>6, ClientStepTyped DEF Typed, TypeOK

LEMMA HandleDataEffect ==
  ASSUME Typed, handle_data_from_server, UNCHANGED server, NEW m, m = Head(to_client)
  PROVE  /\ Typed' /\ UNCHANGED serverQueues /\ m \in Message /\ m.kind = "TcpData" /\ m.id \in Streams
         /\ m.data \in Nat
         /\ main = Idle /\ to_client # << >> /\ to_client' = Tail(to_client)
         /\ \/ /\ streams[m.id] = "Opened" /\ main' = [pc |-> "send", id |-> m.id, data |-> m.data]
               /\ UNCHANGED <<queued, to_server>>
            \/ /\ streams[m.id] = "Opening" /\ queued' = [queued EXCEPT ![m.id] = Append(@, m.data)]
               /\ UNCHANGED <<main, to_server>>
            \/ /\ to_server' = to_server \/ to_server' = Append(to_server, close_tcp_stream(m.id))
               /\ UNCHANGED <<main, queued>>
         /\ UNCHANGED <<streams, starter, reader, writer, buffer, client_sock, server_bound>>
<1>1. /\ main = Idle /\ m.kind = "TcpData" /\ to_client # << >> /\ to_client' = Tail(to_client)
      /\ \/ /\ streams[m.id] = "Opened" /\ main' = [pc |-> "send", id |-> m.id, data |-> m.data]
            /\ UNCHANGED <<queued, to_server>>
         \/ /\ streams[m.id] = "Opening" /\ queued' = [queued EXCEPT ![m.id] = Append(@, m.data)]
            /\ UNCHANGED <<main, to_server>>
         \/ /\ to_server' = to_server \/ to_server' = Append(to_server, close_tcp_stream(m.id))
            /\ UNCHANGED <<main, queued>>
      /\ UNCHANGED <<streams, starter, reader, writer, buffer, client_sock, server_bound>>
  BY DEF handle_data_from_server, TakesMessage, FromServer
<1>2. m \in Message /\ to_client' \in Seq(Message)
  BY <1>1, TailTyped DEF Typed, TypeOK
<1>3. m.id \in Streams /\ m.data \in Nat
  BY <1>2 DEF Message
<1>4. to_server' \in Seq(Message)
  BY <1>1, <1>3, SentToServer
<1>5. queued' \in [Streams -> Seq(Nat)]
  <2>1. queued \in [Streams -> Seq(Nat)] /\ queued[m.id] \in Seq(Nat)
    BY <1>3 DEF Typed, TypeOK, ClientTypeOK
  <2>2. Append(queued[m.id], m.data) \in Seq(Nat)
    BY <1>3, <2>1, Appended
  <2> QED BY <1>1, <1>3, <2>1, <2>2
<1>6. main' = Idle \/ main' \in Sending
  BY <1>1, <1>3 DEF Sending
<1>7. ClientTypeOK'
  BY <1>1, <1>5, <1>6 DEF Typed, TypeOK, ClientTypeOK, Idle, Sending
<1> QED BY <1>1, <1>2, <1>3, <1>4, <1>7, ClientStepTyped

LEMMA SendToWriterEffect ==
  ASSUME Typed, SendToWriter, UNCHANGED server
  PROVE  /\ Typed' /\ UNCHANGED serverQueues
         /\ main # Idle /\ main.id \in Streams /\ main.data \in Nat /\ buffer[main.id] = << >>
         /\ buffer' = [buffer EXCEPT ![main.id] = <<main.data>>] /\ main' = Idle
         /\ UNCHANGED <<streams, queued, starter, reader, writer, client_sock, channel>>
<1>1. /\ main # Idle /\ buffer[main.id] = << >>
      /\ buffer' = [buffer EXCEPT ![main.id] = <<main.data>>] /\ main' = Idle
      /\ UNCHANGED <<streams, queued, starter, reader, writer, client_sock, channel>>
  BY DEF SendToWriter
<1>2. main.id \in Streams /\ main.data \in Nat
  BY <1>1 DEF Typed, TypeOK, ClientTypeOK, Sending
<1>3. PICK d : d = <<main.data>>
  OBVIOUS
<1>4. d \in Seq(Nat) /\ Len(d) <= 1
  BY <1>2, <1>3
<1>5. buffer' \in [Streams -> Seq(Nat)] /\ \A i \in Streams : Len(buffer'[i]) <= 1
  <2>1. buffer \in [Streams -> Seq(Nat)] /\ \A i \in Streams : Len(buffer[i]) <= 1
    BY DEF Typed, TypeOK, ClientTypeOK
  <2>2. buffer' = [buffer EXCEPT ![main.id] = d]
    BY <1>1, <1>3
  <2> QED BY <1>2, <1>4, <2>1, <2>2
<1>6. ClientTypeOK'
  <2>1. main' = Idle'
    BY <1>1 DEF Idle
  <2> QED BY <1>1, <1>5, <2>1 DEF Typed, TypeOK, ClientTypeOK
<1> QED BY <1>1, <1>2, <1>6, ClientStepTyped DEF Typed, TypeOK, channel

LEMMA EstablishedEffect ==
  ASSUME Typed, NEW id \in Streams, handle_new_stream_established(id), UNCHANGED server
  PROVE  /\ Typed' /\ UNCHANGED serverQueues
         /\ main = Idle /\ starter[id] = "started" /\ starter' = [starter EXCEPT ![id] = "done"]
         /\ \/ /\ streams[id] = "Opening" \/ (streams[id] = "none" /\ id \notin server_bound)
               /\ streams' = [streams EXCEPT ![id] = "Opened"]
               /\ reader' = [reader EXCEPT ![id] = "read"]
               /\ writer' = [writer EXCEPT ![id] = "write"]
               /\ to_server' = IF streams[id] = "none" THEN Append(to_server, open_tcp_stream(id))
                               ELSE to_server
            \/ /\ streams' = [streams EXCEPT ![id] = "none"]
               /\ UNCHANGED <<reader, writer, to_server>>
         /\ UNCHANGED <<queued, buffer, main, client_sock, server_bound, to_client>>
<1>1. /\ main = Idle /\ starter[id] = "started" /\ starter' = [starter EXCEPT ![id] = "done"]
      /\ \/ /\ streams[id] = "Opening" \/ (streams[id] = "none" /\ id \notin server_bound)
            /\ streams' = [streams EXCEPT ![id] = "Opened"]
            /\ reader' = [reader EXCEPT ![id] = "read"]
            /\ writer' = [writer EXCEPT ![id] = "write"]
            /\ to_server' = IF streams[id] = "none" THEN Append(to_server, open_tcp_stream(id))
                            ELSE to_server
         \/ /\ streams' = [streams EXCEPT ![id] = "none"]
            /\ UNCHANGED <<reader, writer, to_server>>
      /\ UNCHANGED <<queued, buffer, main, client_sock, server_bound, to_client>>
  BY DEF handle_new_stream_established
<1>2. to_server' \in Seq(Message)
  BY <1>1, SentToServer
<1>3. /\ streams' = [streams EXCEPT ![id] = "Opened"] \/ streams' = [streams EXCEPT ![id] = "none"]
      /\ reader' = [reader EXCEPT ![id] = "read"] \/ reader' = reader
      /\ writer' = [writer EXCEPT ![id] = "write"] \/ writer' = writer
  BY <1>1
<1>4. /\ streams' \in [Streams -> {"none", "Opening", "Opened", "HalfClosed", "FullyClosed"}]
      /\ reader' \in [Streams -> {"none", "read", "finished", "done"}]
      /\ writer' \in [Streams -> {"none", "write", "receive", "finished", "done"}]
      /\ starter' \in [Streams -> {"none", "connect", "failed", "started", "done"}]
  <2>1. starter' = [starter EXCEPT ![id] = "done"]
    BY <1>1
  <2> QED BY <1>3, <2>1 DEF Typed, TypeOK, ClientTypeOK
<1>5. ClientTypeOK'
  BY <1>1, <1>4 DEF Typed, TypeOK, ClientTypeOK
<1> QED BY <1>1, <1>2, <1>5, ClientStepTyped DEF Typed, TypeOK

LEMMA ResultEffect ==
  ASSUME Typed, NEW id \in Streams, handle_stream_result(id), UNCHANGED server
  PROVE  /\ Typed' /\ UNCHANGED serverQueues
         /\ \/ /\ reader[id] = "finished" /\ reader' = [reader EXCEPT ![id] = "done"]
               /\ UNCHANGED writer
            \/ /\ writer[id] = "finished" /\ writer' = [writer EXCEPT ![id] = "done"]
               /\ UNCHANGED reader
         /\ streams' = [streams EXCEPT ![id] = AfterResult(@)]
         /\ to_server' = to_server \/ to_server' = Append(to_server, close_tcp_stream(id))
         /\ UNCHANGED <<queued, starter, buffer, main, client_sock, server_bound, to_client>>
<1>1. /\ \/ /\ reader[id] = "finished" /\ reader' = [reader EXCEPT ![id] = "done"]
            /\ UNCHANGED writer
         \/ /\ writer[id] = "finished" /\ writer' = [writer EXCEPT ![id] = "done"]
            /\ UNCHANGED reader
      /\ streams' = [streams EXCEPT ![id] = AfterResult(@)]
      /\ to_server' = to_server \/ to_server' = Append(to_server, close_tcp_stream(id))
      /\ UNCHANGED <<queued, starter, buffer, main, client_sock, server_bound, to_client>>
  BY DEF handle_stream_result
<1>2. to_server' \in Seq(Message)
  BY <1>1, SentToServer
<1>3. streams' \in [Streams -> {"none", "Opening", "Opened", "HalfClosed", "FullyClosed"}]
  <2>1. streams \in [Streams -> StreamStates] /\ streams[id] \in StreamStates
    BY DEF Typed, TypeOK, ClientTypeOK, StreamStates
  <2>2. AfterResult(streams[id]) \in StreamStates
    BY <2>1, StateSteps DEF StreamStates
  <2> QED BY <1>1, <2>1, <2>2 DEF StreamStates
<1>4. /\ reader' \in [Streams -> {"none", "read", "finished", "done"}]
      /\ writer' \in [Streams -> {"none", "write", "receive", "finished", "done"}]
  <2>1. /\ reader' = [reader EXCEPT ![id] = "done"] \/ reader' = reader
        /\ writer' = [writer EXCEPT ![id] = "done"] \/ writer' = writer
    BY <1>1
  <2> QED BY <2>1 DEF Typed, TypeOK, ClientTypeOK
<1>5. ClientTypeOK'
  BY <1>1, <1>3, <1>4 DEF Typed, TypeOK, ClientTypeOK
<1> QED BY <1>1, <1>2, <1>5, ClientStepTyped DEF Typed, TypeOK

LEMMA StarterEffect ==
  ASSUME Typed, NEW id \in Streams, AcceptAtClient(id) \/ Connect(id), UNCHANGED server
  PROVE  /\ Typed' /\ UNCHANGED serverQueues
         /\ \/ /\ id \notin server_bound /\ starter[id] = "none"
               /\ starter' = [starter EXCEPT ![id] = "started"] /\ UNCHANGED to_server
            \/ /\ starter[id] = "connect"
               /\ \/ starter' = [starter EXCEPT ![id] = "started"] /\ UNCHANGED to_server
                  \/ /\ starter' = [starter EXCEPT ![id] = "failed"]
                     /\ to_server' = Append(to_server, close_tcp_stream(id))
         /\ UNCHANGED <<streams, queued, reader, writer, buffer, main, client_sock, server_bound, to_client>>
<1>1. /\ \/ /\ id \notin server_bound /\ starter[id] = "none"
            /\ starter' = [starter EXCEPT ![id] = "started"] /\ UNCHANGED to_server
         \/ /\ starter[id] = "connect"
            /\ \/ starter' = [starter EXCEPT ![id] = "started"] /\ UNCHANGED to_server
               \/ /\ starter' = [starter EXCEPT ![id] = "failed"]
                  /\ to_server' = Append(to_server, close_tcp_stream(id))
      /\ UNCHANGED <<streams, queued, reader, writer, buffer, main, client_sock, server_bound, to_client>>
  BY DEF AcceptAtClient, Connect, channel
<1>2. to_server' \in Seq(Message)
  BY <1>1, SentToServer
<1>3. starter' \in [Streams -> {"none", "connect", "failed", "started", "done"}]
  <2>1. starter' = [starter EXCEPT ![id] = "started"] \/ starter' = [starter EXCEPT ![id] = "failed"]
    BY <1>1
  <2> QED BY <2>1 DEF Typed, TypeOK, ClientTypeOK
<1>4. ClientTypeOK'
  BY <1>1, <1>3 DEF Typed, TypeOK, ClientTypeOK
<1> QED BY <1>1, <1>2, <1>4, ClientStepTyped DEF Typed, TypeOK

LEMMA ReadThreadEffect ==
  ASSUME Typed, NEW id \in Streams, ReadThread(id), UNCHANGED server
  PROVE  /\ Typed' /\ UNCHANGED serverQueues /\ reader[id] = "read"
         /\ \/ /\ client_sock'[id].read = client_sock[id].read + 1
               /\ client_sock'[id].written = client_sock[id].written
               /\ \A i \in Streams \ {id} : client_sock'[i] = client_sock[i]
               /\ to_server' = Append(to_server, tcp_data(id, client_sock[id].read + 1))
               /\ UNCHANGED reader
            \/ /\ reader' = [reader EXCEPT ![id] = "finished"]
               /\ UNCHANGED <<client_sock, to_server>>
         /\ UNCHANGED <<streams, queued, starter, writer, buffer, main, server_bound, to_client>>
<1>1. /\ reader[id] = "read"
      /\ UNCHANGED <<streams, queued, starter, writer, buffer, main, server_bound, to_client>>
  BY DEF ReadThread
<1>2. /\ client_sock \in [Streams -> Socket] /\ client_sock[id] \in Socket
      /\ to_server \in Seq(Message)
  BY DEF Typed, TypeOK, ClientTypeOK
<1>3. /\ Read(client_sock[id]) \in Socket /\ client_sock[id].read \in Nat
      /\ Read(client_sock[id]).read = client_sock[id].read + 1
      /\ Read(client_sock[id]).written = client_sock[id].written
  BY <1>2, SocketSteps
<1>4. CASE /\ client_sock' = [client_sock EXCEPT ![id] = Read(@)]
           /\ to_server' = Append(to_server, tcp_data(id, client_sock'[id].read))
           /\ UNCHANGED reader
  <2>1. /\ client_sock' \in [Streams -> Socket]
        /\ client_sock'[id].read = client_sock[id].read + 1
        /\ client_sock'[id].written = client_sock[id].written
        /\ \A i \in Streams \ {id} : client_sock'[i] = client_sock[i]
    BY <1>2, <1>3, <1>4
  <2>2. to_server' = Append(to_server, tcp_data(id, client_sock[id].read + 1))
    BY <1>4, <2>1
  <2>3. to_server' \in Seq(Message)
    BY <1>3, <2>2, SentToServer
  <2>4. ClientTypeOK'
    BY <1>1, <1>4, <2>1 DEF Typed, TypeOK, ClientTypeOK
  <2> QED BY <1>1, <1>4, <2>1, <2>2, <2>3, <2>4, ClientStepTyped DEF Typed, TypeOK
<1>5. CASE /\ reader' = [reader EXCEPT ![id] = "finished"]
           /\ UNCHANGED <<client_sock, to_server>>
  <2>1. reader' \in [Streams -> {"none", "read", "finished", "done"}]
    BY <1>5 DEF Typed, TypeOK, ClientTypeOK
  <2>2. ClientTypeOK'
    BY <1>1, <1>5, <2>1 DEF Typed, TypeOK, ClientTypeOK
  <2> QED BY <1>1, <1>5, <2>2, ClientStepTyped DEF Typed, TypeOK
<1> QED BY <1>4, <1>5 DEF ReadThread

LEMMA WriteReturnsEffect ==
  ASSUME Typed, NEW id \in Streams, WriteReturns(id), UNCHANGED server
  PROVE  /\ Typed' /\ UNCHANGED serverQueues
         /\ writer[id] = "write" /\ queued' = [queued EXCEPT ![id] = << >>]
         /\ \/ client_sock'[id].written = client_sock[id].written \o queued[id]
            \/ client_sock'[id].written = client_sock[id].written
         /\ \A i \in Streams : client_sock'[i].read = client_sock[i].read
         /\ \A i \in Streams \ {id} : client_sock'[i] = client_sock[i]
         /\ \/ writer' = [writer EXCEPT ![id] = "receive"]
            \/ writer' = [writer EXCEPT ![id] = "finished"]
         /\ UNCHANGED <<streams, starter, reader, buffer, main, channel>>
<1>1. PICK d : d = queued[id]
  OBVIOUS
<1>2. /\ writer[id] = "write" /\ queued' = [queued EXCEPT ![id] = << >>]
      /\ \/ /\ client_sock' = [client_sock EXCEPT ![id] = Write(@, d)]
            /\ writer' = [writer EXCEPT ![id] = "receive"]
         \/ /\ writer' = [writer EXCEPT ![id] = "finished"]
            /\ UNCHANGED client_sock
      /\ UNCHANGED <<streams, starter, reader, buffer, main, channel>>
  BY <1>1 DEF WriteReturns
<1>3. /\ queued \in [Streams -> Seq(Nat)]
      /\ client_sock \in [Streams -> Socket] /\ client_sock[id] \in Socket
      /\ writer \in [Streams -> {"none", "write", "receive", "finished", "done"}]
  BY DEF Typed, TypeOK, ClientTypeOK
<1>4. d \in Seq(Nat)
  BY <1>1, <1>3
<1>5. /\ Write(client_sock[id], d) \in Socket /\ Write(client_sock[id], d).read = client_sock[id].read
      /\ Write(client_sock[id], d).written = client_sock[id].written \o d
  BY <1>3, <1>4, SocketSteps
<1>6. /\ client_sock' \in [Streams -> Socket]
      /\ \A i \in Streams : client_sock'[i].read = client_sock[i].read
      /\ \A i \in Streams \ {id} : client_sock'[i] = client_sock[i]
      /\ \/ client_sock'[id].written = client_sock[id].written \o d
         \/ client_sock'[id].written = client_sock[id].written
  <2>1. CASE client_sock' = [client_sock EXCEPT ![id] = Write(@, d)]
    BY <1>3, <1>5, <2>1
  <2>2. CASE UNCHANGED client_sock
    BY <1>3, <2>2
  <2> QED BY <1>2, <2>1, <2>2
<1>7. queued' \in [Streams -> Seq(Nat)]
  BY <1>2, <1>3, EmptyTyped
<1>8. /\ writer' \in [Streams -> {"none", "write", "receive", "finished", "done"}]
      /\ \/ writer' = [writer EXCEPT ![id] = "receive"]
         \/ writer' = [writer EXCEPT ![id] = "finished"]
  <2>1. \/ writer' = [writer EXCEPT ![id] = "receive"]
        \/ writer' = [writer EXCEPT ![id] = "finished"]
    BY <1>2
  <2> QED BY <1>3, <2>1
<1>9. ClientTypeOK'
  BY <1>2, <1>6, <1>7, <1>8 DEF Typed, TypeOK, ClientTypeOK
<1>10. Typed' /\ UNCHANGED serverQueues
  BY <1>2, <1>9, ClientStepTyped DEF Typed, TypeOK, channel
<1> QED BY <1>1, <1>2, <1>6, <1>8, <1>10

LEMMA WriterReceivesEffect ==
  ASSUME Typed, NEW id \in Streams, WriterReceives(id), UNCHANGED server
  PROVE  /\ Typed' /\ UNCHANGED serverQueues
         /\ writer[id] = "receive" /\ writer' = [writer EXCEPT ![id] = "write"]
         /\ queued' = [queued EXCEPT ![id] = buffer[id]] /\ buffer' = [buffer EXCEPT ![id] = << >>]
         /\ UNCHANGED <<streams, starter, reader, main, client_sock, channel>>
<1>1. /\ writer[id] = "receive" /\ writer' = [writer EXCEPT ![id] = "write"]
      /\ queued' = [queued EXCEPT ![id] = buffer[id]] /\ buffer' = [buffer EXCEPT ![id] = << >>]
      /\ UNCHANGED <<streams, starter, reader, main, client_sock, channel>>
  BY DEF WriterReceives
<1>2. /\ queued \in [Streams -> Seq(Nat)] /\ buffer \in [Streams -> Seq(Nat)]
      /\ \A i \in Streams : Len(buffer[i]) <= 1
      /\ writer \in [Streams -> {"none", "write", "receive", "finished", "done"}]
  BY DEF Typed, TypeOK, ClientTypeOK
<1>3. PICK e : e = << >> /\ e \in Seq(Nat) /\ Len(e) <= 1
  <2>1. PICK n : n = Len(<< >>)
    OBVIOUS
  <2>2. n = 0 /\ n <= 1
    BY <2>1, EmptyTyped
  <2> QED BY <2>1, <2>2, EmptyTyped
<1>4. buffer' = [buffer EXCEPT ![id] = e]
  BY <1>1, <1>3
<1>5. buffer' \in [Streams -> Seq(Nat)] /\ \A i \in Streams : Len(buffer'[i]) <= 1
  <2>1. buffer' \in [Streams -> Seq(Nat)]
    BY <1>2, <1>3, <1>4
  <2>2. \A i \in Streams : buffer'[i] = e \/ buffer'[i] = buffer[i]
    BY <1>2, <1>4
  <2> QED BY <1>2, <1>3, <2>1, <2>2
<1>6. /\ queued' \in [Streams -> Seq(Nat)]
      /\ writer' \in [Streams -> {"none", "write", "receive", "finished", "done"}]
  BY <1>1, <1>2
<1>7. ClientTypeOK'
  BY <1>1, <1>5, <1>6 DEF Typed, TypeOK, ClientTypeOK
<1> QED BY <1>1, <1>7, ClientStepTyped DEF Typed, TypeOK, channel

LEMMA WriteThreadEndsEffect ==
  ASSUME Typed, NEW id \in Streams, WriteThreadEnds(id), UNCHANGED server
  PROVE  /\ Typed' /\ UNCHANGED serverQueues
         /\ writer[id] = "receive" /\ writer' = [writer EXCEPT ![id] = "finished"]
         /\ UNCHANGED <<streams, queued, starter, reader, buffer, main, client_sock, channel>>
<1>1. /\ writer[id] = "receive" /\ writer' = [writer EXCEPT ![id] = "finished"]
      /\ UNCHANGED <<streams, queued, starter, reader, buffer, main, client_sock, channel>>
  BY DEF WriteThreadEnds
<1>2. ClientTypeOK'
  <2>1. writer' \in [Streams -> {"none", "write", "receive", "finished", "done"}]
    BY <1>1 DEF Typed, TypeOK, ClientTypeOK
  <2> QED BY <1>1, <2>1 DEF Typed, TypeOK, ClientTypeOK
<1> QED BY <1>1, <1>2, ClientStepTyped DEF Typed, TypeOK, channel

LEMMA ClientPeerEffect ==
  ASSUME Typed, NEW id \in Streams, ClientPeer(id), UNCHANGED server
  PROVE  /\ Typed' /\ UNCHANGED serverQueues
         /\ \A i \in Streams : /\ client_sock'[i].read = client_sock[i].read
                               /\ client_sock'[i].written = client_sock[i].written
         /\ UNCHANGED <<streams, queued, starter, reader, writer, buffer, main, channel>>
<1>1. client_sock \in [Streams -> Socket] /\ client_sock[id] \in Socket
  BY DEF Typed, TypeOK, ClientTypeOK
<1>2. PICK s \in {PeerSends(client_sock[id]), PeerCloses(client_sock[id])} :
           /\ client_sock' = [client_sock EXCEPT ![id] = s]
           /\ UNCHANGED <<streams, queued, starter, reader, writer, buffer, main, channel>>
  BY DEF ClientPeer
<1>3. s \in Socket /\ s.read = client_sock[id].read /\ s.written = client_sock[id].written
  BY <1>1, <1>2, SocketSteps
<1>4. /\ client_sock' \in [Streams -> Socket]
      /\ \A i \in Streams : /\ client_sock'[i].read = client_sock[i].read
                            /\ client_sock'[i].written = client_sock[i].written
  BY <1>1, <1>2, <1>3
<1>5. ClientTypeOK'
  BY <1>2, <1>4 DEF Typed, TypeOK, ClientTypeOK
<1> QED BY <1>2, <1>4, <1>5, ClientStepTyped DEF Typed, TypeOK, channel

\* The steps of the tunnel by the ends that take them.
ServerStep ==
  \/ \E id \in Streams : \/ AcceptAtServer(id) \/ ServerPeer(id) \/ TaskWrite(id) \/ TaskRead(id)
                         \/ TaskWriterClosed(id) \/ TaskReadEnds(id) \/ JoinTask(id)
  \/ ReceiveFromClient \/ PollNext \/ OpenFromClient \/ NewTcpStream
  \/ SendToClient \/ DataFromClient \/ CloseFromClient

ClientStep ==
  \/ handle_open_from_server \/ handle_close_from_server \/ handle_data_from_server \/ SendToWriter
  \/ \E id \in Streams :
       \/ handle_new_stream_established(id) \/ handle_stream_result(id)
       \/ AcceptAtClient(id) \/ Connect(id) \/ ReadThread(id)
       \/ WriteReturns(id) \/ WriterReceives(id) \/ WriteThreadEnds(id) \/ ClientPeer(id)

LEMMA Steps ==
  ASSUME [Next]_vars
  PROVE  \/ ServerStep /\ UNCHANGED client
         \/ ClientStep /\ UNCHANGED server
         \/ UNCHANGED <<server, client, channel>>
  BY DEF Next, vars, ServerNext, Dispatch, StreamTask, ClientNext, TcMain, WriteThread,
         ServerStep, ClientStep

LEMMA IdleTyped ==
  ASSUME Typed, UNCHANGED <<server, client, channel>>
  PROVE  Typed' /\ UNCHANGED serverQueues
<1>1. ClientTypeOK'
  BY DEF Typed, TypeOK, ClientTypeOK, client
<1> QED BY <1>1, ClientStepTyped DEF Typed, TypeOK, channel

LEMMA StepTyped ==
  ASSUME Typed, [Next]_vars
  PROVE  Typed'
<1>1. CASE ServerStep /\ UNCHANGED client
  BY <1>1, AcceptAtServerEffect, ServerPeerEffect, TaskWriteEffect, TaskReadEffect, TaskEndsEffect,
     JoinTaskEffect, ReceiveFromClientEffect, PollNextEffect, OpenFromClientEffect,
     NewTcpStreamEffect, SendToClientEffect, DataFromClientEffect, CloseFromClientEffect, Zenon
     DEF ServerStep
<1>2. CASE ClientStep /\ UNCHANGED server
  BY <1>2, HandleOpenEffect, HandleCloseEffect, HandleDataEffect, SendToWriterEffect,
     EstablishedEffect, ResultEffect, StarterEffect, ReadThreadEffect, WriteReturnsEffect,
     WriterReceivesEffect, WriteThreadEndsEffect, ClientPeerEffect, Zenon DEF ClientStep
<1> QED BY <1>1, <1>2, IdleTyped, Steps

LEMMA InitTyped ==
  ASSUME Init
  PROVE  Typed
<1>1. ServerTypeOK
  <2>1. NewSocket \in Socket
    BY EmptyTyped DEF NewSocket, Socket
  <2>2. 1 \in DOMAIN Branches
    BY DEF Branches
  <2>3. /\ queue \in [Queues -> Seq(Message)] /\ slot \in [Streams -> Seq(Nat)]
        /\ \A id \in Streams : Len(slot[id]) <= 1
    <3>1. /\ queue = [q \in Queues |-> << >>] /\ slot = [id \in Streams |-> << >>]
      BY DEF Init, ServerInit
    <3> QED BY <3>1
  <2> QED BY <2>1, <2>2, <2>3 DEF Init, ServerInit, ServerTypeOK
<1>2. ClientTypeOK
  <2>1. NewSocket \in Socket
    BY EmptyTyped DEF NewSocket, Socket
  <2>2. /\ queued \in [Streams -> Seq(Nat)] /\ buffer \in [Streams -> Seq(Nat)]
        /\ \A id \in Streams : Len(buffer[id]) <= 1
    <3>1. queued = [id \in Streams |-> << >>] /\ buffer = [id \in Streams |-> << >>]
      BY DEF Init, ClientInit
    <3> QED BY <3>1
  <2> QED BY <2>1, <2>2 DEF Init, ClientInit, ClientTypeOK
<1>3. Pure
  BY QueueNames DEF Init, ServerInit, Pure, OpensIn, NewStreams, OpensOut, ClosesIn, ClosesOut,
     DataIn, DataOut
<1> QED BY <1>1, <1>2, <1>3 DEF Init, Typed, TypeOK

\* The tunnel's variables keep their types, its one-place channels never hold two
\* pieces, and each queue of the dispatch task has messages of its own kind, as
\* its receive task sorts them.
THEOREM TunnelTypes == Spec => []Typed
<1>1. Init => Typed
  BY InitTyped
<1>2. Typed /\ [Next]_vars => Typed'
  BY StepTyped
<1> QED BY <1>1, <1>2, PTL DEF Spec

-----------------------------------------------------------------------------
\* A queue has a message of a kind for a stream, and at most one.
Has(s, k, id) == \E i \in DOMAIN s : s[i].kind = k /\ s[i].id = id

Once(s, k, id) ==
  \A i, j \in DOMAIN s :
    s[i].kind = k /\ s[i].id = id /\ s[j].kind = k /\ s[j].id = id => i = j

LEMMA HasAppended ==
  ASSUME NEW s \in Seq(Message), NEW m \in Message, NEW k, NEW id
  PROVE  /\ Has(Append(s, m), k, id) <=> Has(s, k, id) \/ (m.kind = k /\ m.id = id)
         /\ (m.kind # k \/ m.id # id \/ ~Has(s, k, id)) /\ Once(s, k, id) => Once(Append(s, m), k, id)
<1>1. PICK n \in Nat : n = Len(s)
  OBVIOUS
<1>2. PICK t : t = Append(s, m)
  OBVIOUS
<1>3. /\ DOMAIN t = 1 .. n + 1 /\ DOMAIN s = 1 .. n /\ t[n + 1] = m
      /\ \A i \in 1 .. n : t[i] = s[i]
  BY <1>1, <1>2, Appended
<1>4. \A i \in 1 .. n + 1 : i \in 1 .. n \/ i = n + 1
  BY <1>1
<1>5. n + 1 \in 1 .. n + 1 /\ \A i \in 1 .. n : i \in 1 .. n + 1
  BY <1>1
<1>6. Has(t, k, id) <=> Has(s, k, id) \/ (m.kind = k /\ m.id = id)
  BY <1>3, <1>4, <1>5 DEF Has
<1>7. (m.kind # k \/ m.id # id \/ ~Has(s, k, id)) /\ Once(s, k, id) => Once(t, k, id)
  BY <1>3, <1>4, <1>5 DEF Has, Once
<1> QED BY <1>2, <1>6, <1>7

LEMMA Tailed ==
  ASSUME NEW R, NEW s \in Seq(R), s # << >>
  PROVE  /\ Tail(s) \in Seq(R) /\ Head(s) = s[1] /\ 1 \in DOMAIN s
         /\ \A i \in DOMAIN Tail(s) : i \in Nat /\ i + 1 \in DOMAIN s /\ Tail(s)[i] = s[i + 1]
         /\ \A i \in DOMAIN s : i = 1 \/ (i - 1 \in DOMAIN Tail(s) /\ Tail(s)[i - 1] = s[i])
<1>1. PICK n \in Nat : n = Len(s) /\ n >= 1
  OBVIOUS
<1>2. /\ Tail(s) \in Seq(R) /\ DOMAIN Tail(s) = 1 .. n - 1 /\ DOMAIN s = 1 .. n /\ Head(s) = s[1]
      /\ \A i \in 1 .. n - 1 : Tail(s)[i] = s[i + 1]
  BY <1>1
<1> QED BY <1>1, <1>2

LEMMA HasTail ==
  ASSUME NEW s \in Seq(Message), s # << >>, NEW k, NEW id
  PROVE  /\ Has(Tail(s), k, id) => Has(s, k, id)
         /\ Has(s, k, id) => Has(Tail(s), k, id) \/ (Head(s).kind = k /\ Head(s).id = id)
         /\ Head(s).kind = k /\ Head(s).id = id => Has(s, k, id)
         /\ Once(s, k, id) => /\ Once(Tail(s), k, id)
                              /\ ~(Head(s).kind = k /\ Head(s).id = id /\ Has(Tail(s), k, id))
<1>1. PICK t : t = Tail(s)
  OBVIOUS
<1>2. /\ Head(s) = s[1] /\ 1 \in DOMAIN s
      /\ \A i \in DOMAIN t : i \in Nat /\ i >= 1 /\ i + 1 \in DOMAIN s /\ t[i] = s[i + 1]
      /\ \A i \in DOMAIN s : i = 1 \/ (i - 1 \in DOMAIN t /\ t[i - 1] = s[i])
  BY <1>1, Tailed
<1>3. Has(t, k, id) => Has(s, k, id)
  BY <1>2 DEF Has
<1>4. Has(s, k, id) => Has(t, k, id) \/ (Head(s).kind = k /\ Head(s).id = id)
  BY <1>2 DEF Has
<1>5. Head(s).kind = k /\ Head(s).id = id => Has(s, k, id)
  BY <1>2 DEF Has
<1>6. Once(s, k, id) => Once(t, k, id)
  BY <1>2 DEF Once
<1>7. Once(s, k, id) => ~(Head(s).kind = k /\ Head(s).id = id /\ Has(t, k, id))
  BY <1>2 DEF Once, Has
<1> QED BY <1>1, <1>3, <1>4, <1>5, <1>6, <1>7

-----------------------------------------------------------------------------
HasOpen(s, id) == Has(s, "OpenTcp", id)
OneOpen(s, id) == Once(s, "OpenTcp", id)

Asked(id) == HasOpen(to_server, id) \/ HasOpen(OpensIn, id)
Offered(id) == HasOpen(OpensOut, id) \/ HasOpen(to_client, id)

\* A stream is opened once: the open is in one place at a time, and only before
\* the end it goes to has the stream.
OpenedOnce(id) ==
  /\ OneOpen(to_server, id) /\ OneOpen(OpensIn, id) /\ OneOpen(NewStreams, id)
  /\ OneOpen(OpensOut, id) /\ OneOpen(to_client, id)
  /\ ~(HasOpen(to_server, id) /\ HasOpen(OpensIn, id))
  /\ ~(HasOpen(OpensOut, id) /\ HasOpen(to_client, id))
  /\ HasOpen(NewStreams, id) => task[id] = "accepted"
  /\ Asked(id) => id \notin server_bound /\ task[id] = "none" /\ starter[id] = "done"
  /\ Offered(id) => /\ id \in server_bound /\ task[id] \in {"running", "finished", "joined"}
                    /\ starter[id] = "none"
  /\ id \in server_bound /\ task[id] \in {"none", "accepted"} => starter[id] = "none"
  /\ id \notin server_bound /\ starter[id] # "done" => task[id] = "none"

\* The server has done with a stream, or never took it.
Over(id) ==
  \/ task[id] = "joined"
  \/ task[id] = "none" /\ id \notin server_bound /\ starter[id] = "done" /\ ~Asked(id)

\* Less is on its way, and the task may have ended.
LEMMA OpensShrink ==
  ASSUME NEW id \in Streams, OpenedOnce(id),
         HasOpen(to_server', id) => HasOpen(to_server, id),
         HasOpen(OpensIn', id) => HasOpen(OpensIn, id),
         HasOpen(NewStreams', id) => HasOpen(NewStreams, id),
         HasOpen(OpensOut', id) => HasOpen(OpensOut, id),
         HasOpen(to_client', id) => HasOpen(to_client, id),
         OneOpen(to_server', id), OneOpen(OpensIn', id), OneOpen(NewStreams', id),
         OneOpen(OpensOut', id), OneOpen(to_client', id),
         \/ task'[id] = task[id]
         \/ task[id] \in {"running", "finished"} /\ task'[id] \in {"finished", "joined"},
         UNCHANGED server_bound, starter'[id] = starter[id]
  PROVE  OpenedOnce(id)' /\ (Over(id) => Over(id)')
<1>1. OpenedOnce(id)'
  BY DEF OpenedOnce, Asked, Offered
<1>2. Over(id) => Over(id)'
  BY DEF OpenedOnce, Over, Asked
<1> QED BY <1>1, <1>2

LEMMA OpensAppended ==
  ASSUME NEW s \in Seq(Message), NEW m \in Message, NEW id
  PROVE  /\ HasOpen(Append(s, m), id) <=> HasOpen(s, id) \/ (m.kind = "OpenTcp" /\ m.id = id)
         /\ ~(HasOpen(s, id) /\ m.kind = "OpenTcp" /\ m.id = id) /\ OneOpen(s, id) => OneOpen(Append(s, m), id)
  BY HasAppended DEF HasOpen, OneOpen

LEMMA OpensTail ==
  ASSUME NEW s \in Seq(Message), s # << >>, NEW id
  PROVE  /\ HasOpen(Tail(s), id) => HasOpen(s, id)
         /\ Head(s).kind = "OpenTcp" /\ Head(s).id = id => HasOpen(s, id)
         /\ OneOpen(s, id) => /\ OneOpen(Tail(s), id)
                              /\ ~(Head(s).kind = "OpenTcp" /\ Head(s).id = id /\ HasOpen(Tail(s), id))
  BY HasTail DEF HasOpen, OneOpen

LEMMA QueuesTyped ==
  ASSUME Typed
  PROVE  /\ to_client \in Seq(Message) /\ to_server \in Seq(Message)
         /\ OpensIn \in Seq(Message) /\ NewStreams \in Seq(Message) /\ OpensOut \in Seq(Message)
         /\ ClosesIn \in Seq(Message) /\ ClosesOut \in Seq(Message)
         /\ DataIn \in Seq(Message) /\ DataOut \in Seq(Message)
  BY OfKindMessages DEF Typed, TypeOK, Pure

LEMMA OpensKept ==
  ASSUME NEW id \in Streams, OpenedOnce(id), UNCHANGED <<OpensIn, NewStreams, OpensOut>>,
         HasOpen(to_server', id) => HasOpen(to_server, id),
         HasOpen(to_client', id) => HasOpen(to_client, id),
         OneOpen(to_server', id), OneOpen(to_client', id),
         \/ task'[id] = task[id]
         \/ task[id] \in {"running", "finished"} /\ task'[id] \in {"finished", "joined"},
         UNCHANGED server_bound, starter'[id] = starter[id]
  PROVE  OpenedOnce(id)' /\ (Over(id) => Over(id)')
<1>1. OneOpen(OpensIn, id) /\ OneOpen(NewStreams, id) /\ OneOpen(OpensOut, id)
  BY DEF OpenedOnce
<1>2. OneOpen(OpensIn', id) /\ OneOpen(NewStreams', id) /\ OneOpen(OpensOut', id)
  BY <1>1
<1>3. /\ HasOpen(OpensIn', id) => HasOpen(OpensIn, id)
      /\ HasOpen(NewStreams', id) => HasOpen(NewStreams, id)
      /\ HasOpen(OpensOut', id) => HasOpen(OpensOut, id)
  OBVIOUS
<1> QED BY <1>2, <1>3, OpensShrink

LEMMA AcceptAtServerOpens ==
  ASSUME Typed, NEW a \in Streams, AcceptAtServer(a), UNCHANGED client,
         NEW id \in Streams, OpenedOnce(id)
  PROVE  OpenedOnce(id)' /\ (Over(id) => Over(id)')
<1>1. /\ NewStreams' = Append(NewStreams, open_tcp_stream(a))
      /\ UNCHANGED <<OpensIn, OpensOut, to_client, to_server, server_bound, starter>>
      /\ a \in server_bound /\ task[a] = "none" /\ task' = [task EXCEPT ![a] = "accepted"]
      /\ task'[id] = IF id = a THEN "accepted" ELSE task[id]
  BY AcceptAtServerEffect DEF AcceptAtServer, channel, client, Typed, TypeOK, ServerTypeOK
<1>2. open_tcp_stream(a) \in Message /\ open_tcp_stream(a).id = a /\ NewStreams \in Seq(Message)
  BY MessageKinds, QueuesTyped
<1>3. /\ HasOpen(NewStreams', id) => HasOpen(NewStreams, id) \/ a = id
      /\ ~(HasOpen(NewStreams, id) /\ a = id) /\ OneOpen(NewStreams, id) => OneOpen(NewStreams', id)
  BY <1>1, <1>2, OpensAppended
<1>4. CASE id # a
  BY <1>1, <1>3, <1>4, OpensShrink DEF OpenedOnce
<1>5. CASE id = a
  <2>1. ~HasOpen(NewStreams, id) /\ ~Asked(id) /\ ~Offered(id) /\ ~Over(id) /\ starter[id] = "none"
    BY <1>1, <1>5 DEF OpenedOnce, Over
  <2> QED BY <1>1, <1>3, <1>5, <2>1 DEF OpenedOnce, Asked, Offered
<1> QED BY <1>4, <1>5

LEMMA ReceiveOpens ==
  ASSUME Typed, ReceiveFromClient, UNCHANGED client, NEW id \in Streams, OpenedOnce(id)
  PROVE  OpenedOnce(id)' /\ (Over(id) => Over(id)')
<1>1. PICK m : m = Head(to_server)
  OBVIOUS
<1>2. /\ m \in Message /\ to_server # << >> /\ to_server' = Tail(to_server)
      /\ OpensIn' = IF m.kind = "OpenTcp" THEN Append(OpensIn, m) ELSE OpensIn
      /\ UNCHANGED <<NewStreams, OpensOut, task, server_bound, to_client>>
  BY <1>1, ReceiveFromClientEffect
<1>3. to_server \in Seq(Message) /\ OpensIn \in Seq(Message) /\ starter' = starter
  BY QueuesTyped DEF client
<1>4. /\ HasOpen(to_server', id) => HasOpen(to_server, id)
      /\ m.kind = "OpenTcp" /\ m.id = id => HasOpen(to_server, id) /\ ~HasOpen(to_server', id)
      /\ OneOpen(to_server', id)
  BY <1>1, <1>2, <1>3, OpensTail DEF OpenedOnce
<1>5. /\ HasOpen(OpensIn', id) => HasOpen(OpensIn, id) \/ (m.kind = "OpenTcp" /\ m.id = id)
      /\ OneOpen(OpensIn', id)
  <2>1. ~(HasOpen(OpensIn, id) /\ m.kind = "OpenTcp" /\ m.id = id) /\ OneOpen(OpensIn, id)
    BY <1>4 DEF OpenedOnce
  <2>2. CASE m.kind = "OpenTcp"
    <3>1. OpensIn' = Append(OpensIn, m)
      BY <1>2, <2>2
    <3> QED BY <1>2, <1>3, <2>1, <2>2, <3>1, OpensAppended
  <2>3. CASE m.kind # "OpenTcp"
    <3>1. OpensIn' = OpensIn
      BY <1>2, <2>3
    <3> QED BY <2>1, <3>1
  <2> QED BY <2>2, <2>3
<1>6. CASE m.kind = "OpenTcp" /\ m.id = id
  BY <1>2, <1>3, <1>4, <1>5, <1>6 DEF OpenedOnce, Asked, Offered, Over
<1>7. CASE ~(m.kind = "OpenTcp" /\ m.id = id)
  <2>1. /\ HasOpen(NewStreams', id) => HasOpen(NewStreams, id)
        /\ HasOpen(OpensOut', id) => HasOpen(OpensOut, id)
        /\ HasOpen(to_client', id) => HasOpen(to_client, id)
        /\ OneOpen(NewStreams', id) /\ OneOpen(OpensOut', id) /\ OneOpen(to_client', id)
    BY <1>2 DEF OpenedOnce
  <2> QED BY <1>2, <1>3, <1>4, <1>5, <1>7, <2>1, OpensShrink
<1> QED BY <1>6, <1>7

LEMMA OpenFromClientOpens ==
  ASSUME Typed, OpenFromClient, UNCHANGED client, NEW id \in Streams, OpenedOnce(id)
  PROVE  OpenedOnce(id)' /\ (Over(id) => Over(id)')
<1>1. PICK m : m = Head(OpensIn)
  OBVIOUS
<1>2. /\ OpensIn # << >> /\ m \in OfKind("OpenTcp") /\ m.id \in Streams
      /\ OpensIn' = Tail(OpensIn)
      /\ \/ /\ task' = [task EXCEPT ![m.id] = "accepted"]
            /\ NewStreams' = Append(NewStreams, m)
         \/ task' = task /\ NewStreams' = NewStreams
      /\ UNCHANGED <<OpensOut, to_client, to_server, server_bound>>
  BY <1>1, OpenFromClientEffect DEF channel
<1>3. m.kind = "OpenTcp" /\ m \in Message /\ OpensIn \in Seq(Message) /\ NewStreams \in Seq(Message)
      /\ starter' = starter
  BY <1>2, QueuesTyped DEF OfKind, client
<1>4. task'[id] = task[id] \/ (id = m.id /\ task'[id] = "accepted")
  BY <1>2 DEF Typed, TypeOK, ServerTypeOK
<1>5. /\ HasOpen(OpensIn', id) => HasOpen(OpensIn, id)
      /\ m.id = id => HasOpen(OpensIn, id) /\ ~HasOpen(OpensIn', id)
      /\ OneOpen(OpensIn', id)
  BY <1>1, <1>2, <1>3, OpensTail DEF OpenedOnce
<1>6. /\ HasOpen(NewStreams', id) => HasOpen(NewStreams, id) \/ (m.id = id /\ task'[id] = "accepted")
      /\ OneOpen(NewStreams', id)
  <2>1. ~(HasOpen(NewStreams, id) /\ m.id = id) /\ OneOpen(NewStreams, id)
    BY <1>5 DEF OpenedOnce, Asked
  <2>2. CASE /\ task' = [task EXCEPT ![m.id] = "accepted"]
             /\ NewStreams' = Append(NewStreams, m)
    <3>1. m.id = id => task'[id] = "accepted"
      BY <2>2 DEF Typed, TypeOK, ServerTypeOK
    <3> QED BY <1>3, <2>1, <2>2, <3>1, OpensAppended
  <2>3. CASE NewStreams' = NewStreams
    BY <2>1, <2>3
  <2> QED BY <1>2, <2>2, <2>3
<1>7. CASE m.id = id
  BY <1>2, <1>3, <1>4, <1>5, <1>6, <1>7 DEF OpenedOnce, Asked, Offered, Over
<1>8. CASE m.id # id
  <2>1. /\ HasOpen(to_server', id) => HasOpen(to_server, id)
        /\ HasOpen(OpensOut', id) => HasOpen(OpensOut, id)
        /\ HasOpen(to_client', id) => HasOpen(to_client, id)
        /\ OneOpen(to_server', id) /\ OneOpen(OpensOut', id) /\ OneOpen(to_client', id)
    BY <1>2 DEF OpenedOnce
  <2> QED BY <1>2, <1>3, <1>4, <1>5, <1>6, <1>8, <2>1, OpensShrink
<1> QED BY <1>7, <1>8

LEMMA NewTcpStreamOpens ==
  ASSUME Typed, NewTcpStream, UNCHANGED client, NEW id \in Streams, OpenedOnce(id)
  PROVE  OpenedOnce(id)' /\ (Over(id) => Over(id)')
<1>1. PICK m : m = Head(NewStreams)
  OBVIOUS
<1>2. /\ NewStreams # << >> /\ m \in OfKind("OpenTcp") /\ m.id \in Streams
      /\ NewStreams' = Tail(NewStreams)
      /\ OpensOut' = IF m.id \in server_bound THEN Append(OpensOut, open_tcp_stream(m.id)) ELSE OpensOut
      /\ UNCHANGED <<OpensIn, to_client, to_server, server_bound>>
      /\ task' = [task EXCEPT ![m.id] = "running"]
  BY <1>1, NewTcpStreamEffect DEF channel
<1>3. m.kind = "OpenTcp" /\ m \in Message /\ NewStreams \in Seq(Message) /\ OpensOut \in Seq(Message)
      /\ starter' = starter
  BY <1>2, QueuesTyped DEF OfKind, client
<1>4. task'[id] = IF id = m.id THEN "running" ELSE task[id]
  BY <1>2 DEF Typed, TypeOK, ServerTypeOK
<1>5. /\ HasOpen(NewStreams', id) => HasOpen(NewStreams, id)
      /\ m.id = id => HasOpen(NewStreams, id) /\ ~HasOpen(NewStreams', id)
      /\ OneOpen(NewStreams', id)
  BY <1>1, <1>2, <1>3, OpensTail DEF OpenedOnce
<1>6. /\ HasOpen(OpensOut', id) => HasOpen(OpensOut, id) \/ (m.id = id /\ id \in server_bound)
      /\ OneOpen(OpensOut', id)
  <2>1. ~(HasOpen(OpensOut, id) /\ m.id = id) /\ OneOpen(OpensOut, id)
    BY <1>5 DEF OpenedOnce, Offered
  <2>2. open_tcp_stream(m.id) \in Message /\ open_tcp_stream(m.id).id = m.id
    BY <1>2, MessageKinds
  <2>3. CASE m.id \in server_bound
    <3>1. OpensOut' = Append(OpensOut, open_tcp_stream(m.id))
      BY <1>2, <2>3
    <3> QED BY <1>3, <2>1, <2>2, <2>3, <3>1, OpensAppended
  <2>4. CASE m.id \notin server_bound
    <3>1. OpensOut' = OpensOut
      BY <1>2, <2>4
    <3> QED BY <2>1, <3>1
  <2> QED BY <2>3, <2>4
<1>7. CASE m.id = id
  <2>1. task[id] = "accepted" /\ ~Asked(id) /\ ~Offered(id) /\ ~Over(id)
    BY <1>5, <1>7 DEF OpenedOnce, Over
  <2> QED BY <1>2, <1>3, <1>4, <1>5, <1>6, <1>7, <2>1 DEF OpenedOnce, Asked, Offered
<1>8. CASE m.id # id
  <2>1. /\ HasOpen(to_server', id) => HasOpen(to_server, id)
        /\ HasOpen(OpensIn', id) => HasOpen(OpensIn, id)
        /\ HasOpen(to_client', id) => HasOpen(to_client, id)
        /\ OneOpen(to_server', id) /\ OneOpen(OpensIn', id) /\ OneOpen(to_client', id)
    BY <1>2 DEF OpenedOnce
  <2> QED BY <1>2, <1>3, <1>4, <1>5, <1>6, <1>8, <2>1, OpensShrink
<1> QED BY <1>7, <1>8

LEMMA SendToClientOpens ==
  ASSUME Typed, SendToClient, UNCHANGED client, NEW id \in Streams, OpenedOnce(id)
  PROVE  OpenedOnce(id)' /\ (Over(id) => Over(id)')
<1>1. /\ UNCHANGED <<OpensIn, NewStreams, task, server_bound, to_server>>
      /\ \/ /\ OpensOut # << >> /\ OpensOut' = Tail(OpensOut)
            /\ to_client' = Append(to_client, Head(OpensOut)) /\ Head(OpensOut).kind = "OpenTcp"
         \/ /\ ClosesOut # << >> /\ OpensOut' = OpensOut
            /\ to_client' = Append(to_client, Head(ClosesOut)) /\ Head(ClosesOut).kind = "CloseTcp"
         \/ /\ DataOut # << >> /\ OpensOut' = OpensOut
            /\ to_client' = Append(to_client, Head(DataOut)) /\ Head(DataOut).kind = "TcpData"
  BY SendToClientEffect
<1>2. /\ OpensOut \in Seq(Message) /\ ClosesOut \in Seq(Message) /\ DataOut \in Seq(Message)
      /\ to_client \in Seq(Message) /\ starter' = starter
  BY QueuesTyped DEF client
<1>3. CASE /\ OpensOut # << >> /\ OpensOut' = Tail(OpensOut)
           /\ to_client' = Append(to_client, Head(OpensOut)) /\ Head(OpensOut).kind = "OpenTcp"
  <2>1. PICK m \in Message : m = Head(OpensOut) /\ m.kind = "OpenTcp"
    BY <1>2, <1>3, TailTyped
  <2>2. /\ HasOpen(OpensOut', id) => HasOpen(OpensOut, id)
        /\ m.id = id => HasOpen(OpensOut, id) /\ ~HasOpen(OpensOut', id)
        /\ OneOpen(OpensOut', id)
    BY <1>2, <1>3, <2>1, OpensTail DEF OpenedOnce
  <2>3. ~(HasOpen(to_client, id) /\ m.id = id) /\ OneOpen(to_client, id)
    BY <2>2 DEF OpenedOnce
  <2>4. to_client' = Append(to_client, m)
    BY <1>3, <2>1
  <2>5. /\ HasOpen(to_client', id) => HasOpen(to_client, id) \/ m.id = id
        /\ OneOpen(to_client', id)
    BY <1>2, <2>1, <2>3, <2>4, OpensAppended
  <2>6. OpenedOnce(id)'
    BY <1>1, <1>2, <2>2, <2>5 DEF OpenedOnce, Asked, Offered
  <2>7. Over(id) => Over(id)'
    BY <1>1, <1>2 DEF Over, Asked
  <2> QED BY <2>6, <2>7
<1>4. CASE \E m \in Message : m.kind # "OpenTcp" /\ to_client' = Append(to_client, m) /\ OpensOut' = OpensOut
  <2>1. PICK m \in Message : m.kind # "OpenTcp" /\ to_client' = Append(to_client, m) /\ OpensOut' = OpensOut
    BY <1>4
  <2>2. OneOpen(to_client, id) /\ OneOpen(to_server, id)
    BY DEF OpenedOnce
  <2>3. (HasOpen(to_client', id) => HasOpen(to_client, id)) /\ OneOpen(to_client', id)
    BY <1>2, <2>1, <2>2, OpensAppended
  <2> QED BY <1>1, <1>2, <2>1, <2>2, <2>3, OpensKept
<1>5. ClosesOut # << >> => Head(ClosesOut) \in Message
  BY <1>2, TailTyped
<1>6. DataOut # << >> => Head(DataOut) \in Message
  BY <1>2, TailTyped
<1> QED BY <1>1, <1>3, <1>4, <1>5, <1>6

\* Messages of the other kinds are put on the channel to the server, and the
\* first is taken off the channel to the client.
LEMMA ChannelOpens ==
  ASSUME Typed, NEW id \in Streams, OpenedOnce(id), UNCHANGED serverQueues,
         \/ to_server' = to_server
         \/ \E m \in Message : m.kind # "OpenTcp" /\ to_server' = Append(to_server, m),
         to_client' = to_client \/ (to_client # << >> /\ to_client' = Tail(to_client)),
         UNCHANGED <<task, server_bound>>, starter'[id] = starter[id]
  PROVE  OpenedOnce(id)' /\ (Over(id) => Over(id)')
<1>1. to_server \in Seq(Message) /\ to_client \in Seq(Message)
  BY QueuesTyped
<1>2. OneOpen(to_server, id) /\ OneOpen(to_client, id)
  BY DEF OpenedOnce
<1>3. (HasOpen(to_server', id) => HasOpen(to_server, id)) /\ OneOpen(to_server', id)
  <2>1. ASSUME NEW m \in Message, m.kind # "OpenTcp", to_server' = Append(to_server, m)
        PROVE  (HasOpen(to_server', id) => HasOpen(to_server, id)) /\ OneOpen(to_server', id)
    BY <1>1, <1>2, <2>1, OpensAppended
  <2>2. CASE to_server' = to_server
    BY <1>2, <2>2
  <2> QED BY <2>1, <2>2
<1>4. (HasOpen(to_client', id) => HasOpen(to_client, id)) /\ OneOpen(to_client', id)
  BY <1>1, <1>2, OpensTail
<1>5. UNCHANGED <<OpensIn, NewStreams, OpensOut>>
  BY DEF serverQueues
<1> QED BY <1>3, <1>4, <1>5, OpensKept

LEMMA HandleOpenOpens ==
  ASSUME Typed, handle_open_from_server, UNCHANGED server, NEW id \in Streams, OpenedOnce(id)
  PROVE  OpenedOnce(id)' /\ (Over(id) => Over(id)')
<1>1. PICK m : m = Head(to_client)
  OBVIOUS
<1>2. /\ UNCHANGED serverQueues /\ m \in Message /\ m.kind = "OpenTcp" /\ m.id \in Streams
      /\ to_client # << >> /\ to_client' = Tail(to_client)
      /\ \/ starter' = [starter EXCEPT ![m.id] = "connect"] /\ UNCHANGED to_server
         \/ starter' = starter /\ to_server' = Append(to_server, close_tcp_stream(m.id))
      /\ UNCHANGED server_bound
  BY <1>1, HandleOpenEffect
<1>3. task' = task /\ to_client \in Seq(Message)
  BY QueuesTyped DEF server
<1>4. CASE starter' = [starter EXCEPT ![m.id] = "connect"] /\ UNCHANGED to_server
  <2>1. starter'[id] = IF id = m.id THEN "connect" ELSE starter[id]
    BY <1>4 DEF Typed, TypeOK, ClientTypeOK
  <2>2. CASE id # m.id
    BY <1>2, <1>3, <1>4, <2>1, <2>2, ChannelOpens
  <2>3. CASE id = m.id
    <3>1. HasOpen(to_client, id) /\ ~HasOpen(to_client', id) /\ OneOpen(to_client', id)
      BY <1>1, <1>2, <1>3, <2>3, OpensTail DEF OpenedOnce
    <3>2. /\ id \in server_bound /\ task[id] \in {"running", "finished", "joined"}
          /\ ~HasOpen(OpensOut, id) /\ ~Asked(id)
      BY <3>1 DEF OpenedOnce, Offered
    <3>3. UNCHANGED <<OpensIn, NewStreams, OpensOut>>
      BY <1>2 DEF serverQueues
    <3> QED BY <1>2, <1>3, <1>4, <2>1, <3>1, <3>2, <3>3 DEF OpenedOnce, Asked, Offered, Over
  <2> QED BY <2>2, <2>3
<1>5. CASE starter' = starter /\ to_server' = Append(to_server, close_tcp_stream(m.id))
  <2>1. \E c \in Message : c.kind # "OpenTcp" /\ to_server' = Append(to_server, c)
    BY <1>2, <1>5, MessageKinds
  <2> QED BY <1>2, <1>3, <1>5, <2>1, ChannelOpens
<1> QED BY <1>2, <1>4, <1>5

LEMMA EstablishedOpens ==
  ASSUME Typed, NEW a \in Streams, handle_new_stream_established(a), UNCHANGED server,
         NEW id \in Streams, OpenedOnce(id)
  PROVE  OpenedOnce(id)' /\ (Over(id) => Over(id)')
<1>1. /\ UNCHANGED serverQueues /\ starter[a] = "started" /\ starter' = [starter EXCEPT ![a] = "done"]
      /\ \/ to_server' = to_server
         \/ a \notin server_bound /\ to_server' = Append(to_server, open_tcp_stream(a))
      /\ UNCHANGED <<server_bound, to_client>>
  BY EstablishedEffect
<1>2. task' = task /\ to_server \in Seq(Message)
      /\ open_tcp_stream(a) \in Message /\ open_tcp_stream(a).id = a
  BY QueuesTyped, MessageKinds DEF server
<1>3. starter'[id] = IF id = a THEN "done" ELSE starter[id]
  BY <1>1 DEF Typed, TypeOK, ClientTypeOK
<1>4. UNCHANGED <<OpensIn, NewStreams, OpensOut>>
  BY <1>1 DEF serverQueues
<1>5. /\ HasOpen(to_server', id) => HasOpen(to_server, id) \/ (a = id /\ a \notin server_bound)
      /\ ~(HasOpen(to_server, id) /\ a = id) => OneOpen(to_server', id)
  <2>1. OneOpen(to_server, id)
    BY DEF OpenedOnce
  <2>2. CASE to_server' = to_server
    BY <2>1, <2>2
  <2>3. CASE a \notin server_bound /\ to_server' = Append(to_server, open_tcp_stream(a))
    BY <1>2, <2>1, <2>3, OpensAppended
  <2> QED BY <1>1, <2>2, <2>3
<1>6. CASE id # a
  <2>1. OneOpen(to_client, id)
    BY DEF OpenedOnce
  <2> QED BY <1>1, <1>2, <1>3, <1>4, <1>5, <1>6, <2>1, OpensKept
<1>7. CASE id = a
  <2>1. starter[id] = "started" /\ ~Asked(id) /\ ~Offered(id)
    BY <1>1, <1>7 DEF OpenedOnce
  <2>2. id \in server_bound => task[id] \notin {"none", "accepted"}
    BY <2>1 DEF OpenedOnce
  <2>3. id \notin server_bound => task[id] = "none"
    BY <2>1 DEF OpenedOnce
  <2>4. OpenedOnce(id)'
    BY <1>1, <1>2, <1>3, <1>4, <1>5, <1>7, <2>1, <2>2, <2>3 DEF OpenedOnce, Asked, Offered
  <2>5. Over(id) => Over(id)'
    BY <1>2, <2>1 DEF Over
  <2> QED BY <2>4, <2>5
<1> QED BY <1>6, <1>7

LEMMA StarterOpens ==
  ASSUME Typed, NEW a \in Streams, AcceptAtClient(a) \/ Connect(a), UNCHANGED server,
         NEW id \in Streams, OpenedOnce(id)
  PROVE  OpenedOnce(id)' /\ (Over(id) => Over(id)')
<1>1. /\ UNCHANGED serverQueues
      /\ \/ a \notin server_bound /\ starter[a] = "none"
         \/ starter[a] = "connect"
      /\ \/ starter' = [starter EXCEPT ![a] = "started"]
         \/ starter' = [starter EXCEPT ![a] = "failed"]
      /\ to_server' = to_server \/ to_server' = Append(to_server, close_tcp_stream(a))
      /\ UNCHANGED <<server_bound, to_client>>
  BY StarterEffect
<1>2. task' = task
  BY DEF server
<1>3. \/ to_server' = to_server
      \/ \E m \in Message : m.kind # "OpenTcp" /\ to_server' = Append(to_server, m)
  BY <1>1, MessageKinds
<1>4. IF id = a THEN starter'[id] \in {"started", "failed"} ELSE starter'[id] = starter[id]
  BY <1>1 DEF Typed, TypeOK, ClientTypeOK
<1>5. CASE id # a
  <2>1. starter'[id] = starter[id]
    BY <1>4, <1>5
  <2> QED BY <1>1, <1>2, <1>3, <2>1, ChannelOpens
<1>6. CASE id = a
  <2>1. starter'[id] \in {"started", "failed"} /\ starter[id] \in {"none", "connect"}
    BY <1>1, <1>4, <1>6
  <2>2. ~Asked(id) /\ ~Offered(id)
    BY <1>1, <1>6 DEF OpenedOnce
  <2>3. to_server \in Seq(Message) /\ OneOpen(to_server, id)
    BY QueuesTyped DEF OpenedOnce
  <2>4. (HasOpen(to_server', id) => HasOpen(to_server, id)) /\ OneOpen(to_server', id)
    BY <1>3, <2>3, OpensAppended
  <2>5. UNCHANGED <<OpensIn, NewStreams, OpensOut>>
    BY <1>1 DEF serverQueues
  <2>6. id \in server_bound => task[id] \notin {"none", "accepted"}
    BY <1>1, <1>6, <2>1 DEF OpenedOnce
  <2>7. id \notin server_bound => task[id] = "none"
    BY <2>1 DEF OpenedOnce
  <2>8. OpenedOnce(id)'
    BY <1>1, <1>2, <2>1, <2>2, <2>4, <2>5, <2>6, <2>7 DEF OpenedOnce, Asked, Offered
  <2>9. Over(id) => Over(id)'
    BY <1>2, <2>1 DEF Over
  <2> QED BY <2>8, <2>9
<1> QED BY <1>5, <1>6

\* The other steps of the client leave the opens alone.
LEMMA ClientOpens ==
  ASSUME Typed, UNCHANGED server, NEW id \in Streams, OpenedOnce(id),
         \/ handle_close_from_server \/ handle_data_from_server \/ SendToWriter
         \/ \E a \in Streams : \/ handle_stream_result(a) \/ ReadThread(a) \/ WriteReturns(a)
                               \/ WriterReceives(a) \/ WriteThreadEnds(a) \/ ClientPeer(a)
  PROVE  OpenedOnce(id)' /\ (Over(id) => Over(id)')
<1>1. task' = task
  BY DEF server
<1>2. CASE handle_close_from_server
  BY <1>1, <1>2, HandleCloseEffect, ChannelOpens
<1>3. CASE handle_data_from_server
  <2>1. PICK m : m = Head(to_client)
    OBVIOUS
  <2>2. /\ UNCHANGED serverQueues /\ m.id \in Streams
        /\ to_client # << >> /\ to_client' = Tail(to_client)
        /\ to_server' = to_server \/ to_server' = Append(to_server, close_tcp_stream(m.id))
        /\ UNCHANGED <<starter, server_bound>>
    BY <1>3, <2>1, HandleDataEffect
  <2>3. \/ to_server' = to_server
        \/ \E c \in Message : c.kind # "OpenTcp" /\ to_server' = Append(to_server, c)
    BY <2>2, MessageKinds
  <2> QED BY <1>1, <2>2, <2>3, ChannelOpens
<1>4. CASE SendToWriter
  BY <1>1, <1>4, SendToWriterEffect, ChannelOpens DEF channel
<1>5. ASSUME NEW a \in Streams, handle_stream_result(a)
      PROVE  OpenedOnce(id)' /\ (Over(id) => Over(id)')
  <2>1. /\ UNCHANGED serverQueues
        /\ to_server' = to_server \/ to_server' = Append(to_server, close_tcp_stream(a))
        /\ UNCHANGED <<starter, server_bound, to_client>>
    BY <1>5, ResultEffect
  <2>2. \/ to_server' = to_server
        \/ \E c \in Message : c.kind # "OpenTcp" /\ to_server' = Append(to_server, c)
    BY <2>1, MessageKinds
  <2> QED BY <1>1, <2>1, <2>2, ChannelOpens
<1>6. ASSUME NEW a \in Streams, ReadThread(a)
      PROVE  OpenedOnce(id)' /\ (Over(id) => Over(id)')
  <2>1. /\ UNCHANGED serverQueues
        /\ to_server' = to_server \/ to_server' = Append(to_server, tcp_data(a, client_sock[a].read + 1))
        /\ UNCHANGED <<starter, server_bound, to_client>>
    BY <1>6, ReadThreadEffect
  <2>2. client_sock[a] \in Socket
    BY DEF Typed, TypeOK, ClientTypeOK
  <2>3. client_sock[a].read + 1 \in Nat
    BY <2>2, SocketSteps
  <2>4. \/ to_server' = to_server
        \/ \E c \in Message : c.kind # "OpenTcp" /\ to_server' = Append(to_server, c)
    BY <2>1, <2>3, MessageKinds
  <2> QED BY <1>1, <2>1, <2>4, ChannelOpens
<1>7. ASSUME NEW a \in Streams,
             WriteReturns(a) \/ WriterReceives(a) \/ WriteThreadEnds(a) \/ ClientPeer(a)
      PROVE  OpenedOnce(id)' /\ (Over(id) => Over(id)')
  <2>1. UNCHANGED serverQueues /\ UNCHANGED <<starter, channel>>
    BY <1>7, WriteReturnsEffect, WriterReceivesEffect, WriteThreadEndsEffect, ClientPeerEffect
  <2> QED BY <1>1, <2>1, ChannelOpens DEF channel
<1> QED BY <1>2, <1>3, <1>4, <1>5, <1>6, <1>7

\* So do the other steps of the server.
LEMMA ServerOpens ==
  ASSUME Typed, UNCHANGED client, NEW id \in Streams, OpenedOnce(id),
         \/ PollNext \/ DataFromClient \/ CloseFromClient
         \/ \E a \in Streams : \/ ServerPeer(a) \/ TaskWrite(a) \/ TaskRead(a)
                               \/ TaskWriterClosed(a) \/ TaskReadEnds(a) \/ JoinTask(a)
  PROVE  OpenedOnce(id)' /\ (Over(id) => Over(id)')
<1>1. starter' = starter
  BY DEF client
<1>2. OneOpen(to_client, id) /\ OneOpen(to_server, id)
  BY DEF OpenedOnce
<1>3. SUFFICES /\ UNCHANGED <<OpensIn, NewStreams, OpensOut, channel>>
               /\ \/ task'[id] = task[id]
                  \/ task[id] \in {"running", "finished"} /\ task'[id] \in {"finished", "joined"}
  BY <1>1, <1>2, OpensKept DEF channel
<1>4. CASE PollNext
  BY <1>4, PollNextEffect DEF serverQueues
<1>5. CASE DataFromClient
  BY <1>5, DataFromClientEffect
<1>6. CASE CloseFromClient
  BY <1>6, CloseFromClientEffect
<1>7. task \in [Streams -> {"none", "accepted", "running", "finished", "joined"}]
  BY DEF Typed, TypeOK, ServerTypeOK
<1>8. ASSUME NEW a \in Streams, ServerPeer(a) PROVE UNCHANGED <<OpensIn, NewStreams, OpensOut, channel, task>>
  BY <1>8, ServerPeerEffect DEF serverQueues
<1>9. ASSUME NEW a \in Streams, TaskWrite(a)
      PROVE  /\ UNCHANGED <<OpensIn, NewStreams, OpensOut, channel>>
             /\ task[a] = "running" /\ (task' = task \/ task' = [task EXCEPT ![a] = "finished"])
  BY <1>9, TaskWriteEffect DEF serverQueues, TaskWrite
<1>10. ASSUME NEW a \in Streams, TaskRead(a) PROVE UNCHANGED <<OpensIn, NewStreams, OpensOut, channel, task>>
  BY <1>10, TaskReadEffect
<1>11. ASSUME NEW a \in Streams, TaskWriterClosed(a) \/ TaskReadEnds(a)
       PROVE  /\ UNCHANGED <<OpensIn, NewStreams, OpensOut, channel>>
              /\ task[a] = "running" /\ task' = [task EXCEPT ![a] = "finished"]
  BY <1>11, TaskEndsEffect DEF serverQueues
<1>12. ASSUME NEW a \in Streams, JoinTask(a)
       PROVE  /\ UNCHANGED <<OpensIn, NewStreams, OpensOut, channel>>
              /\ task[a] = "finished" /\ task' = [task EXCEPT ![a] = "joined"]
  BY <1>12, JoinTaskEffect
<1> QED BY <1>4, <1>5, <1>6, <1>7, <1>8, <1>9, <1>10, <1>11, <1>12

LEMMA StepOpens ==
  ASSUME Typed, [Next]_vars, NEW id \in Streams, OpenedOnce(id)
  PROVE  OpenedOnce(id)' /\ (Over(id) => Over(id)')
<1>1. CASE ServerStep /\ UNCHANGED client
  BY <1>1, AcceptAtServerOpens, ReceiveOpens, OpenFromClientOpens, NewTcpStreamOpens,
     SendToClientOpens, ServerOpens, Zenon DEF ServerStep
<1>2. CASE ClientStep /\ UNCHANGED server
  BY <1>2, HandleOpenOpens, EstablishedOpens, StarterOpens, ClientOpens, Zenon DEF ClientStep
<1>3. CASE UNCHANGED <<server, client, channel>>
  <2>1. UNCHANGED serverQueues /\ UNCHANGED <<task, server_bound, starter, to_client, to_server>>
    BY <1>3, IdleTyped DEF server, client, channel
  <2> QED BY <2>1, ChannelOpens
<1> QED BY <1>1, <1>2, <1>3, Steps

-----------------------------------------------------------------------------
\* The client's threads for a stream start when it is established, which is once.
Threads(id) ==
  /\ starter[id] # "done" => /\ reader[id] = "none" /\ buffer[id] = << >>
                             /\ main # Idle => main.id # id
  /\ streams[id] = "Opening" => starter[id] # "done"
  /\ streams[id] = "Opened" => starter[id] = "done"
  /\ reader[id] = "none" <=> writer[id] = "none"

LEMMA HandleOpenThreads ==
  ASSUME Typed, handle_open_from_server, UNCHANGED server,
         NEW id \in Streams, OpenedOnce(id), Threads(id)
  PROVE  Threads(id)'
<1>1. PICK m : m = Head(to_client)
  OBVIOUS
<1>2. /\ m \in Message /\ m.kind = "OpenTcp" /\ m.id \in Streams /\ to_client # << >>
      /\ \/ /\ streams' = [streams EXCEPT ![m.id] = "Opening"]
            /\ starter' = [starter EXCEPT ![m.id] = "connect"]
         \/ UNCHANGED <<streams, starter>>
      /\ UNCHANGED <<reader, writer, buffer, main>>
  BY <1>1, HandleOpenEffect
<1>3. CASE UNCHANGED <<streams, starter>>
  BY <1>2, <1>3 DEF Threads
<1>4. CASE /\ streams' = [streams EXCEPT ![m.id] = "Opening"]
           /\ starter' = [starter EXCEPT ![m.id] = "connect"]
  <2>1. /\ streams'[id] = IF id = m.id THEN "Opening" ELSE streams[id]
        /\ starter'[id] = IF id = m.id THEN "connect" ELSE starter[id]
    BY <1>4 DEF Typed, TypeOK, ClientTypeOK
  <2>2. CASE id = m.id
    <3>1. HasOpen(to_client, id)
      BY <1>1, <1>2, <2>2, OpensTail, QueuesTyped
    <3>2. starter[id] = "none"
      BY <3>1 DEF OpenedOnce, Offered
    <3> QED BY <1>2, <2>1, <2>2, <3>2 DEF Threads
  <2>3. CASE id # m.id
    BY <1>2, <2>1, <2>3 DEF Threads
  <2> QED BY <2>2, <2>3
<1> QED BY <1>2, <1>3, <1>4

LEMMA ClientStepThreads ==
  ASSUME Typed, ClientStep, UNCHANGED server, NEW id \in Streams, OpenedOnce(id), Threads(id)
  PROVE  Threads(id)'
<1>0. /\ streams \in [Streams -> StreamStates] /\ streams[id] \in StreamStates
      /\ starter \in [Streams -> {"none", "connect", "failed", "started", "done"}]
      /\ reader \in [Streams -> {"none", "read", "finished", "done"}]
      /\ writer \in [Streams -> {"none", "write", "receive", "finished", "done"}]
      /\ buffer \in [Streams -> Seq(Nat)]
  BY DEF Typed, TypeOK, ClientTypeOK, StreamStates
<1>1. CASE handle_open_from_server
  BY <1>1, HandleOpenThreads
<1>2. CASE handle_close_from_server
  <2>1. PICK m : m = Head(to_client)
    OBVIOUS
  <2>2. /\ streams' = [streams EXCEPT ![m.id] = AfterClose(@)] /\ m.id \in Streams
        /\ UNCHANGED <<starter, reader, writer, buffer, main>>
    BY <1>2, <2>1, HandleCloseEffect
  <2>3. streams'[id] = streams[id] \/ streams'[id] \in {"none", "HalfClosed", "FullyClosed"}
    BY <1>0, <2>2, StateSteps
  <2> QED BY <2>2, <2>3 DEF Threads
<1>3. CASE handle_data_from_server
  <2>1. PICK m : m = Head(to_client)
    OBVIOUS
  <2>2. /\ main = Idle /\ m.id \in Streams
        /\ \/ streams[m.id] = "Opened" /\ main' = [pc |-> "send", id |-> m.id, data |-> m.data]
           \/ main' = main
        /\ UNCHANGED <<streams, starter, reader, writer, buffer>>
    BY <1>3, <2>1, HandleDataEffect
  <2>3. main' = main \/ (main'.id = m.id /\ streams[m.id] = "Opened")
    BY <2>2
  <2> QED BY <2>2, <2>3 DEF Threads
<1>4. CASE SendToWriter
  <2>1. /\ main # Idle /\ main.id \in Streams /\ buffer' = [buffer EXCEPT ![main.id] = <<main.data>>]
        /\ main' = Idle /\ UNCHANGED <<streams, starter, reader, writer>>
    BY <1>4, SendToWriterEffect
  <2>2. id # main.id => buffer'[id] = buffer[id]
    BY <1>0, <2>1
  <2>3. id = main.id => starter[id] = "done"
    BY <2>1 DEF Threads
  <2> QED BY <2>1, <2>2, <2>3 DEF Threads
<1>5. ASSUME NEW a \in Streams, handle_new_stream_established(a) PROVE Threads(id)'
  <2>1. /\ starter[a] = "started" /\ starter' = [starter EXCEPT ![a] = "done"]
        /\ \/ /\ streams' = [streams EXCEPT ![a] = "Opened"]
              /\ reader' = [reader EXCEPT ![a] = "read"]
              /\ writer' = [writer EXCEPT ![a] = "write"]
           \/ /\ streams' = [streams EXCEPT ![a] = "none"]
              /\ UNCHANGED <<reader, writer>>
        /\ UNCHANGED <<buffer, main>>
    BY <1>5, EstablishedEffect
  <2>2. CASE id # a
    <3>1. starter'[id] = starter[id] /\ streams'[id] = streams[id] /\ reader'[id] = reader[id]
          /\ writer'[id] = writer[id]
      BY <1>0, <2>1, <2>2
    <3> QED BY <2>1, <3>1 DEF Threads
  <2>3. CASE id = a
    <3>1. starter'[id] = "done" /\ streams'[id] \in {"Opened", "none"}
      BY <1>0, <2>1, <2>3
    <3>2. reader'[id] = "none" <=> writer'[id] = "none"
      <4>1. \/ reader'[id] = "read" /\ writer'[id] = "write"
            \/ reader'[id] = reader[id] /\ writer'[id] = writer[id]
        BY <1>0, <2>1, <2>3
      <4> QED BY <4>1 DEF Threads
    <3> QED BY <3>1, <3>2 DEF Threads
  <2> QED BY <2>2, <2>3
<1>6. ASSUME NEW a \in Streams, handle_stream_result(a) PROVE Threads(id)'
  <2>1. /\ \/ /\ reader[a] = "finished" /\ reader' = [reader EXCEPT ![a] = "done"]
              /\ UNCHANGED writer
           \/ /\ writer[a] = "finished" /\ writer' = [writer EXCEPT ![a] = "done"]
              /\ UNCHANGED reader
        /\ streams' = [streams EXCEPT ![a] = AfterResult(@)]
        /\ UNCHANGED <<starter, buffer, main>>
    BY <1>6, ResultEffect
  <2>2. streams'[id] = streams[id] \/ streams'[id] \in {"none", "HalfClosed", "FullyClosed"}
    BY <1>0, <2>1, StateSteps
  <2>3. /\ reader'[id] = reader[id] \/ (reader[id] = "finished" /\ reader'[id] = "done")
        /\ writer'[id] = writer[id] \/ (writer[id] = "finished" /\ writer'[id] = "done")
    BY <1>0, <2>1
  <2> QED BY <2>1, <2>2, <2>3 DEF Threads
<1>7. ASSUME NEW a \in Streams, AcceptAtClient(a) \/ Connect(a) PROVE Threads(id)'
  <2>1. /\ starter[a] \in {"none", "connect"}
        /\ \/ starter' = [starter EXCEPT ![a] = "started"]
           \/ starter' = [starter EXCEPT ![a] = "failed"]
        /\ UNCHANGED <<streams, reader, writer, buffer, main>>
    BY <1>7, StarterEffect
  <2>2. starter'[id] = "done" <=> starter[id] = "done"
    BY <1>0, <2>1
  <2> QED BY <2>1, <2>2 DEF Threads
<1>8. ASSUME NEW a \in Streams, ReadThread(a) PROVE Threads(id)'
  <2>1. /\ reader[a] = "read" /\ (reader' = reader \/ reader' = [reader EXCEPT ![a] = "finished"])
        /\ UNCHANGED <<streams, starter, writer, buffer, main>>
    BY <1>8, ReadThreadEffect
  <2>2. reader'[id] = "none" <=> reader[id] = "none"
    BY <1>0, <2>1
  <2> QED BY <2>1, <2>2 DEF Threads
<1>9. ASSUME NEW a \in Streams, WriteReturns(a) \/ WriterReceives(a) \/ WriteThreadEnds(a)
      PROVE  Threads(id)'
  <2>1. /\ writer[a] \in {"write", "receive"}
        /\ \/ writer' = [writer EXCEPT ![a] = "write"]
           \/ writer' = [writer EXCEPT ![a] = "receive"]
           \/ writer' = [writer EXCEPT ![a] = "finished"]
        /\ buffer' = buffer \/ buffer' = [buffer EXCEPT ![a] = << >>]
        /\ UNCHANGED <<streams, starter, reader, main>>
    BY <1>9, WriteReturnsEffect, WriterReceivesEffect, WriteThreadEndsEffect
  <2>2. /\ writer'[id] = "none" <=> writer[id] = "none"
        /\ buffer'[id] = buffer[id] \/ buffer'[id] = << >>
    BY <1>0, <2>1
  <2> QED BY <2>1, <2>2 DEF Threads
<1>10. ASSUME NEW a \in Streams, ClientPeer(a) PROVE Threads(id)'
  <2>1. UNCHANGED <<streams, starter, reader, writer, buffer, main>>
    BY <1>10, ClientPeerEffect
  <2> QED BY <2>1 DEF Threads
<1> QED BY <1>1, <1>2, <1>3, <1>4, <1>5, <1>6, <1>7, <1>8, <1>9, <1>10 DEF ClientStep

LEMMA StepThreads ==
  ASSUME Typed, [Next]_vars, NEW id \in Streams, OpenedOnce(id), Threads(id)
  PROVE  Threads(id)'
<1>1. CASE UNCHANGED client
  BY <1>1 DEF Threads, client
<1>2. CASE ClientStep /\ UNCHANGED server
  BY <1>2, ClientStepThreads
<1> QED BY <1>1, <1>2, Steps

-----------------------------------------------------------------------------
HasClose(s, id) == Has(s, "CloseTcp", id)
OneClose(s, id) == Once(s, "CloseTcp", id)
HasData(s, id) == Has(s, "TcpData", id)

\* There is no data of the stream behind its close.
CloseIsLast(s, id) ==
  \A i, j \in DOMAIN s :
    i < j /\ s[i].kind = "CloseTcp" /\ s[i].id = id => ~(s[j].kind = "TcpData" /\ s[j].id = id)

Closing(id) == HasClose(ClosesOut, id) \/ HasClose(to_client, id)

\* The server closes a stream once, when it has done with it.
ClosedOnce(id) ==
  /\ OneClose(ClosesOut, id) /\ OneClose(to_client, id)
  /\ ~(HasClose(ClosesOut, id) /\ HasClose(to_client, id))
  /\ Closing(id) => Over(id)

\* No data is behind the close: the select has polled the data since the close
\* was queued.
Drained(id) ==
  /\ CloseIsLast(to_client, id)
  /\ HasData(DataOut, id) => /\ ~HasClose(to_client, id)
                             /\ poll > 4 => ~HasClose(ClosesOut, id)

\* The server has told the client, if it had to, that the stream is closed.
Spent(id) == Over(id) /\ ~Closing(id)

Closes(id) == ClosedOnce(id) /\ Drained(id)

\* What a step does to the closes.
ClosesNext(id) == Closes(id)' /\ (Spent(id) => Spent(id)')

LEMMA ClosesAppended ==
  ASSUME NEW s \in Seq(Message), NEW m \in Message, NEW id
  PROVE  /\ HasClose(Append(s, m), id) <=> HasClose(s, id) \/ (m.kind = "CloseTcp" /\ m.id = id)
         /\ ~(HasClose(s, id) /\ m.kind = "CloseTcp" /\ m.id = id) /\ OneClose(s, id) =>
              OneClose(Append(s, m), id)
         /\ HasData(Append(s, m), id) <=> HasData(s, id) \/ (m.kind = "TcpData" /\ m.id = id)
         /\ ~(HasClose(s, id) /\ m.kind = "TcpData" /\ m.id = id) /\ CloseIsLast(s, id) =>
              CloseIsLast(Append(s, m), id)
<1>1. /\ HasClose(Append(s, m), id) <=> HasClose(s, id) \/ (m.kind = "CloseTcp" /\ m.id = id)
      /\ ~(HasClose(s, id) /\ m.kind = "CloseTcp" /\ m.id = id) /\ OneClose(s, id) =>
           OneClose(Append(s, m), id)
      /\ HasData(Append(s, m), id) <=> HasData(s, id) \/ (m.kind = "TcpData" /\ m.id = id)
  BY HasAppended DEF HasClose, OneClose, HasData
<1>2. ASSUME ~(HasClose(s, id) /\ m.kind = "TcpData" /\ m.id = id), CloseIsLast(s, id)
      PROVE  CloseIsLast(Append(s, m), id)
  <2>1. PICK n \in Nat : n = Len(s)
    OBVIOUS
  <2>2. PICK t : t = Append(s, m)
    OBVIOUS
  <2>3. /\ DOMAIN t = 1 .. n + 1 /\ DOMAIN s = 1 .. n /\ t[n + 1] = m
        /\ \A i \in 1 .. n : t[i] = s[i]
    BY <2>1, <2>2, Appended
  <2> SUFFICES ASSUME NEW i \in 1 .. n + 1, NEW j \in 1 .. n + 1, i < j,
                      t[i].kind = "CloseTcp", t[i].id = id, t[j].kind = "TcpData", t[j].id = id
               PROVE  FALSE
    BY <2>2, <2>3 DEF CloseIsLast
  <2>4. i \in 1 .. n
    OBVIOUS
  <2>5. t[i] = s[i] /\ HasClose(s, id)
    BY <2>3, <2>4 DEF HasClose, Has
  <2>6. CASE j \in 1 .. n
    BY <1>2, <2>3, <2>4, <2>6 DEF CloseIsLast
  <2>7. CASE j = n + 1
    BY <1>2, <2>3, <2>5, <2>7
  <2> QED BY <2>6, <2>7
<1> QED BY <1>1, <1>2

LEMMA ClosesTail ==
  ASSUME NEW s \in Seq(Message), s # << >>, NEW id
  PROVE  /\ HasClose(Tail(s), id) => HasClose(s, id)
         /\ Head(s).kind = "CloseTcp" /\ Head(s).id = id => HasClose(s, id)
         /\ OneClose(s, id) => /\ OneClose(Tail(s), id)
                               /\ ~(Head(s).kind = "CloseTcp" /\ Head(s).id = id /\ HasClose(Tail(s), id))
         /\ HasData(Tail(s), id) => HasData(s, id)
         /\ Head(s).kind = "TcpData" /\ Head(s).id = id => HasData(s, id)
         /\ CloseIsLast(s, id) => CloseIsLast(Tail(s), id)
<1>1. /\ HasClose(Tail(s), id) => HasClose(s, id)
      /\ Head(s).kind = "CloseTcp" /\ Head(s).id = id => HasClose(s, id)
      /\ OneClose(s, id) => /\ OneClose(Tail(s), id)
                            /\ ~(Head(s).kind = "CloseTcp" /\ Head(s).id = id /\ HasClose(Tail(s), id))
      /\ HasData(Tail(s), id) => HasData(s, id)
      /\ Head(s).kind = "TcpData" /\ Head(s).id = id => HasData(s, id)
  BY HasTail DEF HasClose, OneClose, HasData
<1>2. CloseIsLast(s, id) => CloseIsLast(Tail(s), id)
  <2>1. PICK t : t = Tail(s)
    OBVIOUS
  <2>2. \A i \in DOMAIN t : i \in Nat /\ i + 1 \in DOMAIN s /\ t[i] = s[i + 1]
    BY <2>1, Tailed
  <2>3. \A i, j \in DOMAIN t : i < j => i + 1 < j + 1
    BY <2>2
  <2> QED BY <2>1, <2>2, <2>3 DEF CloseIsLast
<1> QED BY <1>1, <1>2

\* Steps that close nothing and send the client nothing.
LEMMA ClosesKept ==
  ASSUME Typed, NEW id \in Streams, Closes(id), Over(id) => Over(id)', UNCHANGED ClosesOut,
         HasData(DataOut', id) => HasData(DataOut, id),
         to_client' = to_client \/ (to_client # << >> /\ to_client' = Tail(to_client)),
         poll' > 4 => poll > 4 \/ ~HasData(DataOut', id)
  PROVE  ClosesNext(id)
<1>1. to_client \in Seq(Message)
  BY QueuesTyped
<1>2. /\ HasClose(to_client', id) => HasClose(to_client, id)
      /\ OneClose(to_client', id) /\ CloseIsLast(to_client', id)
  <2>1. OneClose(to_client, id) /\ CloseIsLast(to_client, id)
    BY DEF Closes, ClosedOnce, Drained
  <2>2. CASE to_client' = to_client
    BY <2>1, <2>2
  <2>3. CASE to_client # << >> /\ to_client' = Tail(to_client)
    BY <1>1, <2>1, <2>3, ClosesTail
  <2> QED BY <2>2, <2>3
<1>3. ClosedOnce(id)'
  BY <1>2 DEF Closes, ClosedOnce, Closing
<1>4. Drained(id)'
  BY <1>2 DEF Closes, Drained
<1>5. Spent(id) => Spent(id)'
  BY <1>2 DEF Spent, Closing
<1> QED BY <1>3, <1>4, <1>5 DEF Closes, ClosesNext

\* A close is queued for a stream that was not over and is over.
LEMMA ClosesQueued ==
  ASSUME Typed, NEW id \in Streams, Closes(id), Over(id) => Over(id)', NEW a \in Streams,
         ClosesOut' = Append(ClosesOut, close_tcp_stream(a)),
         id = a => ~Over(id) /\ Over(id)',
         UNCHANGED <<DataOut, to_client>>, poll' = 1
  PROVE  ClosesNext(id)
<1>1. PICK c : c = close_tcp_stream(a)
  OBVIOUS
<1>2. c \in Message /\ c.kind = "CloseTcp" /\ c.id = a /\ ClosesOut \in Seq(Message)
      /\ ClosesOut' = Append(ClosesOut, c)
  BY <1>1, MessageKinds, QueuesTyped
<1>3. id = a => ~Closing(id) /\ ~Spent(id)
  BY DEF Closes, ClosedOnce, Spent
<1>4. /\ HasClose(ClosesOut', id) => HasClose(ClosesOut, id) \/ id = a
      /\ OneClose(ClosesOut', id)
  <2>1. OneClose(ClosesOut, id) /\ ~(HasClose(ClosesOut, id) /\ id = a)
    BY <1>3 DEF Closes, ClosedOnce, Closing
  <2> QED BY <1>2, <2>1, ClosesAppended
<1>5. ClosedOnce(id)'
  BY <1>3, <1>4 DEF Closes, ClosedOnce, Closing
<1>6. Drained(id)'
  <2>1. ~(poll' > 4)
    OBVIOUS
  <2> QED BY <2>1 DEF Closes, Drained
<1>7. Spent(id) => Spent(id)'
  BY <1>3, <1>4 DEF Spent, Closing
<1> QED BY <1>5, <1>6, <1>7 DEF Closes, ClosesNext

LEMMA TaskReadCloses ==
  ASSUME Typed, NEW a \in Streams, TaskRead(a), UNCHANGED client,
         NEW id \in Streams, Closes(id), Over(id) => Over(id)'
  PROVE  ClosesNext(id)
<1>1. /\ task[a] = "running" /\ DataOut' = Append(DataOut, tcp_data(a, server_sock[a].read + 1))
      /\ UNCHANGED <<ClosesOut, to_client, poll>>
  BY TaskReadEffect DEF channel
<1>2. server_sock[a] \in Socket /\ DataOut \in Seq(Message)
  BY QueuesTyped DEF Typed, TypeOK, ServerTypeOK
<1>3. PICK m \in Message : m.id = a /\ DataOut' = Append(DataOut, m)
  <2>1. server_sock[a].read + 1 \in Nat
    BY <1>2, SocketSteps
  <2> QED BY <1>1, <2>1, MessageKinds
<1>4. HasData(DataOut', id) => HasData(DataOut, id) \/ id = a
  BY <1>2, <1>3, ClosesAppended
<1>5. CASE id = a
  <2>1. ~Over(id) /\ ~Closing(id)
    BY <1>1, <1>5 DEF Over, Closes, ClosedOnce
  <2>2. ~HasClose(ClosesOut', id) /\ ~HasClose(to_client', id)
    BY <1>1, <2>1 DEF Closing
  <2>3. ClosedOnce(id)'
    BY <1>1, <2>2 DEF Closes, ClosedOnce, Closing
  <2>4. Drained(id)'
    BY <1>1, <2>2 DEF Closes, Drained
  <2> QED BY <2>1, <2>3, <2>4 DEF Closes, ClosesNext, Spent
<1>6. CASE id # a
  BY <1>1, <1>4, <1>6, ClosesKept
<1> QED BY <1>5, <1>6

LEMMA OpenFromClientCloses ==
  ASSUME Typed, OpenFromClient, UNCHANGED client,
         NEW id \in Streams, OpenedOnce(id), Closes(id), Over(id) => Over(id)'
  PROVE  ClosesNext(id)
<1>1. PICK m : m = Head(OpensIn)
  OBVIOUS
<1>2. /\ OpensIn # << >> /\ m \in OfKind("OpenTcp") /\ m.id \in Streams
      /\ OpensIn' = Tail(OpensIn)
      /\ \/ ClosesOut' = ClosesOut
         \/ task' = task /\ ClosesOut' = Append(ClosesOut, close_tcp_stream(m.id))
      /\ poll' = 1 /\ UNCHANGED <<DataOut, to_client, to_server, server_bound>>
  BY <1>1, OpenFromClientEffect DEF channel
<1>3. CASE ClosesOut' = ClosesOut
  BY <1>2, <1>3, ClosesKept
<1>4. CASE task' = task /\ ClosesOut' = Append(ClosesOut, close_tcp_stream(m.id))
  <2>1. ASSUME id = m.id PROVE ~Over(id) /\ Over(id)'
    <3>1. HasOpen(OpensIn, id) /\ ~HasOpen(OpensIn', id)
      BY <1>1, <1>2, <2>1, OpensTail, QueuesTyped DEF OfKind, OpenedOnce
    <3>2. /\ id \notin server_bound /\ task[id] = "none" /\ starter[id] = "done"
          /\ ~HasOpen(to_server, id) /\ Asked(id)
      BY <3>1 DEF OpenedOnce, Asked
    <3>3. starter' = starter
      BY DEF client
    <3> QED BY <1>2, <1>4, <3>1, <3>2, <3>3 DEF Over, Asked
  <2> QED BY <1>2, <1>4, <2>1, ClosesQueued
<1> QED BY <1>2, <1>3, <1>4

LEMMA JoinTaskCloses ==
  ASSUME Typed, NEW a \in Streams, JoinTask(a), UNCHANGED client,
         NEW id \in Streams, Closes(id), Over(id) => Over(id)'
  PROVE  ClosesNext(id)
<1>1. /\ task[a] = "finished" /\ task' = [task EXCEPT ![a] = "joined"]
      /\ ClosesOut' = ClosesOut \/ ClosesOut' = Append(ClosesOut, close_tcp_stream(a))
      /\ poll' = 1 /\ UNCHANGED <<DataOut, to_client>>
  BY JoinTaskEffect DEF channel
<1>2. CASE ClosesOut' = ClosesOut
  BY <1>1, <1>2, ClosesKept
<1>3. CASE ClosesOut' = Append(ClosesOut, close_tcp_stream(a))
  <2>1. id = a => ~Over(id) /\ Over(id)'
    BY <1>1 DEF Over, Typed, TypeOK, ServerTypeOK
  <2> QED BY <1>1, <1>3, <2>1, ClosesQueued
<1> QED BY <1>1, <1>2, <1>3

LEMMA SendToClientCloses ==
  ASSUME Typed, SendToClient, UNCHANGED client,
         NEW id \in Streams, Closes(id), Over(id) => Over(id)'
  PROVE  ClosesNext(id)
<1>1. /\ \/ /\ OpensOut # << >>
            /\ to_client' = Append(to_client, Head(OpensOut)) /\ Head(OpensOut).kind = "OpenTcp"
            /\ UNCHANGED <<ClosesOut, DataOut>>
         \/ /\ ClosesOut # << >> /\ ClosesOut' = Tail(ClosesOut)
            /\ to_client' = Append(to_client, Head(ClosesOut)) /\ Head(ClosesOut).kind = "CloseTcp"
            /\ UNCHANGED DataOut /\ poll = 7
         \/ /\ DataOut # << >> /\ DataOut' = Tail(DataOut)
            /\ to_client' = Append(to_client, Head(DataOut)) /\ Head(DataOut).kind = "TcpData"
            /\ UNCHANGED ClosesOut
      /\ poll' = 1
  BY SendToClientEffect
<1>2. /\ OpensOut \in Seq(Message) /\ ClosesOut \in Seq(Message) /\ DataOut \in Seq(Message)
      /\ to_client \in Seq(Message)
  BY QueuesTyped
<1>3. ~(poll' > 4)
  BY <1>1
<1>4. /\ OneClose(to_client, id) /\ CloseIsLast(to_client, id) /\ OneClose(ClosesOut, id)
      /\ ~(HasClose(ClosesOut, id) /\ HasClose(to_client, id))
  BY DEF Closes, ClosedOnce, Drained
<1>5. CASE /\ OpensOut # << >>
           /\ to_client' = Append(to_client, Head(OpensOut)) /\ Head(OpensOut).kind = "OpenTcp"
           /\ UNCHANGED <<ClosesOut, DataOut>>
  <2>1. PICK m \in Message : m.kind = "OpenTcp" /\ to_client' = Append(to_client, m)
    BY <1>2, <1>5, TailTyped
  <2>2. /\ HasClose(to_client', id) <=> HasClose(to_client, id)
        /\ OneClose(to_client', id) /\ CloseIsLast(to_client', id)
    BY <1>2, <1>4, <2>1, ClosesAppended
  <2>3. ClosedOnce(id)'
    BY <1>5, <2>2 DEF Closes, ClosedOnce, Closing
  <2>4. Drained(id)'
    BY <1>3, <1>5, <2>2 DEF Closes, Drained
  <2>5. Spent(id) => Spent(id)'
    BY <1>5, <2>2 DEF Spent, Closing
  <2> QED BY <2>3, <2>4, <2>5 DEF Closes, ClosesNext
<1>6. CASE /\ ClosesOut # << >> /\ ClosesOut' = Tail(ClosesOut)
           /\ to_client' = Append(to_client, Head(ClosesOut)) /\ Head(ClosesOut).kind = "CloseTcp"
           /\ UNCHANGED DataOut /\ poll = 7
  <2>1. PICK m \in Message : /\ m.kind = "CloseTcp" /\ m = Head(ClosesOut)
                             /\ to_client' = Append(to_client, m)
    BY <1>2, <1>6, TailTyped
  <2>2. /\ HasClose(ClosesOut', id) => HasClose(ClosesOut, id)
        /\ m.id = id => HasClose(ClosesOut, id) /\ ~HasClose(ClosesOut', id)
        /\ OneClose(ClosesOut', id)
    BY <1>2, <1>4, <1>6, <2>1, ClosesTail
  <2>3. /\ HasClose(to_client', id) <=> HasClose(to_client, id) \/ m.id = id
        /\ OneClose(to_client', id) /\ CloseIsLast(to_client', id)
    BY <1>2, <1>4, <2>1, <2>2, ClosesAppended
  <2>4. m.id = id => ~HasData(DataOut, id)
    <3>1. poll > 4
      BY <1>6
    <3> QED BY <2>2, <3>1 DEF Closes, Drained
  <2>5. ClosedOnce(id)'
    BY <2>2, <2>3 DEF Closes, ClosedOnce, Closing
  <2>6. Drained(id)'
    BY <1>3, <1>6, <2>3, <2>4 DEF Closes, Drained
  <2>7. Spent(id) => Spent(id)'
    BY <2>2, <2>3 DEF Spent, Closing
  <2> QED BY <2>5, <2>6, <2>7 DEF Closes, ClosesNext
<1>7. CASE /\ DataOut # << >> /\ DataOut' = Tail(DataOut)
           /\ to_client' = Append(to_client, Head(DataOut)) /\ Head(DataOut).kind = "TcpData"
           /\ UNCHANGED ClosesOut
  <2>1. PICK m \in Message : /\ m.kind = "TcpData" /\ m = Head(DataOut)
                             /\ to_client' = Append(to_client, m)
    BY <1>2, <1>7, TailTyped
  <2>2. /\ HasData(DataOut', id) => HasData(DataOut, id)
        /\ m.id = id => HasData(DataOut, id)
    BY <1>2, <1>7, <2>1, ClosesTail
  <2>3. m.id = id => ~HasClose(to_client, id)
    BY <2>2 DEF Closes, Drained
  <2>4. /\ HasClose(to_client', id) <=> HasClose(to_client, id)
        /\ OneClose(to_client', id) /\ CloseIsLast(to_client', id)
    BY <1>2, <1>4, <2>1, <2>3, ClosesAppended
  <2>5. ClosedOnce(id)'
    BY <1>7, <2>4 DEF Closes, ClosedOnce, Closing
  <2>6. Drained(id)'
    BY <1>3, <2>2, <2>4 DEF Closes, Drained
  <2>7. Spent(id) => Spent(id)'
    BY <1>7, <2>4 DEF Spent, Closing
  <2> QED BY <2>5, <2>6, <2>7 DEF Closes, ClosesNext
<1> QED BY <1>1, <1>5, <1>6, <1>7

LEMMA ServerStepCloses ==
  ASSUME Typed, ServerStep, UNCHANGED client,
         NEW id \in Streams, OpenedOnce(id), Closes(id), Over(id) => Over(id)'
  PROVE  ClosesNext(id)
<1>1. ASSUME UNCHANGED <<ClosesOut, DataOut, to_client>>, poll' = poll \/ poll' = 1 PROVE ClosesNext(id)
  BY <1>1, ClosesKept
<1>2. ASSUME NEW a \in Streams, AcceptAtServer(a) PROVE ClosesNext(id)
  <2>1. UNCHANGED <<ClosesOut, DataOut, to_client, poll>>
    BY <1>2, AcceptAtServerEffect DEF AcceptAtServer, channel
  <2> QED BY <1>1, <2>1
<1>3. ASSUME NEW a \in Streams, ServerPeer(a) \/ TaskWriterClosed(a) \/ TaskReadEnds(a)
      PROVE  ClosesNext(id)
  <2>1. UNCHANGED <<ClosesOut, DataOut, to_client, poll>>
    BY <1>3, ServerPeerEffect, TaskEndsEffect DEF serverQueues, channel
  <2> QED BY <1>1, <2>1
<1>4. ASSUME NEW a \in Streams, TaskWrite(a) PROVE ClosesNext(id)
  <2>1. UNCHANGED <<ClosesOut, DataOut, to_client, poll>>
    BY <1>4, TaskWriteEffect DEF serverQueues, channel, TaskWrite
  <2> QED BY <1>1, <2>1
<1>5. CASE ReceiveFromClient
  <2>1. UNCHANGED <<ClosesOut, DataOut, to_client, poll>>
    BY <1>5, ReceiveFromClientEffect
  <2> QED BY <1>1, <2>1
<1>6. CASE PollNext
  <2>1. UNCHANGED <<ClosesOut, DataOut, to_client>> /\ (poll' > 4 => poll > 4 \/ DataOut = << >>)
    BY <1>6, PollNextEffect DEF serverQueues, channel
  <2>2. DataOut = << >> => ~HasData(DataOut, id)
    BY DEF HasData, Has
  <2> QED BY <2>1, <2>2, ClosesKept
<1>7. CASE NewTcpStream
  <2>1. UNCHANGED <<ClosesOut, DataOut, to_client>> /\ poll' = 1
    BY <1>7, NewTcpStreamEffect DEF channel
  <2> QED BY <1>1, <2>1
<1>8. CASE DataFromClient
  <2>1. UNCHANGED <<ClosesOut, DataOut, to_client>> /\ poll' = 1
    BY <1>8, DataFromClientEffect DEF channel
  <2> QED BY <1>1, <2>1
<1>9. CASE CloseFromClient
  <2>1. UNCHANGED <<ClosesOut, DataOut, to_client>> /\ poll' = 1
    BY <1>9, CloseFromClientEffect DEF channel
  <2> QED BY <1>1, <2>1
<1> QED BY <1>2, <1>3, <1>4, <1>5, <1>6, <1>7, <1>8, <1>9, TaskReadCloses, JoinTaskCloses,
           OpenFromClientCloses, SendToClientCloses DEF ServerStep

LEMMA ClientStepCloses ==
  ASSUME Typed, ClientStep, UNCHANGED server,
         NEW id \in Streams, Closes(id), Over(id) => Over(id)'
  PROVE  ClosesNext(id)
<1>1. UNCHANGED serverQueues /\ (to_client' = to_client \/ (to_client # << >> /\ to_client' = Tail(to_client)))
  <2>1. CASE handle_open_from_server \/ handle_close_from_server \/ handle_data_from_server
    BY <2>1, HandleOpenEffect, HandleCloseEffect, HandleDataEffect
  <2>2. CASE SendToWriter
    BY <2>2, SendToWriterEffect DEF channel
  <2>3. ASSUME NEW a \in Streams,
               \/ handle_new_stream_established(a) \/ handle_stream_result(a)
               \/ AcceptAtClient(a) \/ Connect(a) \/ ReadThread(a)
        PROVE  UNCHANGED serverQueues /\ to_client' = to_client
    BY <2>3, EstablishedEffect, ResultEffect, StarterEffect, ReadThreadEffect
  <2>4. ASSUME NEW a \in Streams,
               WriteReturns(a) \/ WriterReceives(a) \/ WriteThreadEnds(a) \/ ClientPeer(a)
        PROVE  UNCHANGED serverQueues /\ to_client' = to_client
    BY <2>4, WriteReturnsEffect, WriterReceivesEffect, WriteThreadEndsEffect, ClientPeerEffect
       DEF channel
  <2> QED BY <2>1, <2>2, <2>3, <2>4 DEF ClientStep
<1>2. UNCHANGED <<ClosesOut, DataOut, poll>>
  BY <1>1 DEF serverQueues, server
<1> QED BY <1>1, <1>2, ClosesKept

LEMMA StepCloses ==
  ASSUME Typed, [Next]_vars, NEW id \in Streams, OpenedOnce(id), Closes(id)
  PROVE  ClosesNext(id)
<1>1. Over(id) => Over(id)'
  BY StepOpens
<1>2. CASE ServerStep /\ UNCHANGED client
  BY <1>1, <1>2, ServerStepCloses
<1>3. CASE ClientStep /\ UNCHANGED server
  BY <1>1, <1>3, ClientStepCloses
<1>4. CASE UNCHANGED <<server, client, channel>>
  <2>1. UNCHANGED <<ClosesOut, DataOut, to_client, poll>>
    BY <1>4, IdleTyped DEF serverQueues, server, channel
  <2> QED BY <1>1, <2>1, ClosesKept
<1> QED BY <1>2, <1>3, <1>4, Steps

-----------------------------------------------------------------------------
\* The server's tables are about streams that have a task.
Tables(id) ==
  /\ id \in txs => task[id] \in {"running", "finished"}
  /\ id \in closed_by_client => id \notin txs /\ task[id] \in {"running", "finished"}

LEMMA StepTables ==
  ASSUME Typed, [Next]_vars, NEW id \in Streams, OpenedOnce(id), Tables(id)
  PROVE  Tables(id)'
<1>0. task \in [Streams -> {"none", "accepted", "running", "finished", "joined"}]
  BY DEF Typed, TypeOK, ServerTypeOK
<1>2. ASSUME NEW a \in Streams, AcceptAtServer(a) PROVE Tables(id)'
  <2>1. /\ UNCHANGED <<txs, closed_by_client>> /\ task[a] = "none"
        /\ task' = [task EXCEPT ![a] = "accepted"]
    BY <1>2 DEF AcceptAtServer
  <2>2. task'[id] = task[id] \/ task[id] = "none"
    BY <1>0, <2>1
  <2> QED BY <2>1, <2>2 DEF Tables
<1>3. ASSUME NEW a \in Streams, TaskWrite(a) \/ TaskWriterClosed(a) \/ TaskReadEnds(a) PROVE Tables(id)'
  <2>1. /\ UNCHANGED <<txs, closed_by_client>> /\ task[a] = "running"
        /\ task' = task \/ task' = [task EXCEPT ![a] = "finished"]
    BY <1>3 DEF TaskWrite, TaskWriterClosed, TaskReadEnds
  <2>2. task'[id] = task[id] \/ (task[id] = "running" /\ task'[id] = "finished")
    BY <1>0, <2>1
  <2> QED BY <2>1, <2>2 DEF Tables
<1>4. ASSUME UNCHANGED <<txs, closed_by_client, task>> PROVE Tables(id)'
  BY <1>4 DEF Tables
<1>5. CASE OpenFromClient /\ UNCHANGED client
  <2>1. PICK m : m = Head(OpensIn)
    OBVIOUS
  <2>2. /\ OpensIn # << >> /\ m \in OfKind("OpenTcp") /\ m.id \in Streams
        /\ task' = task \/ task' = [task EXCEPT ![m.id] = "accepted"]
        /\ UNCHANGED <<txs, closed_by_client>>
    BY <1>5, <2>1, OpenFromClientEffect
  <2>3. id = m.id => task[id] = "none"
    <3>1. id = m.id => HasOpen(OpensIn, id)
      BY <2>1, <2>2, OpensTail, QueuesTyped DEF OfKind
    <3> QED BY <3>1 DEF OpenedOnce, Asked
  <2>4. task'[id] = task[id] \/ task[id] = "none"
    BY <1>0, <2>2, <2>3
  <2> QED BY <2>2, <2>4 DEF Tables
<1>6. CASE NewTcpStream /\ UNCHANGED client
  <2>1. PICK m : m = Head(NewStreams)
    OBVIOUS
  <2>2. /\ NewStreams # << >> /\ m \in OfKind("OpenTcp") /\ m.id \in Streams
        /\ task' = [task EXCEPT ![m.id] = "running"] /\ txs' = txs \union {m.id}
        /\ UNCHANGED closed_by_client
    BY <1>6, <2>1, NewTcpStreamEffect
  <2>3. id = m.id => task[id] = "accepted"
    <3>1. id = m.id => HasOpen(NewStreams, id)
      BY <2>1, <2>2, OpensTail, QueuesTyped DEF OfKind
    <3> QED BY <3>1 DEF OpenedOnce
  <2>4. task'[id] = IF id = m.id THEN "running" ELSE task[id]
    BY <1>0, <2>2
  <2> QED BY <2>2, <2>3, <2>4 DEF Tables
<1>7. ASSUME NEW a \in Streams, JoinTask(a), UNCHANGED client PROVE Tables(id)'
  <2>1. /\ task' = [task EXCEPT ![a] = "joined"]
        /\ txs' = txs \ {a} /\ closed_by_client' = closed_by_client \ {a}
    BY <1>7, JoinTaskEffect
  <2>2. task'[id] = IF id = a THEN "joined" ELSE task[id]
    BY <1>0, <2>1
  <2> QED BY <2>1, <2>2 DEF Tables
<1>8. CASE CloseFromClient /\ UNCHANGED client
  <2>1. PICK m : m = Head(ClosesIn)
    OBVIOUS
  <2>2. /\ txs' = txs \ {m.id} /\ UNCHANGED task
        /\ closed_by_client' = closed_by_client \union ({m.id} \intersect txs)
    BY <1>8, <2>1, CloseFromClientEffect
  <2> QED BY <2>2 DEF Tables
<1>9. ASSUME \/ ReceiveFromClient \/ PollNext \/ SendToClient \/ DataFromClient
             \/ \E a \in Streams : ServerPeer(a) \/ TaskRead(a)
      PROVE  Tables(id)'
  <2>1. UNCHANGED <<txs, closed_by_client, task>>
    BY <1>9 DEF ReceiveFromClient, PollNext, SendToClient, DataFromClient, ServerPeer, TaskRead
  <2> QED BY <1>4, <2>1
<1>10. CASE UNCHANGED server
  BY <1>4, <1>10 DEF server
<1> QED BY <1>2, <1>3, <1>5, <1>6, <1>7, <1>8, <1>9, <1>10, Steps DEF ServerStep

-----------------------------------------------------------------------------
\* The client's state of a stream counts the halves that have ended: its read
\* thread, its write thread and, once at most, a close of the server.
Halves(id) ==
  reader[id] # "none" =>
    /\ streams[id] = "Opened" => reader[id] # "done" /\ writer[id] # "done"
    /\ streams[id] = "HalfClosed" =>
         /\ reader[id] # "done" \/ writer[id] # "done"
         /\ reader[id] = "done" \/ writer[id] = "done" \/ Spent(id)
    /\ streams[id] = "FullyClosed" =>
         /\ reader[id] = "done" \/ writer[id] = "done"
         /\ (reader[id] = "done" /\ writer[id] = "done") \/ Spent(id)
    /\ streams[id] = "none" => reader[id] = "done" /\ writer[id] = "done"

\* The state and which of the threads have been taken account of stay.
LEMMA HalvesKept ==
  ASSUME NEW id \in Streams, Halves(id), Spent(id) => Spent(id)',
         streams'[id] = streams[id],
         reader'[id] = "none" <=> reader[id] = "none",
         reader'[id] = "done" <=> reader[id] = "done",
         writer'[id] = "done" <=> writer[id] = "done"
  PROVE  Halves(id)'
  BY DEF Halves

LEMMA HandleOpenHalves ==
  ASSUME Typed, handle_open_from_server, UNCHANGED server,
         NEW id \in Streams, OpenedOnce(id), Threads(id), Halves(id), Spent(id) => Spent(id)'
  PROVE  Halves(id)'
<1>1. PICK m : m = Head(to_client)
  OBVIOUS
<1>2. /\ m \in Message /\ m.kind = "OpenTcp" /\ m.id \in Streams /\ to_client # << >>
      /\ streams' = streams \/ streams' = [streams EXCEPT ![m.id] = "Opening"]
      /\ UNCHANGED <<reader, writer>>
  BY <1>1, HandleOpenEffect
<1>3. CASE id = m.id
  <2>1. HasOpen(to_client, id)
    BY <1>1, <1>2, <1>3, OpensTail, QueuesTyped
  <2>2. starter[id] = "none"
    BY <2>1 DEF OpenedOnce, Offered
  <2>3. reader[id] = "none"
    BY <2>2 DEF Threads
  <2> QED BY <1>2, <2>3 DEF Halves
<1>4. CASE id # m.id
  <2>1. streams'[id] = streams[id]
    BY <1>2, <1>4 DEF Typed, TypeOK, ClientTypeOK
  <2> QED BY <1>2, <2>1, HalvesKept
<1> QED BY <1>3, <1>4

LEMMA HandleCloseHalves ==
  ASSUME Typed, handle_close_from_server, UNCHANGED server,
         NEW id \in Streams, Threads(id), Closes(id), Halves(id), Spent(id) => Spent(id)',
         Over(id) => Over(id)'
  PROVE  Halves(id)'
<1>1. PICK m : m = Head(to_client)
  OBVIOUS
<1>2. /\ m \in Message /\ m.kind = "CloseTcp" /\ m.id \in Streams /\ to_client # << >>
      /\ to_client' = Tail(to_client) /\ UNCHANGED serverQueues
      /\ streams' = [streams EXCEPT ![m.id] = AfterClose(@)]
      /\ UNCHANGED <<reader, writer, starter>>
  BY <1>1, HandleCloseEffect
<1>3. streams \in [Streams -> StreamStates]
  BY DEF Typed, TypeOK, ClientTypeOK, StreamStates
<1>4. CASE id # m.id
  <2>1. streams'[id] = streams[id]
    BY <1>2, <1>3, <1>4
  <2> QED BY <1>2, <2>1, HalvesKept
<1>5. CASE id = m.id
  <2>1. HasClose(to_client, id) /\ ~HasClose(to_client', id)
    BY <1>1, <1>2, <1>5, ClosesTail, QueuesTyped DEF Closes, ClosedOnce
  <2>2. ~Spent(id) /\ Over(id) /\ ~HasClose(ClosesOut, id)
    BY <2>1 DEF Closes, ClosedOnce, Closing, Spent
  <2>3. ClosesOut' = ClosesOut
    BY <1>2 DEF serverQueues
  <2>4. Spent(id)'
    BY <2>1, <2>2, <2>3 DEF Spent, Closing
  <2>5. streams'[id] = AfterClose(streams[id]) /\ streams[id] \in StreamStates
    BY <1>2, <1>3, <1>5
  <2>6. reader[id] # "none" => streams[id] # "Opening"
    BY DEF Threads
  <2>7. /\ streams[id] = "Opened" => streams'[id] = "HalfClosed"
        /\ streams[id] = "HalfClosed" => streams'[id] = "FullyClosed"
        /\ streams[id] \in {"FullyClosed", "none"} => streams'[id] = "none"
    BY <2>5, StateSteps
  <2> QED BY <1>2, <2>2, <2>4, <2>5, <2>6, <2>7 DEF Halves, StreamStates
<1> QED BY <1>4, <1>5

LEMMA ResultHalves ==
  ASSUME Typed, NEW a \in Streams, handle_stream_result(a), UNCHANGED server,
         NEW id \in Streams, Threads(id), Halves(id), Spent(id) => Spent(id)'
  PROVE  Halves(id)'
<1>1. /\ \/ /\ reader[a] = "finished" /\ reader' = [reader EXCEPT ![a] = "done"]
            /\ UNCHANGED writer
         \/ /\ writer[a] = "finished" /\ writer' = [writer EXCEPT ![a] = "done"]
            /\ UNCHANGED reader
      /\ streams' = [streams EXCEPT ![a] = AfterResult(@)]
  BY ResultEffect
<1>2. /\ streams \in [Streams -> StreamStates]
      /\ reader \in [Streams -> {"none", "read", "finished", "done"}]
      /\ writer \in [Streams -> {"none", "write", "receive", "finished", "done"}]
  BY DEF Typed, TypeOK, ClientTypeOK, StreamStates
<1>3. CASE id # a
  <2>1. streams'[id] = streams[id] /\ reader'[id] = reader[id] /\ writer'[id] = writer[id]
    BY <1>1, <1>2, <1>3
  <2> QED BY <2>1, HalvesKept
<1>4. CASE id = a
  <2>1. /\ \/ reader[id] = "finished" /\ reader'[id] = "done" /\ writer'[id] = writer[id]
           \/ writer[id] = "finished" /\ writer'[id] = "done" /\ reader'[id] = reader[id]
        /\ streams'[id] = AfterResult(streams[id]) /\ streams[id] \in StreamStates
    BY <1>1, <1>2, <1>4
  <2>2. reader[id] # "none" /\ streams[id] # "Opening"
    BY <2>1 DEF Threads
  <2>3. /\ streams[id] = "Opened" => streams'[id] = "HalfClosed"
        /\ streams[id] = "HalfClosed" => streams'[id] = "FullyClosed"
        /\ streams[id] \in {"FullyClosed", "none"} => streams'[id] = "none"
    BY <2>1, StateSteps
  <2> QED BY <2>1, <2>2, <2>3 DEF Halves, StreamStates
<1> QED BY <1>3, <1>4

LEMMA EstablishedHalves ==
  ASSUME Typed, NEW a \in Streams, handle_new_stream_established(a), UNCHANGED server,
         NEW id \in Streams, Threads(id), Halves(id), Spent(id) => Spent(id)'
  PROVE  Halves(id)'
<1>1. /\ starter[a] = "started"
      /\ \/ /\ streams' = [streams EXCEPT ![a] = "Opened"]
            /\ reader' = [reader EXCEPT ![a] = "read"]
            /\ writer' = [writer EXCEPT ![a] = "write"]
         \/ /\ streams' = [streams EXCEPT ![a] = "none"]
            /\ UNCHANGED <<reader, writer>>
  BY EstablishedEffect
<1>2. /\ streams \in [Streams -> StreamStates]
      /\ reader \in [Streams -> {"none", "read", "finished", "done"}]
      /\ writer \in [Streams -> {"none", "write", "receive", "finished", "done"}]
  BY DEF Typed, TypeOK, ClientTypeOK, StreamStates
<1>3. CASE id # a
  <2>1. streams'[id] = streams[id] /\ reader'[id] = reader[id] /\ writer'[id] = writer[id]
    BY <1>1, <1>2, <1>3
  <2> QED BY <2>1, HalvesKept
<1>4. CASE id = a
  <2>1. \/ streams'[id] = "Opened" /\ reader'[id] = "read" /\ writer'[id] = "write"
        \/ reader'[id] = reader[id]
    BY <1>1, <1>2, <1>4
  <2>2. reader[id] = "none"
    BY <1>1, <1>4 DEF Threads
  <2> QED BY <2>1, <2>2 DEF Halves
<1> QED BY <1>3, <1>4

LEMMA StepHalves ==
  ASSUME Typed, [Next]_vars, NEW id \in Streams, OpenedOnce(id), Threads(id), Closes(id), Halves(id)
  PROVE  Halves(id)'
<1>1. (Spent(id) => Spent(id)') /\ (Over(id) => Over(id)')
  BY StepCloses, StepOpens DEF ClosesNext
<1>2. /\ reader \in [Streams -> {"none", "read", "finished", "done"}]
      /\ writer \in [Streams -> {"none", "write", "receive", "finished", "done"}]
  BY DEF Typed, TypeOK, ClientTypeOK
<1>3. CASE UNCHANGED client
  BY <1>1, <1>3, HalvesKept DEF client
<1>4. CASE ClientStep /\ UNCHANGED server
  <2>1. CASE handle_data_from_server \/ SendToWriter
    <3>1. UNCHANGED <<streams, reader, writer>>
      BY <1>4, <2>1, HandleDataEffect, SendToWriterEffect
    <3> QED BY <1>1, <3>1, HalvesKept
  <2>2. ASSUME NEW a \in Streams, AcceptAtClient(a) \/ Connect(a) \/ ClientPeer(a)
        PROVE  Halves(id)'
    <3>1. UNCHANGED <<streams, reader, writer>>
      BY <1>4, <2>2, StarterEffect, ClientPeerEffect
    <3> QED BY <1>1, <3>1, HalvesKept
  <2>3. ASSUME NEW a \in Streams, ReadThread(a) PROVE Halves(id)'
    <3>1. /\ reader[a] = "read" /\ (reader' = reader \/ reader' = [reader EXCEPT ![a] = "finished"])
          /\ UNCHANGED <<streams, writer>>
      BY <1>4, <2>3, ReadThreadEffect
    <3>2. /\ reader'[id] = "none" <=> reader[id] = "none"
          /\ reader'[id] = "done" <=> reader[id] = "done"
      BY <1>2, <3>1
    <3> QED BY <1>1, <3>1, <3>2, HalvesKept
  <2>4. ASSUME NEW a \in Streams, WriteReturns(a) \/ WriterReceives(a) \/ WriteThreadEnds(a)
        PROVE  Halves(id)'
    <3>1. /\ writer[a] \in {"write", "receive"}
          /\ \/ writer' = [writer EXCEPT ![a] = "write"]
             \/ writer' = [writer EXCEPT ![a] = "receive"]
             \/ writer' = [writer EXCEPT ![a] = "finished"]
          /\ UNCHANGED <<streams, reader>>
      BY <1>4, <2>4, WriteReturnsEffect, WriterReceivesEffect, WriteThreadEndsEffect
    <3>2. writer'[id] = "done" <=> writer[id] = "done"
      BY <1>2, <3>1
    <3> QED BY <1>1, <3>1, <3>2, HalvesKept
  <2> QED BY <1>1, <1>4, <2>1, <2>2, <2>3, <2>4, HandleOpenHalves, HandleCloseHalves, ResultHalves,
             EstablishedHalves DEF ClientStep
<1> QED BY <1>3, <1>4, Steps

-----------------------------------------------------------------------------
(* The data of a stream. *)

Values(s) == {s[i] : i \in DOMAIN s}
Data(s, id) == {s[i].data : i \in {j \in DOMAIN s : s[j].kind = "TcpData" /\ s[j].id = id}}
Below(S, T) == \A a \in S, b \in T : a < b

IsData(m, id) == m.kind = "TcpData" /\ m.id = id

Ordered(s, id) ==
  \A i, j \in DOMAIN s : i < j /\ IsData(s[i], id) /\ IsData(s[j], id) => s[i].data < s[j].data

\* The stretches of a stream's way from the end that reads it to the end that
\* writes it: what is on one is ahead of what is on those behind it.
Chain(W, Q, B, H, T, O, n) ==
  /\ Below(T, O)
  /\ Below(H, T \union O)
  /\ Below(B, H \union T \union O)
  /\ Below(Q, B \union H \union T \union O)
  /\ Below(W, Q \union B \union H \union T \union O)
  /\ \A d \in W \union Q \union B \union H \union T \union O : d \in Nat /\ d <= n

LEMMA ChainShrinks ==
  ASSUME NEW W, NEW Q, NEW B, NEW H, NEW T, NEW O, NEW n, Chain(W, Q, B, H, T, O, n),
         NEW U, NEW P, NEW A, NEW G, NEW S, NEW M,
         U \subseteq W, P \subseteq Q, A \subseteq B, G \subseteq H, S \subseteq T, M \subseteq O
  PROVE  Chain(U, P, A, G, S, M, n)
  BY DEF Chain, Below

LEMMA ChainReads ==
  ASSUME NEW W, NEW Q, NEW B, NEW H, NEW T, NEW O, NEW n \in Nat, Chain(W, Q, B, H, T, O, n)
  PROVE  Chain(W, Q, B, H, T, O \union {n + 1}, n + 1)
<1>1. \A d \in W \union Q \union B \union H \union T \union O : d \in Nat /\ d <= n /\ d < n + 1 /\ d <= n + 1
  BY DEF Chain
<1>2. /\ Below(T, O \union {n + 1}) /\ Below(H, T \union (O \union {n + 1}))
      /\ Below(B, H \union T \union (O \union {n + 1}))
      /\ Below(Q, B \union H \union T \union (O \union {n + 1}))
      /\ Below(W, Q \union B \union H \union T \union (O \union {n + 1}))
  BY <1>1 DEF Chain, Below
<1> QED BY <1>1, <1>2 DEF Chain

\* What is first on a stretch moves to the end of the stretch before it.
LEMMA ChainSends ==
  ASSUME NEW W, NEW Q, NEW B, NEW H, NEW T, NEW O, NEW n, NEW d,
         Chain(W, Q, B, H, T, O \union {d}, n), Below({d}, O)
  PROVE  Chain(W, Q, B, H, T \union {d}, O, n) /\ Below(T, {d})
  BY DEF Chain, Below

LEMMA ChainTakes ==
  ASSUME NEW W, NEW Q, NEW B, NEW T, NEW O, NEW n, NEW d,
         Chain(W, Q, B, {}, T \union {d}, O, n), Below({d}, T)
  PROVE  Chain(W, Q, B, {d}, T, O, n)
  BY DEF Chain, Below

LEMMA ChainQueues ==
  ASSUME NEW W, NEW Q, NEW T, NEW O, NEW n, NEW d,
         Chain(W, Q, {}, {}, T \union {d}, O, n), Below({d}, T)
  PROVE  Chain(W, Q \union {d}, {}, {}, T, O, n) /\ Below(Q, {d})
  BY DEF Chain, Below

LEMMA ChainHands ==
  ASSUME NEW W, NEW Q, NEW H, NEW T, NEW O, NEW n, Chain(W, Q, {}, H, T, O, n)
  PROVE  Chain(W, Q, H, {}, T, O, n)
  BY DEF Chain, Below

LEMMA ChainWrites ==
  ASSUME NEW W, NEW Q, NEW B, NEW H, NEW T, NEW O, NEW n, Chain(W, Q, B, H, T, O, n)
  PROVE  /\ Chain(W \union Q, {}, B, H, T, O, n) /\ Below(W, Q)
         /\ Chain(W \union B, {}, {}, H, T, O, n) /\ Below(W, B)
         /\ Chain(W, B, {}, H, T, O, n)
  BY DEF Chain, Below

-----------------------------------------------------------------------------
LEMMA EmptyValues ==
  /\ Values(<< >>) = {} /\ Increasing(<< >>)
  /\ \A d : Values(<<d>>) = {d}
  /\ \A id : Data(<< >>, id) = {} /\ Ordered(<< >>, id)
<1>1. DOMAIN << >> = {}
  OBVIOUS
<1>2. Values(<< >>) = {} /\ Increasing(<< >>)
  BY <1>1 DEF Values, Increasing
<1>3. \A id : Data(<< >>, id) = {} /\ Ordered(<< >>, id)
  BY <1>1 DEF Data, Ordered
<1>4. ASSUME NEW d PROVE Values(<<d>>) = {d}
  <2>1. PICK s : s = <<d>>
    OBVIOUS
  <2>2. DOMAIN s = {1} /\ s[1] = d
    BY <2>1
  <2> QED BY <2>1, <2>2 DEF Values
<1> QED BY <1>2, <1>3, <1>4

LEMMA ShortIncreasing ==
  ASSUME NEW s \in Seq(Nat), Len(s) <= 1
  PROVE  Increasing(s)
  BY DEF Increasing

LEMMA ValuesAppended ==
  ASSUME NEW s \in Seq(Nat), NEW d \in Nat
  PROVE  /\ Values(Append(s, d)) = Values(s) \union {d}
         /\ Increasing(s) /\ Below(Values(s), {d}) => Increasing(Append(s, d))
<1>1. PICK n \in Nat : n = Len(s)
  OBVIOUS
<1>2. PICK t : t = Append(s, d)
  OBVIOUS
<1>3. /\ DOMAIN t = 1 .. n + 1 /\ DOMAIN s = 1 .. n /\ t[n + 1] = d
      /\ \A i \in 1 .. n : t[i] = s[i]
  BY <1>1, <1>2, Appended
<1>4. /\ \A i \in 1 .. n + 1 : i \in 1 .. n \/ i = n + 1
      /\ n + 1 \in 1 .. n + 1 /\ \A i \in 1 .. n : i \in 1 .. n + 1
  BY <1>1
<1>5. Values(t) = Values(s) \union {d}
  BY <1>3, <1>4 DEF Values
<1>6. ASSUME Increasing(s), Below(Values(s), {d}) PROVE Increasing(t)
  <2> SUFFICES ASSUME NEW i \in 1 .. n + 1, NEW j \in 1 .. n + 1, i < j PROVE t[i] < t[j]
    BY <1>3 DEF Increasing
  <2>1. i \in 1 .. n
    OBVIOUS
  <2>2. CASE j \in 1 .. n
    BY <1>3, <1>6, <2>1, <2>2 DEF Increasing
  <2>3. CASE j = n + 1
    BY <1>3, <1>6, <2>1, <2>3 DEF Below, Values
  <2> QED BY <2>2, <2>3
<1> QED BY <1>2, <1>5, <1>6

LEMMA ValuesConcat ==
  ASSUME NEW s \in Seq(Nat), NEW t \in Seq(Nat)
  PROVE  /\ Values(s \o t) = Values(s) \union Values(t)
         /\ Increasing(s) /\ Increasing(t) /\ Below(Values(s), Values(t)) => Increasing(s \o t)
<1>1. PICK n \in Nat : n = Len(s)
  OBVIOUS
<1>2. PICK k \in Nat : k = Len(t)
  OBVIOUS
<1>3. PICK u : u = s \o t
  OBVIOUS
<1>4. /\ DOMAIN u = 1 .. n + k /\ DOMAIN s = 1 .. n /\ DOMAIN t = 1 .. k
      /\ \A i \in 1 .. n : u[i] = s[i]
      /\ \A i \in 1 .. k : u[n + i] = t[i]
  BY <1>1, <1>2, <1>3
<1>5. /\ \A i \in 1 .. n : i \in 1 .. n + k
      /\ \A i \in 1 .. k : n + i \in 1 .. n + k
      /\ \A i \in 1 .. n + k : i \in 1 .. n \/ (i - n \in 1 .. k /\ n + (i - n) = i)
  BY <1>1, <1>2
<1>6. \A i \in 1 .. n + k : (i \in 1 .. n /\ u[i] = s[i]) \/ (i - n \in 1 .. k /\ u[i] = t[i - n])
  <2> SUFFICES ASSUME NEW i \in 1 .. n + k, i \notin 1 .. n PROVE i - n \in 1 .. k /\ u[i] = t[i - n]
    BY <1>4
  <2>1. PICK j \in 1 .. k : j = i - n /\ n + j = i
    BY <1>5
  <2> QED BY <1>4, <2>1
<1>7. Values(u) = Values(s) \union Values(t)
  <2>1. \A x \in Values(u) : x \in Values(s) \union Values(t)
    BY <1>4, <1>6 DEF Values
  <2>2. \A x \in Values(s) : x \in Values(u)
    BY <1>4, <1>5 DEF Values
  <2>3. \A x \in Values(t) : x \in Values(u)
    <3> SUFFICES ASSUME NEW j \in 1 .. k PROVE t[j] \in Values(u)
      BY <1>4 DEF Values
    <3>1. PICK i \in 1 .. n + k : i = n + j
      BY <1>5
    <3>2. u[i] = t[j]
      BY <1>4, <3>1
    <3> QED BY <1>4, <3>2 DEF Values
  <2> QED BY <2>1, <2>2, <2>3
<1>8. ASSUME Increasing(s), Increasing(t), Below(Values(s), Values(t)) PROVE Increasing(u)
  <2> SUFFICES ASSUME NEW i \in 1 .. n + k, NEW j \in 1 .. n + k, i < j PROVE u[i] < u[j]
    BY <1>4 DEF Increasing
  <2>1. CASE j \in 1 .. n
    <3>1. i \in 1 .. n
      BY <2>1
    <3> QED BY <1>4, <1>8, <2>1, <3>1 DEF Increasing
  <2>2. CASE i \in 1 .. n /\ j \notin 1 .. n
    BY <1>4, <1>6, <1>8, <2>2 DEF Below, Values
  <2>3. CASE i \notin 1 .. n /\ j \notin 1 .. n
    <3>1. i - n \in 1 .. k /\ j - n \in 1 .. k /\ u[i] = t[i - n] /\ u[j] = t[j - n] /\ i - n < j - n
      BY <1>6, <2>3
    <3> QED BY <1>4, <1>8, <3>1 DEF Increasing
  <2> QED BY <2>1, <2>2, <2>3
<1> QED BY <1>3, <1>7, <1>8

LEMMA DataAppended ==
  ASSUME NEW s \in Seq(Message), NEW m \in Message, NEW id
  PROVE  /\ Data(Append(s, m), id) = Data(s, id) \union (IF IsData(m, id) THEN {m.data} ELSE {})
         /\ Ordered(s, id) /\ (IsData(m, id) => Below(Data(s, id), {m.data})) => Ordered(Append(s, m), id)
<1>1. PICK n \in Nat : n = Len(s)
  OBVIOUS
<1>2. PICK t : t = Append(s, m)
  OBVIOUS
<1>3. /\ DOMAIN t = 1 .. n + 1 /\ DOMAIN s = 1 .. n /\ t[n + 1] = m
      /\ \A i \in 1 .. n : t[i] = s[i]
  BY <1>1, <1>2, Appended
<1>4. /\ \A i \in 1 .. n + 1 : i \in 1 .. n \/ i = n + 1
      /\ n + 1 \in 1 .. n + 1 /\ \A i \in 1 .. n : i \in 1 .. n + 1
  BY <1>1
<1>5. Data(t, id) = Data(s, id) \union (IF IsData(m, id) THEN {m.data} ELSE {})
  BY <1>3, <1>4 DEF Data, IsData
<1>6. ASSUME Ordered(s, id), IsData(m, id) => Below(Data(s, id), {m.data}) PROVE Ordered(t, id)
  <2> SUFFICES ASSUME NEW i \in 1 .. n + 1, NEW j \in 1 .. n + 1, i < j,
                      IsData(t[i], id), IsData(t[j], id)
               PROVE  t[i].data < t[j].data
    BY <1>3 DEF Ordered
  <2>1. i \in 1 .. n
    OBVIOUS
  <2>2. CASE j \in 1 .. n
    BY <1>3, <1>6, <2>1, <2>2 DEF Ordered
  <2>3. CASE j = n + 1
    <3>1. s[i].data \in Data(s, id) /\ t[i] = s[i] /\ t[j] = m
      BY <1>3, <2>1, <2>3 DEF Data, IsData
    <3> QED BY <1>6, <3>1 DEF Below
  <2> QED BY <2>2, <2>3
<1> QED BY <1>2, <1>5, <1>6

LEMMA DataTail ==
  ASSUME NEW s \in Seq(Message), s # << >>, NEW id
  PROVE  /\ Data(s, id) = Data(Tail(s), id) \union (IF IsData(Head(s), id) THEN {Head(s).data} ELSE {})
         /\ Ordered(s, id) => /\ Ordered(Tail(s), id)
                              /\ IsData(Head(s), id) => Below({Head(s).data}, Data(Tail(s), id))
<1>1. PICK t : t = Tail(s)
  OBVIOUS
<1>2. /\ Head(s) = s[1] /\ 1 \in DOMAIN s
      /\ \A i \in DOMAIN t : i \in Nat /\ i >= 1 /\ i + 1 \in DOMAIN s /\ t[i] = s[i + 1]
      /\ \A i \in DOMAIN s : i = 1 \/ (i - 1 \in DOMAIN t /\ t[i - 1] = s[i])
  BY <1>1, Tailed
<1>3. Data(s, id) = Data(t, id) \union (IF IsData(Head(s), id) THEN {Head(s).data} ELSE {})
  <2>1. \A x \in Data(s, id) : x \in Data(t, id) \union (IF IsData(Head(s), id) THEN {Head(s).data} ELSE {})
    <3> SUFFICES ASSUME NEW i \in DOMAIN s, IsData(s[i], id)
                 PROVE  s[i].data \in Data(t, id) \union (IF IsData(Head(s), id) THEN {Head(s).data} ELSE {})
      BY DEF Data, IsData
    <3>1. CASE i = 1
      BY <1>2, <3>1
    <3>2. CASE i # 1
      <4>1. PICK j \in DOMAIN t : t[j] = s[i]
        BY <1>2, <3>2
      <4>2. t[j].data \in Data(t, id)
        BY <4>1 DEF Data, IsData
      <4> QED BY <4>1, <4>2
    <3> QED BY <3>1, <3>2
  <2>2. \A x \in Data(t, id) : x \in Data(s, id)
    BY <1>2 DEF Data
  <2>3. IsData(Head(s), id) => Head(s).data \in Data(s, id)
    BY <1>2 DEF Data, IsData
  <2> QED BY <2>1, <2>2, <2>3
<1>4. ASSUME Ordered(s, id) PROVE Ordered(t, id)
  <2> SUFFICES ASSUME NEW i \in DOMAIN t, NEW j \in DOMAIN t, i < j, IsData(t[i], id), IsData(t[j], id)
               PROVE  t[i].data < t[j].data
    BY DEF Ordered
  <2>1. i + 1 \in DOMAIN s /\ j + 1 \in DOMAIN s /\ i + 1 < j + 1 /\ t[i] = s[i + 1] /\ t[j] = s[j + 1]
    BY <1>2
  <2> QED BY <1>4, <2>1 DEF Ordered
<1>5. ASSUME Ordered(s, id), IsData(Head(s), id) PROVE Below({Head(s).data}, Data(t, id))
  <2> SUFFICES ASSUME NEW j \in DOMAIN t, IsData(t[j], id) PROVE Head(s).data < t[j].data
    BY DEF Below, Data, IsData
  <2>1. j + 1 \in DOMAIN s /\ 1 < j + 1 /\ t[j] = s[j + 1]
    BY <1>2
  <2> QED BY <1>2, <1>5, <2>1 DEF Ordered
<1> QED BY <1>1, <1>3, <1>4, <1>5

-----------------------------------------------------------------------------
\* The way of a stream's data: written, queued, in the channel to the writer, in
\* hand, on the channel between the ends, and with the end that has read n pieces.
Way(w, q, b, H, t, o, n, id) ==
  /\ Chain(Values(w), Values(q), Values(b), H, Data(t, id), Data(o, id), n)
  /\ Increasing(w) /\ Increasing(q)
  /\ Ordered(t, id) /\ Ordered(o, id)

LEMMA WayReads ==
  ASSUME NEW w, NEW q, NEW b, NEW H, NEW t, NEW o \in Seq(Message), NEW n \in Nat, NEW id \in Streams,
         Way(w, q, b, H, t, o, n, id)
  PROVE  Way(w, q, b, H, t, Append(o, tcp_data(id, n + 1)), n + 1, id)
<1>1. PICK m : m = tcp_data(id, n + 1)
  OBVIOUS
<1>2. m \in Message /\ IsData(m, id) /\ m.data = n + 1
  BY <1>1 DEF tcp_data, Message, IsData
<1>3. Chain(Values(w), Values(q), Values(b), H, Data(t, id), Data(o, id) \union {n + 1}, n + 1)
  BY ChainReads DEF Way
<1>4. Below(Data(o, id), {n + 1})
  BY DEF Way, Chain, Below
<1>5. /\ Data(Append(o, m), id) = Data(o, id) \union {n + 1}
      /\ Ordered(Append(o, m), id)
  BY <1>2, <1>4, DataAppended DEF Way
<1> QED BY <1>1, <1>3, <1>5 DEF Way

\* What is not data of the stream does not matter.
LEMMA WayPasses ==
  ASSUME NEW w, NEW q, NEW b, NEW H, NEW t, NEW o \in Seq(Message), NEW n, NEW id,
         NEW m \in Message, ~IsData(m, id), Way(w, q, b, H, t, o, n, id)
  PROVE  Way(w, q, b, H, t, Append(o, m), n, id)
<1>1. Data(Append(o, m), id) = Data(o, id) /\ Ordered(Append(o, m), id)
  BY DataAppended DEF Way
<1> QED BY <1>1 DEF Way

LEMMA WaySends ==
  ASSUME NEW w, NEW q, NEW b, NEW H, NEW t \in Seq(Message), NEW o \in Seq(Message), NEW n, NEW id,
         o # << >>, Way(w, q, b, H, t, o, n, id)
  PROVE  Way(w, q, b, H, Append(t, Head(o)), Tail(o), n, id)
<1>1. PICK m \in Message : m = Head(o)
  OBVIOUS
<1>2. /\ Data(o, id) = Data(Tail(o), id) \union (IF IsData(m, id) THEN {m.data} ELSE {})
      /\ Ordered(Tail(o), id)
      /\ IsData(m, id) => Below({m.data}, Data(Tail(o), id))
  BY <1>1, DataTail DEF Way
<1>3. CASE IsData(m, id)
  <2>1. Chain(Values(w), Values(q), Values(b), H, Data(t, id), Data(Tail(o), id) \union {m.data}, n)
    BY <1>2, <1>3 DEF Way
  <2>2. /\ Chain(Values(w), Values(q), Values(b), H, Data(t, id) \union {m.data}, Data(Tail(o), id), n)
        /\ Below(Data(t, id), {m.data})
    BY <1>2, <1>3, <2>1, ChainSends
  <2>3. Data(Append(t, m), id) = Data(t, id) \union {m.data} /\ Ordered(Append(t, m), id)
    BY <1>3, <2>2, DataAppended DEF Way
  <2> QED BY <1>1, <1>2, <2>2, <2>3 DEF Way
<1>4. CASE ~IsData(m, id)
  <2>1. Data(o, id) = Data(Tail(o), id)
    BY <1>2, <1>4
  <2>2. Ordered(t, id)
    BY DEF Way
  <2>3. Data(Append(t, m), id) = Data(t, id) \union {} /\ Ordered(Append(t, m), id)
    BY <1>4, <2>2, DataAppended
  <2> QED BY <1>1, <1>2, <2>1, <2>3 DEF Way
<1> QED BY <1>3, <1>4

\* Data may be lost on the way, where the end it goes to is gone.
LEMMA WayDrops ==
  ASSUME NEW w, NEW q, NEW b, NEW H, NEW t \in Seq(Message), NEW o, NEW n, NEW id,
         t # << >>, Way(w, q, b, H, t, o, n, id)
  PROVE  Way(w, q, b, H, Tail(t), o, n, id)
<1>1. Data(Tail(t), id) \subseteq Data(t, id) /\ Ordered(Tail(t), id)
  BY DataTail DEF Way
<1>2. Chain(Values(w), Values(q), Values(b), H, Data(Tail(t), id), Data(o, id), n)
  BY <1>1, ChainShrinks DEF Way
<1> QED BY <1>1, <1>2 DEF Way

\* A message that is not of the stream's data leaves the end that read it.
LEMMA WaySkips ==
  ASSUME NEW w, NEW q, NEW b, NEW H, NEW t, NEW o \in Seq(Message), NEW n, NEW id,
         o # << >>, Way(w, q, b, H, t, o, n, id)
  PROVE  Way(w, q, b, H, t, Tail(o), n, id)
<1>1. Data(Tail(o), id) \subseteq Data(o, id) /\ Ordered(Tail(o), id)
  BY DataTail DEF Way
<1>2. Chain(Values(w), Values(q), Values(b), H, Data(t, id), Data(Tail(o), id), n)
  BY <1>1, ChainShrinks DEF Way
<1> QED BY <1>1, <1>2 DEF Way

LEMMA WayForgets ==
  ASSUME NEW w, NEW q, NEW b, NEW H, NEW t, NEW o, NEW n, NEW id, Way(w, q, b, H, t, o, n, id)
  PROVE  /\ Way(w, << >>, b, H, t, o, n, id)
         /\ Way(w, q, << >>, H, t, o, n, id)
         /\ Way(w, << >>, << >>, H, t, o, n, id)
<1>1. {} \subseteq Values(q) /\ {} \subseteq Values(b)
  OBVIOUS
<1>2. /\ Chain(Values(w), {}, Values(b), H, Data(t, id), Data(o, id), n)
      /\ Chain(Values(w), Values(q), {}, H, Data(t, id), Data(o, id), n)
      /\ Chain(Values(w), {}, {}, H, Data(t, id), Data(o, id), n)
  BY <1>1, ChainShrinks DEF Way
<1> QED BY <1>2, EmptyValues DEF Way

LEMMA WayTakes ==
  ASSUME NEW w, NEW q, NEW b, NEW t \in Seq(Message), NEW o, NEW n, NEW id,
         t # << >>, IsData(Head(t), id), Way(w, q, b, {}, t, o, n, id)
  PROVE  Way(w, q, b, {Head(t).data}, Tail(t), o, n, id)
<1>1. PICK m \in Message : m = Head(t)
  OBVIOUS
<1>2. /\ Data(t, id) = Data(Tail(t), id) \union {m.data}
      /\ Ordered(Tail(t), id) /\ Below({m.data}, Data(Tail(t), id))
  BY <1>1, DataTail DEF Way
<1>3. Chain(Values(w), Values(q), Values(b), {}, Data(Tail(t), id) \union {m.data}, Data(o, id), n)
  BY <1>2 DEF Way
<1>4. Chain(Values(w), Values(q), Values(b), {m.data}, Data(Tail(t), id), Data(o, id), n)
  BY <1>2, <1>3, ChainTakes
<1> QED BY <1>1, <1>2, <1>4 DEF Way

LEMMA WayQueues ==
  ASSUME NEW w, NEW q \in Seq(Nat), NEW t \in Seq(Message), NEW o, NEW n, NEW id,
         t # << >>, IsData(Head(t), id), Head(t).data \in Nat, Way(w, q, << >>, {}, t, o, n, id)
  PROVE  Way(w, Append(q, Head(t).data), << >>, {}, Tail(t), o, n, id)
<1>1. PICK m \in Message : m = Head(t)
  OBVIOUS
<1>2. /\ Data(t, id) = Data(Tail(t), id) \union {m.data}
      /\ Ordered(Tail(t), id) /\ Below({m.data}, Data(Tail(t), id))
  BY <1>1, DataTail DEF Way
<1>3. Chain(Values(w), Values(q), {}, {}, Data(Tail(t), id) \union {m.data}, Data(o, id), n)
  BY <1>2, EmptyValues DEF Way
<1>4. /\ Chain(Values(w), Values(q) \union {m.data}, {}, {}, Data(Tail(t), id), Data(o, id), n)
      /\ Below(Values(q), {m.data})
  BY <1>2, <1>3, ChainQueues
<1>5. Values(Append(q, m.data)) = Values(q) \union {m.data} /\ Increasing(Append(q, m.data))
  BY <1>1, <1>4, ValuesAppended DEF Way
<1> QED BY <1>1, <1>2, <1>4, <1>5, EmptyValues DEF Way

LEMMA WayHands ==
  ASSUME NEW w, NEW q, NEW d, NEW t, NEW o, NEW n, NEW id, Way(w, q, << >>, {d}, t, o, n, id)
  PROVE  Way(w, q, <<d>>, {}, t, o, n, id)
<1>1. Chain(Values(w), Values(q), {}, {d}, Data(t, id), Data(o, id), n)
  BY EmptyValues DEF Way
<1>2. Chain(Values(w), Values(q), {d}, {}, Data(t, id), Data(o, id), n)
  BY <1>1, ChainHands
<1> QED BY <1>2, EmptyValues DEF Way

LEMMA WayWrites ==
  ASSUME NEW w \in Seq(Nat), NEW q \in Seq(Nat), NEW b \in Seq(Nat), Len(b) <= 1,
         NEW H, NEW t, NEW o, NEW n, NEW id, Way(w, q, b, H, t, o, n, id)
  PROVE  /\ Way(w \o q, << >>, b, H, t, o, n, id)
         /\ Way(w \o b, << >>, << >>, H, t, o, n, id)
         /\ Way(w, b, << >>, H, t, o, n, id)
<1>1. /\ Chain(Values(w) \union Values(q), {}, Values(b), H, Data(t, id), Data(o, id), n)
      /\ Chain(Values(w), Values(b), {}, H, Data(t, id), Data(o, id), n)
      /\ Chain(Values(w) \union Values(b), {}, {}, H, Data(t, id), Data(o, id), n)
      /\ Below(Values(w), Values(q)) /\ Below(Values(w), Values(b))
  BY ChainWrites DEF Way
<1>2. Values(w \o q) = Values(w) \union Values(q) /\ Increasing(w \o q)
  BY <1>1, ValuesConcat DEF Way
<1>3. Values(w \o b) = Values(w) \union Values(b) /\ Increasing(w \o b) /\ Increasing(b)
  BY <1>1, ValuesConcat, ShortIncreasing DEF Way
<1> QED BY <1>1, <1>2, <1>3, EmptyValues DEF Way

-----------------------------------------------------------------------------
InHand(id) == {d \in Nat : main # Idle /\ main.id = id /\ main.data = d}

\* The data of a stream is on its way in order, to the client and to the server.
ToClient(id) ==
  Way(client_sock[id].written, queued[id], buffer[id], InHand(id), to_client, DataOut,
      server_sock[id].read, id)

ToServer(id) ==
  Way(server_sock[id].written, << >>, slot[id], {}, DataIn, to_server, client_sock[id].read, id)

LEMMA SocketsTyped ==
  ASSUME Typed, NEW id \in Streams
  PROVE  /\ server_sock[id].read \in Nat /\ server_sock[id].written \in Seq(Nat)
         /\ client_sock[id].read \in Nat /\ client_sock[id].written \in Seq(Nat)
         /\ queued[id] \in Seq(Nat) /\ buffer[id] \in Seq(Nat) /\ slot[id] \in Seq(Nat)
         /\ Len(buffer[id]) <= 1 /\ Len(slot[id]) <= 1
<1>1. server_sock[id] \in Socket /\ client_sock[id] \in Socket
  BY DEF Typed, TypeOK, ServerTypeOK, ClientTypeOK
<1>2. /\ server_sock[id].read \in Nat /\ server_sock[id].written \in Seq(Nat)
      /\ client_sock[id].read \in Nat /\ client_sock[id].written \in Seq(Nat)
  BY <1>1, SocketSteps
<1> QED BY <1>2 DEF Typed, TypeOK, ServerTypeOK, ClientTypeOK

LEMMA ToClientKept ==
  ASSUME NEW id \in Streams, ToClient(id), UNCHANGED <<to_client, DataOut, main>>,
         client_sock'[id].written = client_sock[id].written, server_sock'[id].read = server_sock[id].read,
         queued'[id] = queued[id], buffer'[id] = buffer[id]
  PROVE  ToClient(id)'
  BY DEF ToClient, InHand

LEMMA TaskReadToClient ==
  ASSUME Typed, NEW a \in Streams, TaskRead(a), UNCHANGED client, NEW id \in Streams, ToClient(id)
  PROVE  ToClient(id)'
<1>1. /\ server_sock'[a].read = server_sock[a].read + 1
      /\ \A i \in Streams \ {a} : server_sock'[i] = server_sock[i]
      /\ DataOut' = Append(DataOut, tcp_data(a, server_sock[a].read + 1))
      /\ UNCHANGED <<to_client, client_sock, queued, buffer, main>>
  BY TaskReadEffect DEF channel, client
<1>2. DataOut \in Seq(Message) /\ server_sock[a].read \in Nat
  BY QueuesTyped, SocketsTyped
<1>3. PICK n \in Nat : n = server_sock[a].read
  BY <1>2
<1>4. CASE id = a
  <2>1. Way(client_sock[id].written, queued[id], buffer[id], InHand(id), to_client,
            Append(DataOut, tcp_data(id, n + 1)), n + 1, id)
    BY <1>2, <1>3, <1>4, WayReads DEF ToClient
  <2>2. InHand(id)' = InHand(id)
    BY <1>1 DEF InHand
  <2> QED BY <1>1, <1>3, <1>4, <2>1, <2>2 DEF ToClient
<1>5. CASE id # a
  <2>0. tcp_data(a, n + 1) \in Message /\ ~IsData(tcp_data(a, n + 1), id)
    BY <1>5 DEF tcp_data, Message, IsData
  <2>1. PICK m \in Message : m = tcp_data(a, n + 1) /\ ~IsData(m, id)
    BY <2>0
  <2>2. Way(client_sock[id].written, queued[id], buffer[id], InHand(id), to_client,
            DataOut, server_sock[id].read, id)
    BY DEF ToClient
  <2>3. Way(client_sock[id].written, queued[id], buffer[id], InHand(id), to_client,
            Append(DataOut, m), server_sock[id].read, id)
    BY <1>2, <2>1, <2>2, WayPasses
  <2>4. InHand(id)' = InHand(id) /\ server_sock'[id].read = server_sock[id].read
    BY <1>1, <1>5 DEF InHand
  <2> QED BY <1>1, <1>3, <2>1, <2>3, <2>4 DEF ToClient
<1> QED BY <1>4, <1>5

LEMMA SendToClientToClient ==
  ASSUME Typed, SendToClient, UNCHANGED client, NEW id \in Streams, ToClient(id)
  PROVE  ToClient(id)'
<1>1. UNCHANGED <<server_sock, client_sock, queued, buffer, main>>
  BY SendToClientEffect DEF client
<1>2. /\ to_client \in Seq(Message) /\ OpensOut \in Seq(Message) /\ ClosesOut \in Seq(Message)
      /\ DataOut \in Seq(Message)
  BY QueuesTyped
<1>3. InHand(id)' = InHand(id)
  BY <1>1 DEF InHand
<1>4. CASE /\ DataOut # << >> /\ DataOut' = Tail(DataOut) /\ to_client' = Append(to_client, Head(DataOut))
  <2>1. Way(client_sock[id].written, queued[id], buffer[id], InHand(id), Append(to_client, Head(DataOut)),
            Tail(DataOut), server_sock[id].read, id)
    BY <1>2, <1>4, WaySends DEF ToClient
  <2> QED BY <1>1, <1>3, <1>4, <2>1 DEF ToClient
<1>5. ASSUME NEW m \in Message, m.kind # "TcpData", to_client' = Append(to_client, m), DataOut' = DataOut
      PROVE  ToClient(id)'
  <2>1. Ordered(to_client, id)
    BY DEF ToClient, Way
  <2>2. Data(Append(to_client, m), id) = Data(to_client, id) \union {} /\ Ordered(Append(to_client, m), id)
    BY <1>2, <1>5, <2>1, DataAppended DEF IsData
  <2>3. Way(client_sock[id].written, queued[id], buffer[id], InHand(id), Append(to_client, m),
            DataOut, server_sock[id].read, id)
    BY <2>2 DEF ToClient, Way
  <2> QED BY <1>1, <1>3, <1>5, <2>3 DEF ToClient
<1>6. CASE /\ OpensOut # << >> /\ to_client' = Append(to_client, Head(OpensOut))
           /\ Head(OpensOut).kind = "OpenTcp" /\ DataOut' = DataOut
  BY <1>2, <1>5, <1>6
<1>7. CASE /\ ClosesOut # << >> /\ to_client' = Append(to_client, Head(ClosesOut))
           /\ Head(ClosesOut).kind = "CloseTcp" /\ DataOut' = DataOut
  BY <1>2, <1>5, <1>7
<1> QED BY <1>4, <1>6, <1>7, SendToClientEffect

LEMMA ServerStepToClient ==
  ASSUME Typed, ServerStep, UNCHANGED client, NEW id \in Streams, ToClient(id)
  PROVE  ToClient(id)'
<1>1. ASSUME UNCHANGED <<to_client, DataOut>>, server_sock'[id].read = server_sock[id].read
      PROVE  ToClient(id)'
  BY <1>1, ToClientKept DEF client
<1>2. ASSUME NEW a \in Streams, AcceptAtServer(a) PROVE ToClient(id)'
  <2>1. UNCHANGED <<DataOut, to_client, server_sock>>
    BY <1>2, AcceptAtServerEffect DEF AcceptAtServer, channel
  <2> QED BY <1>1, <2>1
<1>3. ASSUME NEW a \in Streams, ServerPeer(a) PROVE ToClient(id)'
  BY <1>1, <1>3, ServerPeerEffect DEF serverQueues, channel
<1>4. ASSUME NEW a \in Streams, TaskWriterClosed(a) \/ TaskReadEnds(a) PROVE ToClient(id)'
  <2>1. UNCHANGED <<DataOut, to_client, server_sock>>
    BY <1>4, TaskEndsEffect DEF serverQueues, channel
  <2> QED BY <1>1, <2>1
<1>5. ASSUME NEW a \in Streams, TaskWrite(a) PROVE ToClient(id)'
  <2>1. UNCHANGED <<DataOut, to_client>>
    BY <1>5, TaskWriteEffect DEF serverQueues, channel, TaskWrite
  <2>2. server_sock'[id].read = server_sock[id].read
    BY <1>5, TaskWriteEffect
  <2> QED BY <1>1, <2>1, <2>2
<1>6. CASE ReceiveFromClient
  <2>1. UNCHANGED <<DataOut, to_client, server_sock>>
    BY <1>6, ReceiveFromClientEffect
  <2> QED BY <1>1, <2>1
<1>7. CASE PollNext
  <2>1. UNCHANGED <<DataOut, to_client, server_sock>>
    BY <1>7, PollNextEffect DEF serverQueues, channel
  <2> QED BY <1>1, <2>1
<1>8. CASE OpenFromClient \/ NewTcpStream
  <2>1. UNCHANGED <<DataOut, to_client, server_sock>>
    BY <1>8, OpenFromClientEffect, NewTcpStreamEffect DEF channel
  <2> QED BY <1>1, <2>1
<1>9. CASE DataFromClient \/ CloseFromClient
  <2>1. UNCHANGED <<DataOut, to_client, server_sock>>
    BY <1>9, DataFromClientEffect, CloseFromClientEffect DEF channel
  <2> QED BY <1>1, <2>1
<1>10. ASSUME NEW a \in Streams, JoinTask(a) PROVE ToClient(id)'
  <2>1. UNCHANGED <<DataOut, to_client, server_sock>>
    BY <1>10, JoinTaskEffect DEF channel
  <2> QED BY <1>1, <2>1
<1> QED BY <1>2, <1>3, <1>4, <1>5, <1>6, <1>7, <1>8, <1>9, <1>10, TaskReadToClient,
           SendToClientToClient DEF ServerStep

LEMMA InHandNone ==
  ASSUME NEW id, main # Idle => main.id # id
  PROVE  InHand(id) = {}
  BY DEF InHand

\* tc-main takes a message that is not data.
LEMMA HandleCloseToClient ==
  ASSUME Typed, handle_open_from_server \/ handle_close_from_server, UNCHANGED server,
         NEW id \in Streams, ToClient(id)
  PROVE  ToClient(id)'
<1>1. /\ to_client # << >> /\ to_client' = Tail(to_client)
      /\ queued' = queued \/ \E a \in Streams : queued' = [queued EXCEPT ![a] = << >>]
      /\ UNCHANGED <<buffer, main, client_sock>> /\ UNCHANGED serverQueues
  BY HandleOpenEffect, HandleCloseEffect
<1>2. UNCHANGED <<DataOut, server_sock>> /\ InHand(id)' = InHand(id)
  BY <1>1 DEF serverQueues, server, InHand
<1>3. Way(client_sock[id].written, queued[id], buffer[id], InHand(id), Tail(to_client), DataOut,
          server_sock[id].read, id)
  BY <1>1, WayDrops, QueuesTyped DEF ToClient
<1>4. Way(client_sock[id].written, << >>, buffer[id], InHand(id), Tail(to_client), DataOut,
          server_sock[id].read, id)
  BY <1>3, WayForgets
<1>5. queued'[id] = queued[id] \/ queued'[id] = << >>
  BY <1>1 DEF Typed, TypeOK, ClientTypeOK
<1>6. CASE queued'[id] = queued[id]
  BY <1>1, <1>2, <1>3, <1>6 DEF ToClient
<1>7. CASE queued'[id] = << >>
  BY <1>1, <1>2, <1>4, <1>7 DEF ToClient
<1> QED BY <1>5, <1>6, <1>7

LEMMA HandleDataToClient ==
  ASSUME Typed, handle_data_from_server, UNCHANGED server, NEW id \in Streams, Threads(id), ToClient(id)
  PROVE  ToClient(id)'
<1>1. PICK m : m = Head(to_client)
  OBVIOUS
<1>2. /\ m \in Message /\ m.kind = "TcpData" /\ m.id \in Streams /\ m.data \in Nat
      /\ main = Idle /\ to_client # << >> /\ to_client' = Tail(to_client)
      /\ \/ /\ streams[m.id] = "Opened" /\ main' = [pc |-> "send", id |-> m.id, data |-> m.data]
            /\ UNCHANGED queued
         \/ /\ streams[m.id] = "Opening" /\ queued' = [queued EXCEPT ![m.id] = Append(@, m.data)]
            /\ UNCHANGED main
         \/ UNCHANGED <<main, queued>>
      /\ UNCHANGED <<buffer, client_sock>> /\ UNCHANGED serverQueues
  BY <1>1, HandleDataEffect
<1>3. UNCHANGED <<DataOut, server_sock>>
  BY <1>2 DEF serverQueues, server
<1>4. to_client \in Seq(Message) /\ queued[id] \in Seq(Nat)
  BY QueuesTyped, SocketsTyped
<1>5. InHand(id) = {}
  BY <1>2, InHandNone
<1>6. Way(client_sock[id].written, queued[id], buffer[id], {}, to_client, DataOut, server_sock[id].read, id)
  BY <1>5 DEF ToClient
<1>7. Way(client_sock[id].written, queued[id], buffer[id], {}, Tail(to_client), DataOut,
          server_sock[id].read, id)
  BY <1>2, <1>4, <1>6, WayDrops
<1>8. CASE UNCHANGED <<main, queued>>
  <2>1. InHand(id)' = {}
    BY <1>2, <1>8, InHandNone DEF InHand
  <2> QED BY <1>2, <1>3, <1>7, <1>8, <2>1 DEF ToClient
<1>9. CASE main' = [pc |-> "send", id |-> m.id, data |-> m.data] /\ UNCHANGED queued
  <2>1. main' # Idle /\ main'.id = m.id /\ main'.data = m.data
    <3>1. main'.pc = "send" /\ Idle.pc = "select" /\ main'.id = m.id /\ main'.data = m.data
      BY <1>9 DEF Idle
    <3> QED BY <3>1
  <2>2. CASE id = m.id
    <3>1. InHand(id)' = {m.data}
      BY <1>2, <2>1, <2>2 DEF InHand
    <3>2. IsData(Head(to_client), id)
      BY <1>1, <1>2, <2>2 DEF IsData
    <3>3. Way(client_sock[id].written, queued[id], buffer[id], {Head(to_client).data}, Tail(to_client),
              DataOut, server_sock[id].read, id)
      BY <1>2, <1>4, <1>6, <3>2, WayTakes
    <3> QED BY <1>1, <1>2, <1>3, <1>9, <3>1, <3>3 DEF ToClient
  <2>3. CASE id # m.id
    <3>1. InHand(id)' = {}
      BY <2>1, <2>3 DEF InHand
    <3> QED BY <1>2, <1>3, <1>7, <1>9, <3>1 DEF ToClient
  <2> QED BY <2>2, <2>3
<1>10. CASE /\ streams[m.id] = "Opening" /\ queued' = [queued EXCEPT ![m.id] = Append(@, m.data)]
            /\ UNCHANGED main
  <2>1. InHand(id)' = {}
    BY <1>2, <1>10, InHandNone DEF InHand
  <2>2. queued'[id] = IF id = m.id THEN Append(queued[id], m.data) ELSE queued[id]
    BY <1>10 DEF Typed, TypeOK, ClientTypeOK
  <2>3. CASE id = m.id
    <3>1. buffer[id] = << >>
      BY <1>10, <2>3 DEF Threads
    <3>2. IsData(Head(to_client), id) /\ Head(to_client).data \in Nat
      BY <1>1, <1>2, <2>3 DEF IsData
    <3>3. Way(client_sock[id].written, queued[id], << >>, {}, to_client, DataOut, server_sock[id].read, id)
      BY <1>6, <3>1
    <3>4. Way(client_sock[id].written, Append(queued[id], Head(to_client).data), << >>, {},
              Tail(to_client), DataOut, server_sock[id].read, id)
      BY <1>2, <1>4, <3>2, <3>3, WayQueues
    <3> QED BY <1>1, <1>2, <1>3, <2>1, <2>2, <2>3, <3>1, <3>4 DEF ToClient
  <2>4. CASE id # m.id
    BY <1>2, <1>3, <1>7, <2>1, <2>2, <2>4 DEF ToClient
  <2> QED BY <2>3, <2>4
<1> QED BY <1>2, <1>8, <1>9, <1>10

LEMMA SendToWriterToClient ==
  ASSUME Typed, SendToWriter, UNCHANGED server, NEW id \in Streams, ToClient(id)
  PROVE  ToClient(id)'
<1>1. /\ main # Idle /\ main.id \in Streams /\ main.data \in Nat /\ buffer[main.id] = << >>
      /\ buffer' = [buffer EXCEPT ![main.id] = <<main.data>>] /\ main' = Idle
      /\ UNCHANGED <<queued, client_sock, to_client>> /\ UNCHANGED serverQueues
  BY SendToWriterEffect DEF channel
<1>2. UNCHANGED <<DataOut, server_sock>>
  BY <1>1 DEF serverQueues, server
<1>3. InHand(id)' = {}
  BY <1>1 DEF InHand
<1>4. buffer'[id] = IF id = main.id THEN <<main.data>> ELSE buffer[id]
  BY <1>1 DEF Typed, TypeOK, ClientTypeOK
<1>5. CASE id = main.id
  <2>1. InHand(id) = {main.data}
    BY <1>1, <1>5 DEF InHand
  <2>2. Way(client_sock[id].written, queued[id], << >>, {main.data}, to_client, DataOut,
            server_sock[id].read, id)
    BY <1>1, <1>5, <2>1 DEF ToClient
  <2>3. Way(client_sock[id].written, queued[id], <<main.data>>, {}, to_client, DataOut,
            server_sock[id].read, id)
    BY <2>2, WayHands
  <2> QED BY <1>1, <1>2, <1>3, <1>4, <1>5, <2>3 DEF ToClient
<1>6. CASE id # main.id
  <2>1. InHand(id) = {}
    BY <1>6 DEF InHand
  <2> QED BY <1>1, <1>2, <1>3, <1>4, <1>6, <2>1 DEF ToClient
<1> QED BY <1>5, <1>6

LEMMA WriteReturnsToClient ==
  ASSUME Typed, NEW a \in Streams, WriteReturns(a), UNCHANGED server, NEW id \in Streams, ToClient(id)
  PROVE  ToClient(id)'
<1>1. /\ queued' = [queued EXCEPT ![a] = << >>]
      /\ \/ client_sock'[a].written = client_sock[a].written \o queued[a]
         \/ client_sock'[a].written = client_sock[a].written
      /\ \A i \in Streams \ {a} : client_sock'[i] = client_sock[i]
      /\ UNCHANGED <<buffer, main, to_client>> /\ UNCHANGED serverQueues
  BY WriteReturnsEffect DEF channel
<1>2. UNCHANGED <<DataOut, server_sock>> /\ InHand(id)' = InHand(id)
  BY <1>1 DEF serverQueues, server, InHand
<1>3. CASE id # a
  <2>1. queued'[id] = queued[id] /\ buffer'[id] = buffer[id] /\ client_sock'[id] = client_sock[id]
    BY <1>1, <1>3 DEF Typed, TypeOK, ClientTypeOK
  <2> QED BY <1>1, <1>2, <2>1, ToClientKept
<1>4. CASE id = a
  <2>1. /\ queued'[id] = << >>
        /\ \/ client_sock'[id].written = client_sock[id].written \o queued[id]
           \/ client_sock'[id].written = client_sock[id].written
    BY <1>1, <1>4 DEF Typed, TypeOK, ClientTypeOK
  <2>2. /\ client_sock[id].written \in Seq(Nat) /\ queued[id] \in Seq(Nat)
        /\ buffer[id] \in Seq(Nat) /\ Len(buffer[id]) <= 1
    BY SocketsTyped
  <2>3. Way(client_sock[id].written, queued[id], buffer[id], InHand(id), to_client, DataOut,
            server_sock[id].read, id)
    BY DEF ToClient
  <2>4. Way(client_sock[id].written \o queued[id], << >>, buffer[id], InHand(id), to_client, DataOut,
            server_sock[id].read, id)
    BY <2>2, <2>3, WayWrites
  <2>5. Way(client_sock[id].written, << >>, buffer[id], InHand(id), to_client, DataOut,
            server_sock[id].read, id)
    BY <2>3, WayForgets
  <2>6. Way(client_sock'[id].written, queued'[id], buffer[id], InHand(id), to_client, DataOut,
            server_sock[id].read, id)
    BY <2>1, <2>4, <2>5
  <2> QED BY <1>1, <1>2, <2>6 DEF ToClient
<1> QED BY <1>3, <1>4

LEMMA WriterReceivesToClient ==
  ASSUME Typed, NEW a \in Streams, WriterReceives(a), UNCHANGED server, NEW id \in Streams, ToClient(id)
  PROVE  ToClient(id)'
<1>1. /\ queued' = [queued EXCEPT ![a] = buffer[a]] /\ buffer' = [buffer EXCEPT ![a] = << >>]
      /\ UNCHANGED <<client_sock, main, to_client>> /\ UNCHANGED serverQueues
  BY WriterReceivesEffect DEF channel
<1>2. UNCHANGED <<DataOut, server_sock>> /\ InHand(id)' = InHand(id)
  BY <1>1 DEF serverQueues, server, InHand
<1>3. CASE id # a
  <2>1. queued'[id] = queued[id] /\ buffer'[id] = buffer[id]
    BY <1>1, <1>3 DEF Typed, TypeOK, ClientTypeOK
  <2> QED BY <1>1, <1>2, <2>1, ToClientKept
<1>4. CASE id = a
  <2>1. queued'[id] = buffer[id] /\ buffer'[id] = << >>
    BY <1>1, <1>4 DEF Typed, TypeOK, ClientTypeOK
  <2>2. /\ client_sock[id].written \in Seq(Nat) /\ queued[id] \in Seq(Nat)
        /\ buffer[id] \in Seq(Nat) /\ Len(buffer[id]) <= 1
    BY SocketsTyped
  <2>3. Way(client_sock[id].written, queued[id], buffer[id], InHand(id), to_client, DataOut,
            server_sock[id].read, id)
    BY DEF ToClient
  <2>4. Way(client_sock[id].written, buffer[id], << >>, InHand(id), to_client, DataOut,
            server_sock[id].read, id)
    BY <2>2, <2>3, WayWrites
  <2> QED BY <1>1, <1>2, <2>1, <2>4 DEF ToClient
<1> QED BY <1>3, <1>4

LEMMA StepToClient ==
  ASSUME Typed, [Next]_vars, NEW id \in Streams, Threads(id), ToClient(id)
  PROVE  ToClient(id)'
<1>1. CASE ServerStep /\ UNCHANGED client
  BY <1>1, ServerStepToClient
<1>2. CASE UNCHANGED <<server, client, channel>>
  <2>1. UNCHANGED <<to_client, DataOut, main, client_sock, server_sock, queued, buffer>>
    BY <1>2, IdleTyped DEF serverQueues, server, client, channel
  <2> QED BY <2>1, ToClientKept
<1>3. CASE ClientStep /\ UNCHANGED server
  <2>1. ASSUME UNCHANGED serverQueues, UNCHANGED <<to_client, main, queued, buffer>>,
               client_sock'[id].written = client_sock[id].written
        PROVE  ToClient(id)'
    <3>1. UNCHANGED <<DataOut, server_sock>>
      BY <1>3, <2>1 DEF serverQueues, server
    <3> QED BY <2>1, <3>1, ToClientKept
  <2>2. ASSUME NEW a \in Streams, handle_new_stream_established(a) PROVE ToClient(id)'
    BY <1>3, <2>1, <2>2, EstablishedEffect
  <2>3. ASSUME NEW a \in Streams, handle_stream_result(a) PROVE ToClient(id)'
    BY <1>3, <2>1, <2>3, ResultEffect
  <2>4. ASSUME NEW a \in Streams, AcceptAtClient(a) \/ Connect(a) PROVE ToClient(id)'
    BY <1>3, <2>1, <2>4, StarterEffect
  <2>5. ASSUME NEW a \in Streams, ReadThread(a) PROVE ToClient(id)'
    <3>1. UNCHANGED serverQueues /\ UNCHANGED <<to_client, main, queued, buffer>>
      BY <1>3, <2>5, ReadThreadEffect
    <3>2. client_sock'[id].written = client_sock[id].written
      BY <1>3, <2>5, ReadThreadEffect
    <3> QED BY <2>1, <3>1, <3>2
  <2>6. ASSUME NEW a \in Streams, WriteThreadEnds(a) \/ ClientPeer(a) PROVE ToClient(id)'
    <3>1. UNCHANGED serverQueues /\ UNCHANGED <<to_client, main, queued, buffer>>
      BY <1>3, <2>6, WriteThreadEndsEffect, ClientPeerEffect DEF channel
    <3>2. client_sock'[id].written = client_sock[id].written
      BY <1>3, <2>6, WriteThreadEndsEffect, ClientPeerEffect
    <3> QED BY <2>1, <3>1, <3>2
  <2> QED BY <1>3, <2>2, <2>3, <2>4, <2>5, <2>6, HandleCloseToClient, HandleDataToClient,
             SendToWriterToClient, WriteReturnsToClient, WriterReceivesToClient DEF ClientStep
<1> QED BY <1>1, <1>2, <1>3, Steps

LEMMA ToServerKept ==
  ASSUME NEW id \in Streams, ToServer(id), UNCHANGED <<to_server, DataIn>>,
         server_sock'[id].written = server_sock[id].written, client_sock'[id].read = client_sock[id].read,
         slot'[id] = slot[id]
  PROVE  ToServer(id)'
  BY DEF ToServer

\* The client puts a message on the channel that is not data.
LEMMA ToServerPasses ==
  ASSUME Typed, NEW id \in Streams, ToServer(id), UNCHANGED <<DataIn, server_sock, slot>>,
         client_sock'[id].read = client_sock[id].read,
         \/ to_server' = to_server
         \/ \E a \in Streams : \/ to_server' = Append(to_server, close_tcp_stream(a))
                               \/ to_server' = Append(to_server, open_tcp_stream(a))
  PROVE  ToServer(id)'
<1>1. CASE to_server' = to_server
  BY <1>1, ToServerKept
<1>2. ASSUME NEW m \in Message, m.kind # "TcpData", to_server' = Append(to_server, m)
      PROVE  ToServer(id)'
  <2>1. ~IsData(m, id)
    BY <1>2 DEF IsData
  <2>2. Way(server_sock[id].written, << >>, slot[id], {}, DataIn, to_server, client_sock[id].read, id)
    BY DEF ToServer
  <2>3. Way(server_sock[id].written, << >>, slot[id], {}, DataIn, Append(to_server, m),
            client_sock[id].read, id)
    BY <2>1, <2>2, QueuesTyped, WayPasses
  <2> QED BY <1>2, <2>3 DEF ToServer
<1>3. ASSUME NEW a \in Streams
      PROVE  /\ close_tcp_stream(a) \in Message /\ close_tcp_stream(a).kind # "TcpData"
             /\ open_tcp_stream(a) \in Message /\ open_tcp_stream(a).kind # "TcpData"
  BY MessageKinds DEF OfKind
<1> QED BY <1>1, <1>2, <1>3

LEMMA ReadThreadToServer ==
  ASSUME Typed, NEW a \in Streams, ReadThread(a), UNCHANGED server, NEW id \in Streams, ToServer(id)
  PROVE  ToServer(id)'
<1>1. /\ \/ /\ client_sock'[a].read = client_sock[a].read + 1
            /\ \A i \in Streams \ {a} : client_sock'[i] = client_sock[i]
            /\ to_server' = Append(to_server, tcp_data(a, client_sock[a].read + 1))
         \/ UNCHANGED <<client_sock, to_server>>
      /\ UNCHANGED serverQueues
  BY ReadThreadEffect
<1>2. UNCHANGED <<DataIn, server_sock, slot>>
  BY <1>1 DEF serverQueues, server
<1>3. CASE UNCHANGED <<client_sock, to_server>>
  BY <1>2, <1>3, ToServerKept
<1>4. CASE /\ client_sock'[a].read = client_sock[a].read + 1
           /\ \A i \in Streams \ {a} : client_sock'[i] = client_sock[i]
           /\ to_server' = Append(to_server, tcp_data(a, client_sock[a].read + 1))
  <2>1. to_server \in Seq(Message) /\ client_sock[a].read \in Nat
    BY QueuesTyped, SocketsTyped
  <2>2. PICK n \in Nat : n = client_sock[a].read
    BY <2>1
  <2>3. Way(server_sock[id].written, << >>, slot[id], {}, DataIn, to_server, client_sock[id].read, id)
    BY DEF ToServer
  <2>4. CASE id = a
    <3>1. Way(server_sock[id].written, << >>, slot[id], {}, DataIn,
              Append(to_server, tcp_data(id, n + 1)), n + 1, id)
      BY <2>1, <2>2, <2>3, <2>4, WayReads
    <3> QED BY <1>2, <1>4, <2>2, <2>4, <3>1 DEF ToServer
  <2>5. CASE id # a
    <3>1. tcp_data(a, n + 1) \in Message /\ ~IsData(tcp_data(a, n + 1), id)
      BY <2>5 DEF tcp_data, Message, IsData
    <3>2. PICK m \in Message : m = tcp_data(a, n + 1) /\ ~IsData(m, id)
      BY <3>1
    <3>3. Way(server_sock[id].written, << >>, slot[id], {}, DataIn, Append(to_server, m),
              client_sock[id].read, id)
      BY <2>1, <2>3, <3>2, WayPasses
    <3>4. client_sock'[id].read = client_sock[id].read
      BY <1>4, <2>5
    <3> QED BY <1>2, <1>4, <2>2, <3>2, <3>3, <3>4 DEF ToServer
  <2> QED BY <2>4, <2>5
<1> QED BY <1>1, <1>3, <1>4

LEMMA ReceiveToServer ==
  ASSUME Typed, ReceiveFromClient, UNCHANGED client, NEW id \in Streams, ToServer(id)
  PROVE  ToServer(id)'
<1>1. PICK m : m = Head(to_server)
  OBVIOUS
<1>2. /\ m \in Message /\ to_server # << >> /\ to_server' = Tail(to_server)
      /\ DataIn' = IF m.kind = "TcpData" THEN Append(DataIn, m) ELSE DataIn
      /\ UNCHANGED <<slot, server_sock, client_sock>>
  BY <1>1, ReceiveFromClientEffect DEF client
<1>3. to_server \in Seq(Message) /\ DataIn \in Seq(Message)
  BY QueuesTyped
<1>4. Way(server_sock[id].written, << >>, slot[id], {}, DataIn, to_server, client_sock[id].read, id)
  BY DEF ToServer
<1>5. CASE m.kind = "TcpData"
  <2>1. Way(server_sock[id].written, << >>, slot[id], {}, Append(DataIn, Head(to_server)),
            Tail(to_server), client_sock[id].read, id)
    BY <1>2, <1>3, <1>4, WaySends
  <2> QED BY <1>1, <1>2, <1>5, <2>1 DEF ToServer
<1>6. CASE m.kind # "TcpData"
  <2>1. Way(server_sock[id].written, << >>, slot[id], {}, DataIn, Tail(to_server),
            client_sock[id].read, id)
    BY <1>2, <1>3, <1>4, WaySkips
  <2> QED BY <1>2, <1>6, <2>1 DEF ToServer
<1> QED BY <1>5, <1>6

LEMMA DataFromClientToServer ==
  ASSUME Typed, DataFromClient, UNCHANGED client, NEW id \in Streams, ToServer(id)
  PROVE  ToServer(id)'
<1>1. PICK m : m = Head(DataIn)
  OBVIOUS
<1>2. /\ DataIn # << >> /\ m \in Message /\ m.kind = "TcpData" /\ DataIn' = Tail(DataIn)
      /\ \/ slot' = slot
         \/ slot[m.id] = << >> /\ slot' = [slot EXCEPT ![m.id] = <<m.data>>]
      /\ UNCHANGED <<server_sock, to_server, client_sock>>
  BY <1>1, DataFromClientEffect DEF channel, client
<1>3. DataIn \in Seq(Message)
  BY QueuesTyped
<1>4. Way(server_sock[id].written, << >>, slot[id], {}, DataIn, to_server, client_sock[id].read, id)
  BY DEF ToServer
<1>5. Way(server_sock[id].written, << >>, slot[id], {}, Tail(DataIn), to_server, client_sock[id].read, id)
  BY <1>2, <1>3, <1>4, WayDrops
<1>6. CASE slot'[id] = slot[id]
  BY <1>2, <1>5, <1>6 DEF ToServer
<1>7. CASE id = m.id /\ slot[id] = << >> /\ slot'[id] = <<m.data>>
  <2>1. IsData(Head(DataIn), id)
    BY <1>1, <1>2, <1>7 DEF IsData
  <2>2. Way(server_sock[id].written, << >>, << >>, {}, DataIn, to_server, client_sock[id].read, id)
    BY <1>4, <1>7
  <2>3. Way(server_sock[id].written, << >>, << >>, {m.data}, Tail(DataIn), to_server,
            client_sock[id].read, id)
    BY <1>1, <1>2, <1>3, <2>1, <2>2, WayTakes
  <2>4. Way(server_sock[id].written, << >>, <<m.data>>, {}, Tail(DataIn), to_server,
            client_sock[id].read, id)
    BY <2>3, WayHands
  <2> QED BY <1>2, <1>7, <2>4 DEF ToServer
<1>8. slot'[id] = slot[id] \/ (id = m.id /\ slot[id] = << >> /\ slot'[id] = <<m.data>>)
  BY <1>2 DEF Typed, TypeOK, ServerTypeOK
<1> QED BY <1>6, <1>7, <1>8

LEMMA TaskToServer ==
  ASSUME Typed, NEW a \in Streams, TaskWrite(a) \/ TaskWriterClosed(a) \/ TaskReadEnds(a),
         UNCHANGED client, NEW id \in Streams, ToServer(id)
  PROVE  ToServer(id)'
<1>1. /\ UNCHANGED serverQueues /\ slot' = [slot EXCEPT ![a] = << >>]
      /\ UNCHANGED to_server
  BY TaskWriteEffect, TaskEndsEffect DEF TaskWrite, channel
<1>2. /\ \A i \in Streams \ {a} : server_sock'[i] = server_sock[i]
      /\ \/ server_sock'[a].written = server_sock[a].written \o slot[a]
         \/ server_sock'[a].written = server_sock[a].written
  BY TaskWriteEffect, TaskEndsEffect
<1>3. UNCHANGED <<DataIn, client_sock>>
  BY <1>1 DEF serverQueues, client
<1>4. Way(server_sock[id].written, << >>, slot[id], {}, DataIn, to_server, client_sock[id].read, id)
  BY DEF ToServer
<1>5. CASE id # a
  <2>1. slot'[id] = slot[id] /\ server_sock'[id] = server_sock[id]
    BY <1>1, <1>2, <1>5 DEF Typed, TypeOK, ServerTypeOK
  <2> QED BY <1>1, <1>3, <2>1, ToServerKept
<1>6. CASE id = a
  <2>1. slot'[id] = << >>
    BY <1>1, <1>6 DEF Typed, TypeOK, ServerTypeOK
  <2>2. server_sock[id].written \in Seq(Nat) /\ slot[id] \in Seq(Nat) /\ Len(slot[id]) <= 1
    BY SocketsTyped
  <2>3. << >> \in Seq(Nat)
    BY EmptyTyped
  <2>4. Way(server_sock[id].written \o slot[id], << >>, << >>, {}, DataIn, to_server,
            client_sock[id].read, id)
    BY <1>4, <2>2, <2>3, WayWrites
  <2>5. Way(server_sock[id].written, << >>, << >>, {}, DataIn, to_server, client_sock[id].read, id)
    BY <1>4, WayForgets
  <2>6. Way(server_sock'[id].written, << >>, slot'[id], {}, DataIn, to_server, client_sock[id].read, id)
    BY <1>2, <1>6, <2>1, <2>4, <2>5
  <2> QED BY <1>1, <1>3, <2>6 DEF ToServer
<1> QED BY <1>5, <1>6

LEMMA ServerStepToServer ==
  ASSUME Typed, ServerStep, UNCHANGED client, NEW id \in Streams, ToServer(id)
  PROVE  ToServer(id)'
<1>1. ASSUME UNCHANGED <<to_server, DataIn, slot>>, server_sock'[id].written = server_sock[id].written
      PROVE  ToServer(id)'
  BY <1>1, ToServerKept DEF client
<1>2. ASSUME NEW a \in Streams, AcceptAtServer(a) PROVE ToServer(id)'
  <2>1. UNCHANGED <<DataIn, to_server, slot, server_sock>>
    BY <1>2, AcceptAtServerEffect DEF AcceptAtServer, channel
  <2> QED BY <1>1, <2>1
<1>3. ASSUME NEW a \in Streams, ServerPeer(a) PROVE ToServer(id)'
  BY <1>1, <1>3, ServerPeerEffect DEF serverQueues, channel
<1>4. ASSUME NEW a \in Streams, TaskRead(a) PROVE ToServer(id)'
  <2>1. UNCHANGED <<DataIn, to_server, slot>>
    BY <1>4, TaskReadEffect DEF channel
  <2>2. server_sock'[id].written = server_sock[id].written
    BY <1>4, TaskReadEffect
  <2> QED BY <1>1, <2>1, <2>2
<1>5. ASSUME NEW a \in Streams, JoinTask(a) PROVE ToServer(id)'
  <2>1. UNCHANGED <<DataIn, to_server, slot, server_sock>>
    BY <1>5, JoinTaskEffect DEF channel
  <2> QED BY <1>1, <2>1
<1>6. CASE PollNext
  <2>1. UNCHANGED <<DataIn, to_server, slot, server_sock>>
    BY <1>6, PollNextEffect DEF serverQueues, channel
  <2> QED BY <1>1, <2>1
<1>7. CASE OpenFromClient \/ NewTcpStream
  <2>1. UNCHANGED <<DataIn, to_server, slot, server_sock>>
    BY <1>7, OpenFromClientEffect, NewTcpStreamEffect DEF channel
  <2> QED BY <1>1, <2>1
<1>8. CASE SendToClient
  <2>1. UNCHANGED <<DataIn, to_server, slot, server_sock>>
    BY <1>8, SendToClientEffect
  <2> QED BY <1>1, <2>1
<1>9. CASE CloseFromClient
  <2>1. UNCHANGED <<DataIn, to_server, slot, server_sock>>
    BY <1>9, CloseFromClientEffect DEF channel
  <2> QED BY <1>1, <2>1
<1> QED BY <1>2, <1>3, <1>4, <1>5, <1>6, <1>7, <1>8, <1>9, ReceiveToServer, DataFromClientToServer,
           TaskToServer DEF ServerStep

LEMMA StepToServer ==
  ASSUME Typed, [Next]_vars, NEW id \in Streams, ToServer(id)
  PROVE  ToServer(id)'
<1>1. CASE ServerStep /\ UNCHANGED client
  BY <1>1, ServerStepToServer
<1>2. CASE UNCHANGED <<server, client, channel>>
  <2>1. UNCHANGED <<to_server, DataIn, client_sock, server_sock, slot>>
    BY <1>2, IdleTyped DEF serverQueues, server, client, channel
  <2> QED BY <2>1, ToServerKept
<1>3. CASE ClientStep /\ UNCHANGED server
  <2>1. ASSUME UNCHANGED serverQueues, client_sock'[id].read = client_sock[id].read,
               \/ to_server' = to_server
               \/ \E a \in Streams : \/ to_server' = Append(to_server, close_tcp_stream(a))
                                     \/ to_server' = Append(to_server, open_tcp_stream(a))
        PROVE  ToServer(id)'
    <3>1. UNCHANGED <<DataIn, server_sock, slot>>
      BY <1>3, <2>1 DEF serverQueues, server
    <3> QED BY <2>1, <3>1, ToServerPasses
  <2>2. CASE handle_open_from_server
    BY <1>3, <2>1, <2>2, HandleOpenEffect
  <2>3. CASE handle_close_from_server
    BY <1>3, <2>1, <2>3, HandleCloseEffect
  <2>4. CASE handle_data_from_server
    BY <1>3, <2>1, <2>4, HandleDataEffect
  <2>5. CASE SendToWriter
    BY <1>3, <2>1, <2>5, SendToWriterEffect DEF channel
  <2>6. ASSUME NEW a \in Streams, handle_new_stream_established(a) PROVE ToServer(id)'
    BY <1>3, <2>1, <2>6, EstablishedEffect
  <2>7. ASSUME NEW a \in Streams, handle_stream_result(a) PROVE ToServer(id)'
    BY <1>3, <2>1, <2>7, ResultEffect
  <2>8. ASSUME NEW a \in Streams, AcceptAtClient(a) \/ Connect(a) PROVE ToServer(id)'
    BY <1>3, <2>1, <2>8, StarterEffect
  <2>9. ASSUME NEW a \in Streams, WriteReturns(a) \/ WriterReceives(a) PROVE ToServer(id)'
    BY <1>3, <2>1, <2>9, WriteReturnsEffect, WriterReceivesEffect DEF channel
  <2>10. ASSUME NEW a \in Streams, WriteThreadEnds(a) \/ ClientPeer(a) PROVE ToServer(id)'
    <3>1. UNCHANGED serverQueues /\ to_server' = to_server
      BY <1>3, <2>10, WriteThreadEndsEffect, ClientPeerEffect DEF channel
    <3>2. client_sock'[id].read = client_sock[id].read
      BY <1>3, <2>10, WriteThreadEndsEffect, ClientPeerEffect
    <3> QED BY <2>1, <3>1, <3>2
  <2> QED BY <1>3, <2>2, <2>3, <2>4, <2>5, <2>6, <2>7, <2>8, <2>9, <2>10, ReadThreadToServer
             DEF ClientStep
<1> QED BY <1>1, <1>2, <1>3, Steps

-----------------------------------------------------------------------------
\* All that is kept of a stream.  None of the parts is inductive alone: that a
\* thread starts once rests on the open coming once, that a state is not left
\* early on the close coming once, and the order of the data on both.
StreamOK(id) ==
  /\ OpenedOnce(id) /\ Threads(id) /\ Closes(id) /\ Tables(id) /\ Halves(id)
  /\ ToClient(id) /\ ToServer(id)

TunnelIInv == Typed /\ \A id \in Streams : StreamOK(id)

LEMMA InitStreamOK ==
  ASSUME Init, NEW id \in Streams
  PROVE  StreamOK(id)
<1>1. /\ to_client = << >> /\ to_server = << >> /\ OpensIn = << >> /\ NewStreams = << >>
      /\ OpensOut = << >> /\ ClosesIn = << >> /\ ClosesOut = << >> /\ DataIn = << >> /\ DataOut = << >>
  BY QueueNames DEF Init, ServerInit, OpensIn, NewStreams, OpensOut, ClosesIn, ClosesOut, DataIn, DataOut
<1>2. /\ task[id] = "none" /\ starter[id] = "none" /\ streams[id] = "none" /\ reader[id] = "none"
      /\ writer[id] = "none" /\ queued[id] = << >> /\ buffer[id] = << >> /\ slot[id] = << >>
      /\ main = Idle /\ txs = {} /\ closed_by_client = {}
      /\ server_sock[id] = NewSocket /\ client_sock[id] = NewSocket
  BY DEF Init, ServerInit, ClientInit
<1>3. \A k : ~Has(<< >>, k, id) /\ Once(<< >>, k, id)
  BY DEF Has, Once
<1>4. OpenedOnce(id)
  BY <1>1, <1>2, <1>3 DEF OpenedOnce, Asked, Offered, HasOpen, OneOpen
<1>5. Threads(id)
  BY <1>2 DEF Threads
<1>6. Closes(id)
  <2>1. CloseIsLast(<< >>, id)
    BY DEF CloseIsLast
  <2> QED BY <1>1, <1>3, <2>1 DEF Closes, ClosedOnce, Drained, Closing, HasClose, OneClose, HasData
<1>7. Tables(id) /\ Halves(id)
  BY <1>2 DEF Tables, Halves
<1>8. Way(<< >>, << >>, << >>, {}, << >>, << >>, 0, id)
  <2>1. Chain({}, {}, {}, {}, {}, {}, 0)
    BY DEF Chain, Below
  <2> QED BY <2>1, EmptyValues DEF Way
<1>9. NewSocket.written = << >> /\ NewSocket.read = 0
  BY DEF NewSocket
<1>10. InHand(id) = {}
  BY <1>2 DEF InHand
<1>11. ToClient(id) /\ ToServer(id)
  BY <1>1, <1>2, <1>8, <1>9, <1>10 DEF ToClient, ToServer
<1> QED BY <1>4, <1>5, <1>6, <1>7, <1>11 DEF StreamOK

LEMMA StepStreamOK ==
  ASSUME Typed, [Next]_vars, NEW id \in Streams, StreamOK(id)
  PROVE  StreamOK(id)'
<1>1. OpenedOnce(id) /\ Threads(id) /\ Closes(id) /\ Tables(id) /\ Halves(id) /\ ToClient(id) /\ ToServer(id)
  BY DEF StreamOK
<1>2. OpenedOnce(id)' /\ Closes(id)'
  BY <1>1, StepOpens, StepCloses DEF ClosesNext
<1>3. Threads(id)' /\ Tables(id)' /\ Halves(id)'
  BY <1>1, StepThreads, StepTables, StepHalves
<1>4. ToClient(id)' /\ ToServer(id)'
  BY <1>1, StepToClient, StepToServer
<1> QED BY <1>2, <1>3, <1>4 DEF StreamOK

\* The invariant of the tunnel holds in every state.
LEMMA TunnelInductive == Spec => []TunnelIInv
<1>1. Init => TunnelIInv
  BY InitTyped, InitStreamOK DEF TunnelIInv
<1>2. TunnelIInv /\ [Next]_vars => TunnelIInv'
  BY StepTyped, StepStreamOK DEF TunnelIInv
<1> QED BY <1>1, <1>2, PTL DEF Spec

\* Of any number of streams, each delivers its pieces at most once and in order,
\* both ways, whatever is lost when a socket fails and however data that came
\* before the connection was queued.
THEOREM TunnelDataInOrder == Spec => []DataInOrder
<1>1. TunnelIInv => DataInOrder
  BY DEF TunnelIInv, StreamOK, ToClient, ToServer, Way, DataInOrder
<1> QED BY <1>1, TunnelInductive, PTL

\* The biased select never sends data of a stream behind its close, although the
\* two wait in queues of their own.
THEOREM CloseComesLast == Spec => []DataBeforeClose
<1>1. TunnelIInv => DataBeforeClose
  <2> SUFFICES ASSUME TunnelIInv, NEW i \in DOMAIN to_client, NEW j \in DOMAIN to_client, i < j,
                      to_client[i].kind = "CloseTcp", to_client[j].kind = "TcpData"
               PROVE  to_client[i].id # to_client[j].id
    BY DEF DataBeforeClose
  <2>1. to_client \in Seq(Message)
    BY QueuesTyped DEF TunnelIInv
  <2>2. PICK m \in Message : m = to_client[i]
    BY <2>1
  <2>3. m.id \in Streams
    BY <2>2 DEF Message
  <2>4. CloseIsLast(to_client, m.id)
    BY <2>3 DEF TunnelIInv, StreamOK, Closes, Drained
  <2> QED BY <2>2, <2>4 DEF CloseIsLast
<1> QED BY <1>1, TunnelInductive, PTL

\* The server's table of streams the client closed and the client's map of states
\* agree with the tasks and the threads that still run.
THEOREM TrackedWhileBusy == Spec => []StreamsTracked
<1>1. TunnelIInv => StreamsTracked
  <2> SUFFICES ASSUME TunnelIInv PROVE StreamsTracked
    OBVIOUS
  <2>1. ASSUME NEW id \in closed_by_client
        PROVE  id \notin txs /\ task[id] \in {"running", "finished"}
    <3>1. id \in Streams
      BY DEF TunnelIInv, Typed, TypeOK, ServerTypeOK
    <3> QED BY <3>1 DEF TunnelIInv, StreamOK, Tables
  <2>2. ASSUME NEW id \in Streams, streams[id] = "none", starter[id] = "done"
        PROVE  reader[id] \in {"none", "done"} /\ writer[id] \in {"none", "done"}
    BY <2>2 DEF TunnelIInv, StreamOK, Halves, Threads
  <2> QED BY <2>1, <2>2 DEF StreamsTracked
<1> QED BY <1>1, TunnelInductive, PTL

=============================================================================
