------------------------------ MODULE DoipLayer ------------------------------
(***************************************************************************)
(* DoipProtocolLayer over a TCP connection to a vehicle: what is sent, the *)
(* frames cut from the byte stream, and which frame is taken as the answer *)
(* to a request.  The vehicle answers requests in order, with any number   *)
(* of acknowledgements and "response pending" first, and may be slow; the  *)
(* connection may be lost.  A frame travels in two parts, its header and   *)
(* its payload; a read returns what has arrived so far.                    *)
(*                                                                         *)
(* A thread in an exchange has sent a request and waits in receiveTcpFrame *)
(* for its answer.  The threads themselves are in DoipMaster.              *)
(***************************************************************************)
EXTENDS Integers, Sequences, FiniteSets

CONSTANTS Nothing,    \* no message, no exchange
          MaxFlight   \* bound: parts on their way to the tester

Threads == {"step", "keeper"}
Services == {"business", "tester"}
Ops == {"routing"} \cup Services

\* No exchange is mistaken for none.
ASSUME DoipNamesAssumption == Nothing \notin [id : Nat, op : Ops, expired : BOOLEAN]

Kinds == {"routingOk", "routingDenied", "ack", "nack", "pending", "final"}

VARIABLES linked,      \* the TCP connection is up
          stream,      \* parts on their way from the vehicle
          rxBuffer,    \* rxBuffer_
          owed,        \* requests the vehicle has not finished, in order
          ecuRouting,  \* the vehicle has activated routing on this connection
          requests,    \* how many requests were sent on this connection
          exchange,    \* what each thread waits for, or Nothing
          answer       \* what its last exchange ended with, Nothing if it failed

layerVars == <<linked, stream, rxBuffer, owed, ecuRouting, requests, exchange, answer>>

LayerInit ==
  /\ linked = FALSE /\ ecuRouting = FALSE
  /\ stream = <<>> /\ rxBuffer = <<>> /\ owed = <<>>
  /\ requests = 0
  /\ exchange = [t \in Threads |-> Nothing]
  /\ answer = [t \in Threads |-> Nothing]

\* A new driver connects and a new layer is bound to it.
LinkUp ==
  /\ linked' = TRUE /\ ecuRouting' = FALSE
  /\ stream' = <<>> /\ rxBuffer' = <<>> /\ owed' = <<>> /\ requests' = 0
  /\ UNCHANGED <<exchange, answer>>

\* Both are shut down.
LinkDown ==
  /\ linked' = FALSE /\ ecuRouting' = FALSE
  /\ stream' = <<>> /\ rxBuffer' = <<>> /\ owed' = <<>> /\ requests' = 0
  /\ UNCHANGED <<exchange, answer>>

\* The peer or the network drops the connection.
LinkLost ==
  /\ linked
  /\ linked' = FALSE /\ ecuRouting' = FALSE
  /\ stream' = <<>> /\ owed' = <<>>
  /\ UNCHANGED <<rxBuffer, requests, exchange, answer>>

\* sendTcpFrame: the request goes out and t waits, or there is no connection.
Request(t, op) ==
  LET n == requests + 1 IN
    /\ answer' = [answer EXCEPT ![t] = Nothing]
    /\ IF linked
       THEN /\ requests' = n
            /\ owed' = Append(owed, [id |-> n, op |-> op])
            /\ exchange' = [exchange EXCEPT ![t] = [id |-> n, op |-> op, expired |-> FALSE]]
       ELSE UNCHANGED <<requests, owed, exchange>>
    /\ UNCHANGED <<linked, stream, rxBuffer, ecuRouting>>

-------------------------------------------------------------------------------
(***************************************************************************)
(* The vehicle.                                                            *)
(***************************************************************************)

FinalKinds(op) ==
  IF op = "routing" THEN {"routingOk", "routingDenied"} ELSE {"final", "nack"}

SendsKind(kind) ==
  LET msg == [id |-> owed[1].id, op |-> owed[1].op, kind |-> kind] IN
    /\ Len(stream) + 2 <= MaxFlight
    /\ stream' = stream \o <<[msg |-> msg, part |-> "header"], [msg |-> msg, part |-> "payload"]>>
    /\ UNCHANGED <<linked, rxBuffer, requests, exchange, answer>>

EcuGoesOn ==
  /\ linked /\ owed # <<>> /\ owed[1].op # "routing"
  /\ \E kind \in {"ack", "pending"} : SendsKind(kind)
  /\ UNCHANGED <<owed, ecuRouting>>

EcuFinishes ==
  /\ linked /\ owed # <<>>
  /\ \E kind \in FinalKinds(owed[1].op) :
       /\ SendsKind(kind)
       /\ ecuRouting' = (ecuRouting \/ kind = "routingOk")
  /\ owed' = Tail(owed)

-------------------------------------------------------------------------------
(***************************************************************************)
(* receiveTcpFrame and the two requests that call it.                      *)
(***************************************************************************)

HasFrame == Len(rxBuffer) >= 2

Ends(t, result) ==
  /\ exchange' = [exchange EXCEPT ![t] = Nothing]
  /\ answer' = [answer EXCEPT ![t] = result]

\* No complete frame yet: read what has arrived.
ReadStream(t) ==
  /\ exchange[t] # Nothing /\ ~HasFrame /\ linked
  /\ \E k \in 1..Len(stream) :
       /\ rxBuffer' = rxBuffer \o SubSeq(stream, 1, k)
       /\ stream' = SubSeq(stream, k + 1, Len(stream))
  /\ UNCHANGED <<linked, owed, ecuRouting, requests, exchange, answer>>

\* The read times out, or the connection is gone; a part of a frame is kept.
ReceiveFails(t) ==
  /\ exchange[t] # Nothing /\ ~HasFrame
  /\ Ends(t, Nothing)
  /\ UNCHANGED <<linked, stream, rxBuffer, owed, ecuRouting, requests>>

\* The time of the whole request is over.
Expire(t) ==
  /\ exchange[t] # Nothing /\ exchange[t].op # "routing" /\ ~exchange[t].expired
  /\ exchange' = [exchange EXCEPT ![t].expired = TRUE]
  /\ UNCHANGED <<linked, stream, rxBuffer, owed, ecuRouting, requests, answer>>

\* A mutant: only acknowledgements are skipped.
MutantIntermediate(x, msg) == msg.kind = "ack"

\* Frames sendDiagnosticMessage skips: an acknowledgement, and a "pending" that
\* names the service that was asked for.
Intermediate(x, msg) == msg.kind = "ack" \/ (msg.kind = "pending" /\ msg.op = x.op)

\* Frames that are taken as the answer: any diagnostic message, whoever asked.
Accepted(x, msg) ==
  IF x.op = "routing" THEN msg.kind = "routingOk" ELSE msg.kind \in {"final", "pending"}

\* It goes on waiting, unless its time is over.
Skip(t, msg) ==
  /\ exchange[t].op # "routing" /\ Intermediate(exchange[t], msg)
  /\ IF exchange[t].expired THEN Ends(t, Nothing) ELSE UNCHANGED <<exchange, answer>>

Conclude(t, msg) ==
  /\ exchange[t].op = "routing" \/ ~Intermediate(exchange[t], msg)
  /\ Ends(t, IF Accepted(exchange[t], msg) THEN msg ELSE Nothing)

TakeFrame(t) ==
  /\ exchange[t] # Nothing /\ HasFrame
  /\ rxBuffer' = SubSeq(rxBuffer, 3, Len(rxBuffer))
  /\ (Skip(t, rxBuffer[1].msg) \/ Conclude(t, rxBuffer[1].msg))
  /\ UNCHANGED <<linked, stream, owed, ecuRouting, requests>>

\* The thread goes on with what the exchange ended with.
Consume(t) ==
  /\ exchange[t] = Nothing
  /\ answer' = [answer EXCEPT ![t] = Nothing]
  /\ UNCHANGED <<linked, stream, rxBuffer, owed, ecuRouting, requests, exchange>>

Exchanging(t) == ReadStream(t) \/ ReceiveFails(t) \/ TakeFrame(t)

LayerNext ==
  \/ LinkLost \/ EcuGoesOn \/ EcuFinishes
  \/ \E t \in Threads : Exchanging(t) \/ Expire(t)

-------------------------------------------------------------------------------

\* What is buffered and on its way is whole frames, each header with its own
\* payload, in the order they were sent: the cut never slips, however the reads
\* fall and whichever of them time out (DoipProtocolLayer.cpp:646-672).
FramesWhole ==
  linked =>
    LET parts == rxBuffer \o stream IN
      /\ Len(parts) % 2 = 0
      /\ \A i \in 1..Len(parts) : (i % 2 = 1) <=> parts[i].part = "header"
      /\ \A i \in 1..Len(parts) - 1 :
           IF i % 2 = 1 THEN parts[i].msg = parts[i + 1].msg
                        ELSE parts[i].msg.id <= parts[i + 1].msg.id
===============================================================================
