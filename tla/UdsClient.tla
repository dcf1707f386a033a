------------------------------ MODULE UdsClient ------------------------------
(***************************************************************************)
(* UdsProtocolLayer on a CAN bus: a request is one frame, and the first    *)
(* frame received after it is its answer.  The ECU answers requests in     *)
(* order, a slow one with "response pending" first; other nodes send       *)
(* frames of their own; a bus with loopback (the default) also returns the *)
(* tester's own frames.                                                    *)
(***************************************************************************)
EXTENDS Integers, Sequences

CONSTANTS MaxUdsRequests, \* bound: how many requests are sent
          MaxFrames       \* bound: frames in the driver's receive buffer

ASSUME UdsBoundsAssumption == MaxUdsRequests \in Nat /\ MaxFrames \in Nat

Sources == {"ecu", "other", "self"}

VARIABLES loopback,      \* the bus returns own frames
          frames,        \* frames received by the driver
          unanswered,    \* requests the ECU has not finished, in order
          raw,           \* the last request is one of sendRequestEx
          waiting,       \* sendRequest or sendRequestEx waits for a frame
          taken,         \* the frame the last request took, NoFrame if none
          txCount, rxCount, timeoutCount, nrcCount,
          misled         \* history: how many frames were taken that are no final answer

udsVars == <<loopback, frames, unanswered, raw, waiting, taken, txCount, rxCount, timeoutCount,
             nrcCount, misled>>

NoFrame == [from |-> "nobody", id |-> 0, kind |-> "none"]

UdsInit ==
  /\ loopback \in BOOLEAN
  /\ frames = <<>> /\ unanswered = <<>> /\ raw = FALSE /\ waiting = FALSE /\ taken = NoFrame
  /\ txCount = 0 /\ rxCount = 0 /\ timeoutCount = 0 /\ nrcCount = 0 /\ misled = 0

\* sendRequest or sendRequestEx sends; the frame comes back on a bus with loopback.
SendRequest ==
  LET id == txCount + 1 IN
    /\ ~waiting /\ txCount < MaxUdsRequests
    /\ loopback => Len(frames) < MaxFrames
    /\ raw' \in BOOLEAN
    /\ txCount' = id /\ waiting' = TRUE /\ taken' = NoFrame
    /\ unanswered' = Append(unanswered, id)
    /\ frames' = IF loopback THEN Append(frames, [from |-> "self", id |-> id, kind |-> "request"])
                             ELSE frames
    /\ UNCHANGED <<loopback, rxCount, timeoutCount, nrcCount, misled>>

Arrives(from, id, kind) ==
  /\ Len(frames) < MaxFrames
  /\ frames' = Append(frames, [from |-> from, id |-> id, kind |-> kind])
  /\ UNCHANGED <<loopback, raw, waiting, taken, txCount, rxCount, timeoutCount, nrcCount, misled>>

EcuAnswers ==
  /\ unanswered # <<>>
  /\ \E kind \in {"positive", "negative"} : Arrives("ecu", unanswered[1], kind)
  /\ unanswered' = Tail(unanswered)

EcuPends ==
  /\ unanswered # <<>>
  /\ Arrives("ecu", unanswered[1], "pending")
  /\ UNCHANGED unanswered

OtherNode ==
  /\ Arrives("other", 0, "positive")
  /\ UNCHANGED unanswered

\* A mutant: the frame stays in the buffer.
MutantRest == frames

Received == frames[1]
Rest == Tail(frames)

CountFrame == rxCount' = rxCount + 1

\* The ECU's last word on a request; "pending" is not.
Final(frame) == frame.from = "ecu" /\ frame.kind # "pending"

\* The first frame is the answer, whoever sent it.  sendRequest fails on a negative
\* response, "pending" included; sendRequestEx does not look.
UdsReceive ==
  /\ waiting /\ frames # <<>>
  /\ frames' = Rest
  /\ taken' = Received
  /\ waiting' = FALSE
  /\ CountFrame
  /\ nrcCount' = nrcCount + (IF ~raw /\ Received.kind \in {"negative", "pending"} THEN 1 ELSE 0)
  /\ misled' = misled + (IF Final(Received) THEN 0 ELSE 1)
  /\ UNCHANGED <<loopback, unanswered, raw, txCount, timeoutCount>>

UdsTimeout ==
  /\ waiting /\ frames = <<>>
  /\ waiting' = FALSE
  /\ timeoutCount' = timeoutCount + 1
  /\ UNCHANGED <<loopback, frames, unanswered, raw, taken, txCount, rxCount, nrcCount, misled>>

UdsNext ==
  \/ SendRequest \/ UdsReceive \/ UdsTimeout
  \/ EcuAnswers \/ EcuPends \/ OtherNode

UdsSpec == UdsInit /\ [][UdsNext]_udsVars

-------------------------------------------------------------------------------

\* Types; every request sent is answered, timed out or waited for.
UdsTypeOK ==
  /\ Len(frames) <= MaxFrames /\ \A i \in DOMAIN frames : frames[i].from \in Sources
  /\ {loopback, raw, waiting} \subseteq BOOLEAN /\ misled \in 0..rxCount
  /\ txCount \in 0..MaxUdsRequests /\ nrcCount \in 0..rxCount
  /\ txCount = rxCount + timeoutCount + (IF waiting THEN 1 ELSE 0)

\* Whose answer a request takes (UdsProtocolLayer.cpp:114-126), on a bus with other nodes,
\* echoes, "response pending" and late answers: an answer of the ECU is late by
\* exactly as many requests as timed out before or took a frame that is no final
\* answer.  So a request gets its own answer if none did, and once one did, no later
\* request ever gets its own final answer.
LagExact ==
  taken.from = "ecu" =>
    txCount - taken.id = timeoutCount + misled - (IF Final(taken) THEN 0 ELSE 1)

\* Answers and the counts of them are right.
ClientSound == UdsTypeOK /\ LagExact
===============================================================================
