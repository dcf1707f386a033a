----------------------------- MODULE ModbusMaster -----------------------------
(***************************************************************************)
(* The ModbusMaster plugin: steps of several workflows, run by several     *)
(* threads of one process, share the connections, one per connection key.  *)
(* A step holds the mutex of its connection from the opening of the        *)
(* transport to the judgement of the answer; a step that failed closes the *)
(* transport, and the end of a workflow those nobody refers to any more.   *)
(*                                                                         *)
(* An answer is the pieces it may arrive in: on TCP the MBAP header, the   *)
(* function code with the byte next to it, and the rest; on a serial line  *)
(* the same without a header.  An exception has no rest.  A connection is  *)
(* the number of its entry in the pool, 0 for none.                        *)
(***************************************************************************)
EXTENDS Integers, Sequences, SequencesExt

CONSTANTS MbThreads,      \* the threads that execute steps
          MbWorkflowOf,   \* the workflow of each thread
          MbTransport,    \* "tcp" or "rtu", of each connection key
          Nobody,         \* no thread
          MaxMbEntries,   \* bound: entries made in the pool
          MaxMbRequests   \* bound: steps begun

ASSUME ModbusBoundsAssumption == MaxMbEntries \in Nat /\ MaxMbRequests \in Nat

MbKeys == DOMAIN MbTransport
MbWorkflows == {MbWorkflowOf[t] : t \in MbThreads}
MbEntries == 1..MaxMbEntries

ASSUME ModbusNamesAssumption == MbKeys # {} /\ Nobody \notin MbThreads

\* Function codes: 1; 2, 3 and 4, which read alike; writes (5, 6, 15, 16).
Functions == {"coils", "words", "write"}

VARIABLES mbPool,      \* s_connections: the entry of each key
          mbMade,      \* how many entries were made
          mbKey,       \* the key of each entry
          mbRefs,      \* its workflows
          mbLock,      \* who holds its ioMutex
          mbLink,      \* its transport: none, up, or dropped by the peer
          mbOwed,      \* pieces the device has yet to deliver on it
          mbInput,     \* pieces that arrived and were not read
          mbCut,       \* whether a step took its answer and left a piece of it
          mbRequests,  \* how many steps were begun
          mbAt,        \* where each thread is in executeStep
          mbConn,      \* its entry
          mbRequest,   \* the number of its step
          mbTook,      \* the pieces it read
          mbResult     \* whose answer its last step succeeded with, "none" if it failed

mbPoolVars == <<mbPool, mbMade, mbKey, mbRefs>>
mbLineVars == <<mbLink, mbOwed, mbInput, mbCut>>
mbVars == <<mbPoolVars, mbLock, mbLineVars, mbRequests, mbAt, mbConn, mbRequest, mbTook, mbResult>>

MbInit ==
  /\ mbPool = [k \in MbKeys |-> 0]
  /\ mbMade = 0
  /\ mbKey \in [MbEntries -> {CHOOSE k \in MbKeys : TRUE}]
  /\ mbRefs = [c \in MbEntries |-> {}]
  /\ mbLock = [c \in MbEntries |-> Nobody]
  /\ mbLink = [c \in MbEntries |-> "none"]
  /\ mbOwed = [c \in MbEntries |-> << >>]
  /\ mbInput = [c \in MbEntries |-> << >>]
  /\ mbCut = [c \in MbEntries |-> FALSE]
  /\ mbRequests = 0
  /\ mbAt = [t \in MbThreads |-> "idle"]
  /\ mbConn = [t \in MbThreads |-> 0]
  /\ mbRequest = [t \in MbThreads |-> 0]
  /\ mbTook = [t \in MbThreads |-> << >>]
  /\ mbResult = [t \in MbThreads |-> "none"]

Tcp(c) == MbTransport[mbKey[c]] = "tcp"

MbGoes(t, place) == mbAt' = [mbAt EXCEPT ![t] = place]

\* A step begins: it finds the entry of its key or makes one, and its workflow
\* refers to it.
BeginRequest(t) ==
  \E k \in MbKeys :
    /\ mbAt[t] = "idle" /\ mbRequests < MaxMbRequests
    /\ mbPool[k] = 0 => mbMade < MaxMbEntries
    /\ mbMade' = mbMade + IF mbPool[k] = 0 THEN 1 ELSE 0
    /\ LET c == IF mbPool[k] = 0 THEN mbMade' ELSE mbPool[k] IN
         /\ mbPool' = [mbPool EXCEPT ![k] = c]
         /\ mbKey' = [mbKey EXCEPT ![c] = k]
         /\ mbRefs' = [mbRefs EXCEPT ![c] = @ \cup {MbWorkflowOf[t]}]
         /\ mbConn' = [mbConn EXCEPT ![t] = c]
    /\ mbRequests' = mbRequests + 1
    /\ mbRequest' = [mbRequest EXCEPT ![t] = mbRequests']
    /\ mbResult' = [mbResult EXCEPT ![t] = "none"]
    /\ MbGoes(t, "lock")
    /\ UNCHANGED <<mbLock, mbLineVars, mbTook>>

LockEntry(t) ==
  /\ mbAt[t] = "lock" /\ mbLock[mbConn[t]] = Nobody
  /\ mbLock' = [mbLock EXCEPT ![mbConn[t]] = t]
  /\ MbGoes(t, "open")
  /\ UNCHANGED <<mbPoolVars, mbLineVars, mbRequests, mbConn, mbRequest, mbTook, mbResult>>

\* executeStep returns: its mutex is free again.
Returns(t, result) ==
  /\ mbResult' = [mbResult EXCEPT ![t] = result]
  /\ mbTook' = [mbTook EXCEPT ![t] = << >>]
  /\ mbRequest' = [mbRequest EXCEPT ![t] = 0]
  /\ mbLock' = [mbLock EXCEPT ![mbConn[t]] = Nobody]
  /\ mbConn' = [mbConn EXCEPT ![t] = 0]
  /\ MbGoes(t, "idle")
  /\ UNCHANGED <<mbPoolVars, mbRequests>>

\* A transport is opened if the entry has none, and this may fail: the step
\* returns.  One the peer has dropped is one.
OpenTransport(t) ==
  LET c == mbConn[t] IN
    /\ mbAt[t] = "open"
    /\ \/ /\ mbLink' = [mbLink EXCEPT ![c] = IF @ = "none" THEN "up" ELSE @]
          /\ MbGoes(t, "send")
          /\ UNCHANGED <<mbPoolVars, mbLock, mbRequests, mbConn, mbRequest, mbTook, mbResult>>
       \/ /\ mbLink[c] = "none"
          /\ Returns(t, "none")
          /\ UNCHANGED mbLink
    /\ UNCHANGED <<mbOwed, mbInput, mbCut>>

Pieces(request, transport, kind) ==
  LET piece(part) == [request |-> request, kind |-> kind, part |-> part] IN
    (IF transport = "tcp" THEN <<piece("mbap")>> ELSE << >>)
      \o (CASE kind = "values" -> <<piece("head"), piece("rest")>>
            [] kind = "exception" -> <<piece("head")>>)

\* writeFrame: a TCP connection that was dropped is opened anew, and what it had
\* delivered is lost.  The device answers with values, an exception or not at all.
SendRequestFrame(t) ==
  LET c == mbConn[t] IN
    /\ mbAt[t] = "send"
    /\ mbLink' = [mbLink EXCEPT ![c] = "up"]
    /\ \E answer \in {<< >>} \cup {Pieces(mbRequest[t], MbTransport[mbKey[c]], kind) :
                                     kind \in {"values", "exception"}} :
         mbOwed' = [mbOwed EXCEPT ![c] = @ \o answer]
    /\ mbInput' = [mbInput EXCEPT ![c] = IF mbLink[c] = "dropped" THEN << >> ELSE @]
    /\ MbGoes(t, "wait")
    /\ UNCHANGED <<mbPoolVars, mbLock, mbCut, mbRequests, mbConn, mbRequest, mbTook, mbResult>>

\* TCP: seven bytes are read and taken for the MBAP header, unless what is left of
\* a cut answer is shorter.
ReadHeader(t) ==
  LET c == mbConn[t] IN
    /\ mbAt[t] = "wait" /\ Tcp(c) /\ mbInput[c] # << >>
    /\ mbTook' = [mbTook EXCEPT ![t] = <<Head(mbInput[c])>>]
    /\ mbInput' = [mbInput EXCEPT ![c] = Tail(@)]
    /\ MbGoes(t, "body")
    /\ UNCHANGED <<mbPoolVars, mbLock, mbLink, mbOwed, mbCut, mbRequests, mbConn, mbRequest, mbResult>>

\* What has arrived is read, up to the length in the header; as that counts the
\* unit id, which is read already, a byte is always missing.  Serial: all is read.
ReadArrived(t) ==
  LET c == mbConn[t] IN
    /\ \/ mbAt[t] = "body"
       \/ mbAt[t] = "wait" /\ ~Tcp(c) /\ mbInput[c] # << >>
    /\ mbTook' = [mbTook EXCEPT ![t] = @ \o mbInput[c]]
    /\ mbInput' = [mbInput EXCEPT ![c] = << >>]
    /\ MbGoes(t, "rest")
    /\ UNCHANGED <<mbPoolVars, mbLock, mbLink, mbOwed, mbCut, mbRequests, mbConn, mbRequest, mbResult>>

\* The wait for the rest, 500 ms on TCP and 20 ms on a serial line: once on TCP,
\* on a serial line until nothing comes.
ReadRest(t) ==
  LET c == mbConn[t] IN
    /\ mbAt[t] = "rest"
    /\ mbTook' = [mbTook EXCEPT ![t] = @ \o mbInput[c]]
    /\ mbInput' = [mbInput EXCEPT ![c] = << >>]
    /\ MbGoes(t, IF Tcp(c) \/ mbInput[c] = << >> THEN "judge" ELSE "rest")
    /\ UNCHANGED <<mbPoolVars, mbLock, mbLink, mbOwed, mbCut, mbRequests, mbConn, mbRequest, mbResult>>

-------------------------------------------------------------------------------
\* The judgement.

Parts(took) == {p.part : p \in ToSet(took)}

\* What the read and write functions make of an answer.  Over TCP coils need 12
\* bytes, more than an exception or 16 coils have; the check for an exception looks
\* at the function code only over TCP, on a serial line at the slave id.  The others
\* take every answer, with as many values as it holds; without its head they read
\* past its end.
Accepting(transport, f, took) ==
  CASE f = "coils" /\ transport = "tcp" -> IF {"head", "rest"} \subseteq Parts(took) THEN BOOLEAN
                                           ELSE {FALSE}
    [] f = "coils" /\ transport = "rtu" -> {"rest" \in Parts(took) \/ Last(took).kind = "exception"}
    [] f = "words" -> IF "head" \in Parts(took) THEN {TRUE} ELSE BOOLEAN
    [] f = "write" -> {TRUE}

\* A mutant: the transport of a step that failed stays.
MutantCloseTransport(c) == UNCHANGED <<mbLink, mbInput, mbOwed, mbCut>>

\* handle.close() after a failure.  What a device on a serial line still sends
\* arrives later; what a TCP peer sends is lost.
CloseTransport(c) ==
  /\ mbLink' = [mbLink EXCEPT ![c] = "none"]
  /\ mbInput' = [mbInput EXCEPT ![c] = << >>]
  /\ mbOwed' = [mbOwed EXCEPT ![c] = IF Tcp(c) THEN << >> ELSE @]
  /\ mbCut' = [mbCut EXCEPT ![c] = ~Tcp(c) /\ mbOwed[c] # << >>]

\* No answer in time, a header too short, a lost connection, an unsupported function
\* code or a failed write: the step fails.
RequestFails(t) ==
  /\ mbAt[t] \in {"send", "wait"}
  /\ CloseTransport(mbConn[t])
  /\ Returns(t, "none")

\* What a step that succeeds has read, on a connection nothing was left on.
AnswerOf(t) ==
  IF \E p \in ToSet(mbTook[t]) : p.request # mbRequest[t] THEN "foreign" ELSE Last(mbTook[t]).kind

Judge(t) ==
  LET c == mbConn[t]
      left == mbInput[c] # << >> \/ mbOwed[c] # << >>
  IN  /\ mbAt[t] = "judge"
      /\ \E f \in Functions : \E accepted \in Accepting(MbTransport[mbKey[c]], f, mbTook[t]) :
           IF accepted
           THEN \* The values may not decode: the step fails and the transport stays.
                /\ \E decoded \in BOOLEAN :
                     Returns(t, IF decoded /\ ~mbCut[c] THEN AnswerOf(t) ELSE "none")
                /\ mbCut' = [mbCut EXCEPT ![c] = left \/ (Tcp(c) /\ @)]
                /\ UNCHANGED <<mbLink, mbInput, mbOwed>>
           ELSE CloseTransport(c) /\ Returns(t, "none")

\* postWorkflow, after the last step of the workflow has returned.
EndModbusWorkflow(w) ==
  LET closed == {c \in MbEntries : mbPool[mbKey[c]] = c /\ mbRefs[c] \subseteq {w}} IN
    /\ \A t \in MbThreads : MbWorkflowOf[t] = w => mbAt[t] = "idle"
    /\ mbRefs' = [c \in MbEntries |-> IF c \in closed THEN {} ELSE mbRefs[c] \ {w}]
    /\ mbPool' = [k \in MbKeys |-> IF mbPool[k] \in closed THEN 0 ELSE mbPool[k]]
    /\ mbLink' = [c \in MbEntries |-> IF c \in closed THEN "none" ELSE mbLink[c]]
    /\ mbInput' = [c \in MbEntries |-> IF c \in closed THEN << >> ELSE mbInput[c]]
    /\ mbOwed' = [c \in MbEntries |-> IF c \in closed THEN << >> ELSE mbOwed[c]]
    /\ UNCHANGED <<mbMade, mbKey, mbLock, mbCut, mbRequests, mbAt, mbConn, mbRequest, mbTook, mbResult>>

-------------------------------------------------------------------------------
\* The devices and the lines.

\* The device delivers one or more pieces.
PiecesArrive(c) ==
  \E n \in 1..Len(mbOwed[c]) :
    /\ mbInput' = [mbInput EXCEPT ![c] = IF mbLink[c] = "up" THEN @ \o SubSeq(mbOwed[c], 1, n) ELSE @]
    /\ mbOwed' = [mbOwed EXCEPT ![c] = SubSeq(@, n + 1, Len(@))]
    /\ UNCHANGED <<mbPoolVars, mbLock, mbLink, mbCut, mbRequests, mbAt, mbConn, mbRequest, mbTook, mbResult>>

\* A TCP peer drops the connection; what it has not delivered is lost.
PeerDrops(c) ==
  /\ Tcp(c) /\ mbLink[c] = "up"
  /\ mbLink' = [mbLink EXCEPT ![c] = "dropped"]
  /\ mbOwed' = [mbOwed EXCEPT ![c] = << >>]
  /\ UNCHANGED <<mbPoolVars, mbLock, mbInput, mbCut, mbRequests, mbAt, mbConn, mbRequest, mbTook, mbResult>>

ModbusStep(t) ==
  \/ BeginRequest(t)
  \/ LockEntry(t)
  \/ OpenTransport(t)
  \/ SendRequestFrame(t)
  \/ ReadHeader(t)
  \/ ReadArrived(t)
  \/ ReadRest(t)
  \/ RequestFails(t)
  \/ Judge(t)

MbNext ==
  \/ \E t \in MbThreads : ModbusStep(t)
  \/ \E w \in MbWorkflows : EndModbusWorkflow(w)
  \/ \E c \in MbEntries : PiecesArrive(c) \/ PeerDrops(c)

MbSpec == MbInit /\ [][MbNext]_mbVars

-------------------------------------------------------------------------------

MbInside == {"open", "send", "wait", "body", "rest", "judge"}

MbTypeOK ==
  /\ mbPool \in [MbKeys -> 0..mbMade] /\ mbMade \in 0..MaxMbEntries
  /\ mbRefs \in [MbEntries -> SUBSET MbWorkflows] /\ mbKey \in [MbEntries -> MbKeys]
  /\ mbLock \in [MbEntries -> MbThreads \cup {Nobody}]
  /\ mbLink \in [MbEntries -> {"none", "up", "dropped"}]
  /\ mbAt \in [MbThreads -> {"idle", "lock"} \cup MbInside]
  /\ mbConn \in [MbThreads -> 0..mbMade] /\ mbRequest \in [MbThreads -> 0..mbRequests]
  /\ mbResult \in [MbThreads -> {"none", "values", "exception", "foreign"}]

\* One request at a time on a connection, and a connection whose workflow has not
\* ended is there for its steps, whichever workflow ends meanwhile.
MbExclusive ==
  \A t \in MbThreads :
    /\ mbAt[t] \in MbInside <=> \E c \in MbEntries : mbLock[c] = t
    /\ mbAt[t] # "idle" => /\ mbPool[mbKey[mbConn[t]]] = mbConn[t]
                           /\ MbWorkflowOf[t] \in mbRefs[mbConn[t]]
    /\ mbAt[t] \in MbInside => mbLock[mbConn[t]] = t

\* No transport outlives the workflows that refer to its connection.
NoneLeftOpen ==
  \A c \in MbEntries : mbLink[c] # "none" => mbPool[mbKey[c]] = c /\ mbRefs[c] # {}

\* The answer of one step is never taken for that of another: not one that comes
\* after its step has timed out, although nobody compares transaction ids.  Left out
\* are the steps on a connection where the one before took its answer in part or, on
\* a serial line, left it to come.
AnswersOwn == \A t \in MbThreads : mbResult[t] # "foreign"

ModbusSound == MbTypeOK /\ MbExclusive /\ NoneLeftOpen /\ AnswersOwn
===============================================================================
