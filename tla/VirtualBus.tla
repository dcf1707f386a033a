------------------------------ MODULE VirtualBus ------------------------------
(***************************************************************************)
(* VirtualBusDriver: threads receive while others send, inject, replay,    *)
(* close and open.  A method is one step under mutex_, except where it     *)
(* waits: receive waits for a frame on frameAvailable_, with or without a  *)
(* timeout, and sleeps unlocked before a replayed frame.  shutdown locks   *)
(* mutex_, a QMutex, and calls close, which locks it too.                  *)
(*                                                                         *)
(* Frames are numbered as they enter the receive queue.                    *)
(***************************************************************************)
EXTENDS Integers, Sequences, FiniteSets, SequencesExt

CONSTANTS Receivers,  \* threads that receive
          MaxSent,    \* bound: how many frames enter the queue
          MaxReplay,  \* bound: frames set for replay
          MaxReceives,\* bound: how many calls of receive are begun
          MaxOpenings \* bound: how often the bus is opened

ASSUME VirtualBoundsAssumption ==
  {MaxSent, MaxReplay, MaxReceives, MaxOpenings} \subseteq Nat
ASSUME ReceiversAssumption == IsFiniteSet(Receivers)

VARIABLES vbInitialized, vbOpened,
          receiveQueue,
          sent,          \* how many frames entered the queue
          replayLen, replayIndex,
          delayed,       \* frameDelayUs_ > 0
          place,         \* where each receiver is
          forever,       \* receivers that wait without a timeout
          receives, openings,
          overrun,       \* a replayed frame was read past the end of the list
          replayMoved,   \* history: the replay was moved on under a receiver that slept
          shuttingDown,  \* a thread is in shutdown
          mutexHeld      \* mutex_ is held between two steps

replayVars == <<replayLen, replayIndex, overrun, replayMoved>>
bufferVars == <<receiveQueue, sent, replayVars>>
callVars == <<place, forever, receives>>
switchVars == <<vbInitialized, vbOpened, openings, delayed, shuttingDown, mutexHeld>>
vbVars == <<bufferVars, callVars, switchVars>>

VbInit ==
  /\ vbInitialized = FALSE /\ vbOpened = FALSE /\ overrun = FALSE /\ replayMoved = FALSE
  /\ shuttingDown = FALSE /\ mutexHeld = FALSE
  /\ receiveQueue = <<>> /\ sent = 0
  /\ replayLen = 0 /\ replayIndex = 0
  /\ delayed \in BOOLEAN
  /\ place = [r \in Receivers |-> "out"] /\ forever = {}
  /\ receives = 0 /\ openings = 0

VbWaiting == {r \in Receivers : place[r] = "waiting"}
VbWoken == {r \in Receivers : place[r] = "woken"}

VbInitialize ==
  /\ ~mutexHeld
  /\ vbInitialized' = TRUE
  /\ UNCHANGED <<bufferVars, callVars, vbOpened, openings, delayed, shuttingDown, mutexHeld>>

VbOpen ==
  /\ ~mutexHeld /\ vbInitialized /\ ~vbOpened /\ openings < MaxOpenings
  /\ vbOpened' = TRUE /\ openings' = openings + 1
  /\ UNCHANGED <<bufferVars, callVars, vbInitialized, delayed, shuttingDown, mutexHeld>>

\* The replay is moved on, by a receiver or from outside.
MovesReplay(by) ==
  replayMoved' = (replayMoved \/ \E r \in Receivers \ by : place[r] = "asleep")

WakeAll == place' = [r \in Receivers |-> IF r \in VbWaiting THEN "woken" ELSE place[r]]

\* shutdown is called: mutex_ is taken, and close comes next.
VbShutdown ==
  /\ ~mutexHeld
  /\ shuttingDown' = TRUE /\ mutexHeld' = TRUE
  /\ UNCHANGED <<bufferVars, callVars, vbInitialized, vbOpened, openings, delayed>>

\* close, called from outside or by shutdown, which then clears the rest and returns.
VbClose ==
  /\ ~mutexHeld
  /\ vbOpened' = FALSE /\ receiveQueue' = <<>> /\ replayIndex' = 0
  /\ WakeAll /\ MovesReplay({})
  /\ \E byShutdown \in {FALSE, shuttingDown} :
       /\ shuttingDown' = (shuttingDown /\ ~byShutdown)
       /\ vbInitialized' = (vbInitialized /\ ~byShutdown)
       /\ replayLen' = IF byShutdown THEN 0 ELSE replayLen
  /\ UNCHANGED <<sent, overrun, forever, receives, openings, delayed, mutexHeld>>

\* A mutant: a frame that is not the first does not wake anybody.
MutantWakeOne ==
  IF VbWaiting = {} \/ receiveQueue # <<>> THEN UNCHANGED place
  ELSE \E r \in VbWaiting : place' = [place EXCEPT ![r] = "woken"]

WakeOne ==
  IF VbWaiting = {} THEN UNCHANGED place
  ELSE \E r \in VbWaiting : place' = [place EXCEPT ![r] = "woken"]

\* send on an open bus with loopback, and injectFrame on any.
FrameEnters ==
  /\ ~mutexHeld /\ sent < MaxSent
  /\ sent' = sent + 1
  /\ receiveQueue' = Append(receiveQueue, sent')
  /\ WakeOne
  /\ UNCHANGED <<replayVars, forever, receives, switchVars>>

Flush ==
  /\ ~mutexHeld
  /\ receiveQueue' = <<>>
  /\ UNCHANGED <<sent, replayVars, callVars, switchVars>>

\* setReplayFrames; it wakes nobody.
SetReplay ==
  /\ ~mutexHeld
  /\ replayLen' \in 0..MaxReplay /\ replayIndex' = 0 /\ MovesReplay({})
  /\ UNCHANGED <<receiveQueue, sent, overrun, callVars, switchVars>>

-------------------------------------------------------------------------------

VbGoes(r, to) == place' = [place EXCEPT ![r] = to]

Replaying == replayLen > 0 /\ replayIndex < replayLen

\* A frame is replayed.  Another receiver, a close or setReplayFrames may have moved
\* the index since it was tested, if the receiver slept.
Replay(r) ==
  /\ overrun' = (overrun \/ replayIndex >= replayLen)
  /\ replayIndex' = IF replayIndex < replayLen THEN replayIndex + 1 ELSE replayIndex
  /\ MovesReplay({r})
  /\ VbGoes(r, "out")
  /\ UNCHANGED <<receiveQueue, sent, replayLen>>

TakeFirst(r) ==
  /\ receiveQueue # <<>>
  /\ receiveQueue' = Tail(receiveQueue)
  /\ VbGoes(r, "out")
  /\ UNCHANGED <<sent, replayVars>>

\* receive is called, on an open bus: it replays, takes a frame, or waits for one.
VbReceive(r) ==
  /\ ~mutexHeld /\ vbOpened /\ place[r] = "out" /\ receives < MaxReceives
  /\ receives' = receives + 1
  /\ \E ever \in BOOLEAN : forever' = IF ever THEN forever \cup {r} ELSE forever \ {r}
  /\ \/ Replaying /\ ~delayed /\ Replay(r)
     \/ Replaying /\ delayed /\ VbGoes(r, "asleep") /\ UNCHANGED bufferVars
     \/ ~Replaying /\ TakeFirst(r)
     \/ ~Replaying /\ receiveQueue = <<>> /\ VbGoes(r, "waiting") /\ UNCHANGED bufferVars
  /\ UNCHANGED switchVars

Wakes(r) == place[r] = "asleep" /\ Replay(r)

WaitTimesOut(r) == r \in VbWaiting \ forever /\ VbGoes(r, "woken") /\ UNCHANGED bufferVars

\* The wait is over: take a frame, or wait again, or give up.
AfterWait(r) ==
  /\ r \in VbWoken
  /\ \/ TakeFirst(r)
     \/ /\ receiveQueue = <<>>
        /\ VbGoes(r, IF r \in forever /\ vbOpened THEN "waiting" ELSE "out")
        /\ UNCHANGED bufferVars

VbReceiving(r) ==
  /\ ~mutexHeld
  /\ Wakes(r) \/ WaitTimesOut(r) \/ AfterWait(r)
  /\ UNCHANGED <<forever, receives, switchVars>>

VbNext ==
  \/ VbInitialize \/ VbOpen \/ VbClose \/ VbShutdown
  \/ FrameEnters \/ Flush \/ SetReplay
  \/ \E r \in Receivers : VbReceive(r) \/ VbReceiving(r)

VbSpec == VbInit /\ [][VbNext]_vbVars

-------------------------------------------------------------------------------

\* Types; frames are queued in the order they came.
VbTypeOK ==
  /\ {vbInitialized, vbOpened, delayed, overrun, replayMoved, shuttingDown, mutexHeld} \subseteq BOOLEAN
  /\ sent \in 0..MaxSent /\ replayIndex \in 0..replayLen /\ forever \subseteq Receivers
  /\ place \in [Receivers -> {"out", "asleep", "waiting", "woken"}]
  /\ \A i \in 1..Len(receiveQueue) - 1 : receiveQueue[i] < receiveQueue[i + 1]

\* No receiver sleeps through a frame: while one waits, each queued frame has a
\* receiver that is awake and on its way to it (VirtualBusDriver.cpp:94-98, 133-152),
\* also when another one takes the frame first or times out.
NoFrameMissed == VbWaiting # {} => Len(receiveQueue) <= Cardinality(VbWoken)

\* A close lets every receiver go (:62-69): nobody waits on a closed bus.
NoneWaitsOnClosed == ~vbOpened => VbWaiting = {}

\* A replay reads past its last frame only if a receiver slept before its frame and
\* another receiver, a close or setReplayFrames moved the replay on meanwhile
\* (:111-120); one receiver alone, or a replay without delays, never does.
ReplayInBounds == overrun => delayed /\ replayMoved

\* Frames and receivers find each other.
VirtualSound == VbTypeOK /\ NoFrameMissed /\ NoneWaitsOnClosed /\ ReplayInBounds
===============================================================================
