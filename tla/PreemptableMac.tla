--------------------------- MODULE PreemptableMac ---------------------------
(***************************************************************************)
(* The MAC with frame preemption (EtherMACFullDuplexPreemptable) at one    *)
(* egress port, the MAC that receives at the other end of the link, and    *)
(* as much of the port as they depend on: an express and a preemptable     *)
(* queue, the transmission selection with its two messages to itself, and  *)
(* the gate controller's hold and release.                                 *)
(*                                                                         *)
(* The MAC asks for an express frame while it sends a preemptable one;     *)
(* when it comes, the part that is on the link is ended with a checksum of *)
(* its own and the rest is sent when no express frame waits.  A hold       *)
(* request does the same before the gate of the express queue opens.  A    *)
(* part is "sent" by blocking the link, and a message of no length tells   *)
(* the receiver at its end how much of the frame was sent so far.          *)
(*                                                                         *)
(* Handlers of the MAC call each other, so they are operators from the     *)
(* state of the port to its next state.  The unit of time is what a byte   *)
(* takes on the link.  At one instant the gate controller's tick precedes  *)
(* the MAC's timers, which precede the messages; those of the transmission *)
(* selection have the lowest priority (module Queuing has this pipeline in *)
(* detail; here a frame that was granted is delivered in one step).        *)
(*                                                                         *)
(* Of INET's EtherMacFullDuplex and EtherMacBase there are                 *)
(* handleEndTxPeriod, beginSendFrames and requestNextFrameFromExtQueue,    *)
(* which the MAC calls; no PAUSE frames, and the channel has no delay.     *)
(***************************************************************************)
EXTENDS Integers, Sequences, SequencesExt, FiniteSetsExt

CONSTANTS
  Schedules,           \* the gate schedules: [list, holdAndRelease]
  ExpressLengths,      \* lengths of frames, with header and checksum
  PreemptableLengths,
  PreambleSize,
  CrcSize,
  InterFrameGap,
  MinNonFinal,         \* kFramePreemptionMinNonFinalPayloadSize
  MinFinal,            \* kFramePreemptionMinFinalPayloadSize
  DistinctNames,       \* the applications give every packet a name of its own
  MaxExpress,          \* bound: express frames of a behaviour
  MaxPreemptable       \* bound: preemptable frames of a behaviour

VARIABLES
  schedule,     \* the gate schedule of this behaviour
  entry,        \* the entry (from 1) that is executed
  tick,         \* time until the gate controller's tick
  port,         \* queues, transmission selection and MAC: see Port below
  receiving,    \* receivedPreemptedFrame of the other MAC, or NoFrame
  accepted,     \* history: the frames of each class that entered the queue
  delivered,    \* history: those the other MAC sent up
  waited,       \* history: how long an express frame has been kept waiting
  arriving      \* frames may still arrive at this instant

gateVars == <<schedule, entry, tick>>
vars == <<gateVars, port, receiving, accepted, delivered, waited, arriving>>

Express == "express"
Preemptable == "preemptable"
Classes == {Express, Preemptable}

Never == -1
NoFrame == [class |-> "none", id |-> 0, length |-> 0]

Slot == [timeInterval : Nat \ {0}, gates : SUBSET Classes]

Frame ==
  [class : {Express}, id : 1 .. MaxExpress, length : ExpressLengths]
    \cup [class : {Preemptable}, id : 1 .. MaxPreemptable, length : PreemptableLengths]

Limit(c) == IF c = Express THEN MaxExpress ELSE MaxPreemptable

ASSUME PreemptableMacAssumption ==
  /\ \A s \in Schedules :
       /\ s.list \in Seq(Slot) /\ s.list # <<>>
       /\ s.holdAndRelease \in BOOLEAN
  /\ ExpressLengths \cup PreemptableLengths \subseteq Nat \ {0}
  /\ {PreambleSize, CrcSize, InterFrameGap, MinNonFinal, MinFinal} \subseteq Nat \ {0}
  /\ {MaxExpress, MaxPreemptable} \subseteq Nat
  /\ DistinctNames \in BOOLEAN

\* The state of a port.
Port == [
  queue : [Classes -> Seq(Frame)],
  gateOpen : SUBSET Classes,
  packetRequestedFromUs : BOOLEAN,       \* of the transmission selection
  packetRequestedFromInputs : BOOLEAN,
  tsMessages : Seq({"requestPacket", "packetEnqueued"}),
  granted : Classes \cup {"none"},       \* whose frame is on its way to the MAC
  transmitState : {"TX_IDLE_STATE", "TRANSMITTING_STATE", "WAIT_IFG_STATE"},
  curTxFrame : Frame \cup {NoFrame},
  currentExpressFrame : Frame \cup {NoFrame},
  currentPreemptableFrame : Frame \cup {NoFrame},
  transmittingExpressFrame : BOOLEAN,
  transmittingPreemptableFrame : BOOLEAN,
  bytesInPart : Nat,                     \* time since preemptableTransmissionStart
  preemptedBytesSent : Nat,
  onHold : BOOLEAN,
  timers : [{"endTx", "endIFG", "recheck", "preemptCurrentFrame", "holdRequest"} -> Nat \cup {Never}],
  failed : BOOLEAN ]                     \* an assertion failed or a module threw

-----------------------------------------------------------------------------
\* What the handlers are built from

Fail(s) == [s EXCEPT !.failed = TRUE]

Start(s, timer, delay) == [s EXCEPT !.timers[timer] = delay]

\* strcmp of the names of two packets
SameName(f, g) == f.class = g.class /\ (DistinctNames => f.id = g.id)

\* TransmissionGate::isEmpty, negated
Available(s, c) ==
  /\ c \in s.gateOpen
  /\ c = Preemptable => ~s.onHold
  /\ s.queue[c] # <<>>

\* A message of the transmission selection to itself is scheduled anew.
Raise(s, m) == [s EXCEPT !.tsMessages = Append(Remove(@, m), m)]

RequestPacket(s) == Raise(s, "requestPacket")

\* How much of the frame is left, were it preempted now.  The preamble of this
\* part counts as sent, although it is not part of the frame.
PayloadBytesRemaining(s) ==
  s.currentPreemptableFrame.length - s.bytesInPart - s.preemptedBytesSent

\* Mutant: only what was sent is looked at.
PossibleWhenEnoughIsSent(s) ==
  ~s.transmittingPreemptableFrame \/ s.bytesInPart >= MinNonFinal

IsPreemptionNowPossible(s) ==
  \/ ~s.transmittingPreemptableFrame
  \/ /\ PayloadBytesRemaining(s) >= MinFinal
     /\ s.bytesInPart >= MinNonFinal

\* How long to wait until preemption is possible, or Never.
IsPreemptionLaterPossible(s) ==
  IF /\ s.bytesInPart < MinNonFinal
     /\ PayloadBytesRemaining(s) >= MinNonFinal + CrcSize - s.bytesInPart + MinFinal
  THEN MinNonFinal - s.bytesInPart
  ELSE Never

\* The part on the link ends with a checksum of its own.
PreemptCurrentFrame(s) ==
  IF /\ s.transmittingPreemptableFrame
     /\ ~s.transmittingExpressFrame
     /\ s.currentPreemptableFrame # NoFrame
     /\ IsPreemptionNowPossible(s)
  THEN Start(s, "endTx", CrcSize)
  ELSE Fail(s)

\* The frame is continued when it has the name of the one that was preempted.
StartPreemptable(s) ==
  LET continued == /\ s.currentPreemptableFrame # NoFrame
                   /\ SameName(s.currentPreemptableFrame, s.curTxFrame)
      sent == IF continued THEN s.preemptedBytesSent ELSE 0
  IN  [s EXCEPT !.currentPreemptableFrame = IF continued THEN @ ELSE s.curTxFrame,
                !.preemptedBytesSent = sent,
                !.transmittingPreemptableFrame = TRUE,
                !.bytesInPart = 0,
                !.timers["endTx"] = s.curTxFrame.length + PreambleSize - sent,
                !.transmitState = "TRANSMITTING_STATE"]

StartExpress(s) ==
  [s EXCEPT !.transmittingExpressFrame = TRUE,
            !.timers["endTx"] = s.curTxFrame.length + PreambleSize,
            !.transmitState = "TRANSMITTING_STATE"]

StartFrameTransmission(s) ==
  IF \/ s.curTxFrame = NoFrame
     \/ s.transmittingExpressFrame
     \/ s.transmittingPreemptableFrame
  THEN Fail(s)
  ELSE IF s.curTxFrame.class = Express THEN StartExpress(s) ELSE StartPreemptable(s)

\* checkForAndRequestExpressFrame asks when this holds.
ExpressIsAvailable(s) == ~s.transmittingExpressFrame /\ Available(s, Express)

\* checkForAndRequestExpressFrame, as the handler of the recheck timer
CheckForAndRequestExpressFrame(s) ==
  IF ~IsPreemptionNowPossible(s) THEN Fail(s)
  ELSE IF ExpressIsAvailable(s) THEN RequestPacket(s) ELSE s

\* requestNextFrameFromExtQueue
RequestNextFrame(s) == IF s.packetRequestedFromUs THEN s ELSE RequestPacket(s)

\* Mutant: a frame that was preempted waits until the queues are asked.
NextFromQueuesOnly(s) ==
  IF s.curTxFrame # NoFrame THEN Fail(s)
  ELSE IF s.currentExpressFrame # NoFrame
  THEN [s EXCEPT !.curTxFrame = s.currentExpressFrame, !.currentExpressFrame = NoFrame]
  ELSE IF ExpressIsAvailable(s) THEN RequestPacket(s)
  ELSE RequestNextFrame(s)

\* An express frame that waits in the MAC, or in its queue, comes before the
\* rest of the frame that was preempted, and that before any other.
GetNextFrameFromQueue(s) ==
  IF s.curTxFrame # NoFrame THEN Fail(s)
  ELSE IF s.currentExpressFrame # NoFrame
  THEN [s EXCEPT !.curTxFrame = s.currentExpressFrame, !.currentExpressFrame = NoFrame]
  ELSE IF ExpressIsAvailable(s) THEN RequestPacket(s)
  ELSE IF ~s.onHold /\ s.currentPreemptableFrame # NoFrame
  THEN [s EXCEPT !.curTxFrame = s.currentPreemptableFrame]
  ELSE RequestNextFrame(s)

BeginSendFrames(s) ==
  IF s.curTxFrame # NoFrame THEN StartFrameTransmission(s)
  ELSE [s EXCEPT !.transmitState = "TX_IDLE_STATE"]

-----------------------------------------------------------------------------
\* The handlers of the MAC

\* Where a frame from the transmission selection is kept.
Placed(s, f) ==
  IF f.class = Express /\ s.transmittingPreemptableFrame
  THEN PreemptCurrentFrame([s EXCEPT !.currentExpressFrame = f])
  ELSE IF f.class = Express /\ s.transmitState = "WAIT_IFG_STATE"
  THEN [s EXCEPT !.currentExpressFrame = f]
  ELSE [s EXCEPT !.curTxFrame = f]

HandleUpperPacket(s, f) ==
  LET nowPreempting == f.class = Express /\ s.transmittingPreemptableFrame
      placed == Placed(IF f.class = Express THEN Start(s, "recheck", Never) ELSE s, f)
      parked == IF /\ placed.onHold /\ f.class = Preemptable
                   /\ placed.currentPreemptableFrame = NoFrame
                THEN [placed EXCEPT !.currentPreemptableFrame = placed.curTxFrame,
                                    !.curTxFrame = NoFrame]
                ELSE placed
  IN  IF /\ s.transmitState # "TX_IDLE_STATE"
         /\ s.transmittingExpressFrame \/ f.class = Preemptable
      THEN Fail(s)
      ELSE IF s.transmitState = "TX_IDLE_STATE" /\ ~nowPreempting
      THEN StartFrameTransmission(parked)
      ELSE parked

\* EtherMacFullDuplex::handleEndTxPeriod
StartGap(s) ==
  [s EXCEPT !.curTxFrame = NoFrame,
            !.transmittingExpressFrame = FALSE,
            !.transmittingPreemptableFrame = FALSE,
            !.bytesInPart = 0,
            !.transmitState = "WAIT_IFG_STATE",
            !.timers["endTx"] = Never,
            !.timers["endIFG"] = InterFrameGap]

\* The bytes of the preemptable frame that are sent when a part ends.  The part
\* that completes the frame counts the frame's own checksum.
BytesSentAfterPart(s) ==
  LET sent == s.preemptedBytesSent + Max({0, s.bytesInPart - CrcSize})
  IN  IF sent + CrcSize = s.currentPreemptableFrame.length + PreambleSize
      THEN s.currentPreemptableFrame.length
      ELSE sent

HandleEndTxPeriod(s) ==
  LET sent == BytesSentAfterPart(s)
  IN  IF ~s.transmittingPreemptableFrame THEN StartGap(s)
      ELSE [StartGap(s) EXCEPT
              !.preemptedBytesSent = sent,
              !.currentPreemptableFrame = IF sent = @.length THEN NoFrame ELSE @]

HandleEndIFGPeriod(s) == BeginSendFrames(GetNextFrameFromQueue(Start(s, "endIFG", Never)))

\* Mutant: nothing is done when preemption is possible only later.
AskNowOrNever(s) ==
  IF /\ s.transmittingPreemptableFrame
     /\ Available(s, Express)
     /\ IsPreemptionNowPossible(s)
  THEN RequestPacket(s)
  ELSE s

\* packetEnqueued, which the transmission selection calls
PacketEnqueued(s) ==
  IF ~s.transmittingPreemptableFrame \/ ~ExpressIsAvailable(s) THEN s
  ELSE IF IsPreemptionNowPossible(s) THEN RequestPacket(s)
  ELSE IF IsPreemptionLaterPossible(s) # Never
  THEN Start(s, "recheck", IsPreemptionLaterPossible(s))
  ELSE s

\* hold() without a delay
HoldNow(s) ==
  LET held == [s EXCEPT !.onHold = TRUE]
  IN  IF s.transmittingPreemptableFrame
      THEN IF IsPreemptionNowPossible(s) THEN PreemptCurrentFrame(held)
           ELSE IF IsPreemptionLaterPossible(s) # Never
           THEN Start(held, "preemptCurrentFrame", IsPreemptionLaterPossible(s))
           ELSE held
      ELSE IF s.transmitState = "TX_IDLE_STATE" THEN GetNextFrameFromQueue(held)
      ELSE held

Hold(s, delay) ==
  CASE delay = 0 -> HoldNow(s)
    [] delay > 0 -> Start(s, "holdRequest", delay)
    [] delay < 0 -> Fail(s)

\* Mutant: requests that the hold left pending are not cleared.
ReleaseOnly(s) ==
  LET released == [s EXCEPT !.onHold = FALSE]
  IN  IF s.transmittingExpressFrame \/ s.timers["endIFG"] # Never THEN released
      ELSE BeginSendFrames(GetNextFrameFromQueue(released))

Release(s) ==
  LET released == [s EXCEPT !.onHold = FALSE,
                            !.packetRequestedFromUs = FALSE,
                            !.packetRequestedFromInputs = FALSE]
  IN  IF s.transmittingExpressFrame \/ s.timers["endIFG"] # Never THEN released
      ELSE BeginSendFrames(GetNextFrameFromQueue(released))

\* getHoldAdvance: the gap is in bits, what is added to it in bytes, and the sum
\* is taken for a number of bits.
HoldAdvance == (8 * InterFrameGap + MinNonFinal + MinFinal + CrcSize) \div 8

-----------------------------------------------------------------------------
\* Transmission selection

\* schedulePacket: an express frame is granted before any other.
SchedulePacket(s) ==
  IF Available(s, Express)
  THEN [s EXCEPT !.granted = Express, !.packetRequestedFromInputs = FALSE]
  ELSE IF Available(s, Preemptable)
  THEN [s EXCEPT !.granted = Preemptable, !.packetRequestedFromInputs = FALSE]
  ELSE s

TSRequestPacket(s) ==
  IF s.packetRequestedFromUs THEN Fail(s)
  ELSE SchedulePacket([s EXCEPT !.packetRequestedFromUs = TRUE,
                                !.packetRequestedFromInputs = TRUE])

TSPacketEnqueued(s) ==
  IF s.packetRequestedFromInputs THEN SchedulePacket(s)
  ELSE IF s.packetRequestedFromUs THEN s
  ELSE PacketEnqueued(s)

-----------------------------------------------------------------------------
\* Steps

EmptyPort == [
  queue |-> [c \in Classes |-> <<>>],
  gateOpen |-> Classes,
  packetRequestedFromUs |-> FALSE,
  packetRequestedFromInputs |-> FALSE,
  tsMessages |-> <<"requestPacket">>,
  granted |-> "none",
  transmitState |-> "TX_IDLE_STATE",
  curTxFrame |-> NoFrame,
  currentExpressFrame |-> NoFrame,
  currentPreemptableFrame |-> NoFrame,
  transmittingExpressFrame |-> FALSE,
  transmittingPreemptableFrame |-> FALSE,
  bytesInPart |-> 0,
  preemptedBytesSent |-> 0,
  onHold |-> FALSE,
  timers |-> [t \in {"endTx", "endIFG", "recheck", "preemptCurrentFrame", "holdRequest"} |-> Never],
  failed |-> FALSE ]

\* The schedule is loaded at the first tick.  Until then all gates are open, and so
\* the controller that holds and releases tells the MAC to hold.
InitialPort(s) == IF s.holdAndRelease THEN HoldNow(EmptyPort) ELSE EmptyPort

\* The MAC asks for its first frame when it is initialized.
Init ==
  /\ schedule \in Schedules
  /\ entry = 1
  /\ tick = 0
  /\ port = InitialPort(schedule)
  /\ receiving = NoFrame
  /\ accepted = [c \in Classes |-> <<>>]
  /\ delivered = [c \in Classes |-> <<>>]
  /\ waited = 0
  /\ arriving = TRUE

MacTimerIsDue == \E t \in DOMAIN port.timers : port.timers[t] = 0

TimerIsDue == tick = 0 \/ MacTimerIsDue

historyVars == <<accepted, waited>>

\* A frame enters its queue; the gate tells the transmission selection.
Arrive(c, length) ==
  LET f == [class |-> c, id |-> Len(accepted[c]) + 1, length |-> length]
      queued == [port EXCEPT !.queue[c] = Append(@, f)]
  IN  /\ ~port.failed /\ ~TimerIsDue
      /\ arriving
      /\ Len(accepted[c]) < Limit(c)
      /\ port' = IF Available(queued, c) THEN Raise(queued, "packetEnqueued") ELSE queued
      /\ accepted' = [accepted EXCEPT ![c] = Append(@, f)]
      /\ UNCHANGED <<gateVars, receiving, delivered, waited, arriving>>

\* setGateStates: gates that change, or that are open when the MAC is released,
\* tell the transmission selection of the frames behind them.
SetGateStates(s, gates, released) ==
  LET set == [s EXCEPT !.gateOpen = gates]
  IN  IF \E c \in Classes : /\ Available(set, c)
                            /\ c \in s.gateOpen => released
      THEN Raise(set, "packetEnqueued")
      ELSE set

\* GateController::updateSchedule: the MAC is released before the gates are set,
\* when none of them is an express gate; it is told to hold before the next
\* entry opens one.
UpdateSchedule ==
  LET list == schedule.list
      next == (entry % Len(list)) + 1
      releaseNeeded == /\ schedule.holdAndRelease
                       /\ port.onHold
                       /\ Express \notin list[entry].gates
      released == IF releaseNeeded THEN Release(port) ELSE port
      set == SetGateStates(released, list[entry].gates, releaseNeeded)
  IN  /\ ~port.failed
      /\ tick = 0
      /\ port' = IF schedule.holdAndRelease /\ Express \in list[next].gates
                 THEN Hold(set, list[entry].timeInterval - HoldAdvance)
                 ELSE set
      /\ tick' = list[entry].timeInterval
      /\ entry' = next
      /\ UNCHANGED <<schedule, receiving, delivered, historyVars, arriving>>

TimerFires(timer) ==
  /\ ~port.failed
  /\ tick # 0
  /\ port.timers[timer] = 0

\* The part message arrives at the other MAC: the frame is sent up when as many
\* bytes as it has were sent.
ReceivePart(f, bytesSent) ==
  LET frame == IF receiving # NoFrame /\ SameName(receiving, f) THEN receiving ELSE f
  IN  IF frame.length = bytesSent
      THEN /\ receiving' = NoFrame
           /\ delivered' = [delivered EXCEPT ![frame.class] = Append(@, frame)]
      ELSE receiving' = frame /\ UNCHANGED delivered

\* handleEndTxPeriod, and what the other MAC does with what it receives
EndTx ==
  /\ TimerFires("endTx")
  /\ port' = IF \/ port.curTxFrame = NoFrame
                \/ port.transmitState # "TRANSMITTING_STATE"
             THEN Fail(port) ELSE HandleEndTxPeriod(port)
  /\ IF port.transmittingPreemptableFrame
     THEN ReceivePart(port.currentPreemptableFrame, BytesSentAfterPart(port))
     ELSE /\ delivered' = [delivered EXCEPT ![Express] = Append(@, port.curTxFrame)]
          /\ UNCHANGED receiving
  /\ UNCHANGED <<gateVars, historyVars, arriving>>

OnlyPort == UNCHANGED <<gateVars, receiving, delivered, historyVars>>

EndIFG ==
  /\ TimerFires("endIFG")
  /\ port' = HandleEndIFGPeriod(port)
  /\ OnlyPort /\ UNCHANGED arriving

Recheck ==
  /\ TimerFires("recheck")
  /\ port' = CheckForAndRequestExpressFrame(Start(port, "recheck", Never))
  /\ OnlyPort /\ UNCHANGED arriving

PreemptTimer ==
  /\ TimerFires("preemptCurrentFrame")
  /\ port' = PreemptCurrentFrame(Start(port, "preemptCurrentFrame", Never))
  /\ OnlyPort /\ UNCHANGED arriving

HoldRequest ==
  /\ TimerFires("holdRequest")
  /\ port' = HoldNow(Start(port, "holdRequest", Never))
  /\ OnlyPort /\ UNCHANGED arriving

\* The transmission selection handles a message to itself when nothing else is
\* left to do at this instant.
TransmissionSelection ==
  LET s == [port EXCEPT !.tsMessages = Tail(@)]
  IN  /\ ~port.failed /\ ~TimerIsDue
      /\ port.granted = "none"
      /\ port.tsMessages # <<>>
      /\ port' = IF Head(port.tsMessages) = "requestPacket"
                 THEN TSRequestPacket(s) ELSE TSPacketEnqueued(s)
      /\ arriving' = FALSE
      /\ OnlyPort

\* The frame that was granted leaves its queue, passes its gate and the
\* transmission selection and reaches the MAC.
Deliver ==
  LET c == port.granted
      f == Head(port.queue[c])
      s == [port EXCEPT !.queue[c] = Tail(@),
                        !.granted = "none",
                        !.packetRequestedFromUs = FALSE]
  IN  /\ ~port.failed /\ ~TimerIsDue
      /\ c # "none"
      /\ port' = IF Available(port, c) /\ port.packetRequestedFromUs
                 THEN HandleUpperPacket(s, f) ELSE Fail(port)
      /\ OnlyPort /\ UNCHANGED arriving

Settled ==
  /\ ~port.failed /\ ~TimerIsDue
  /\ port.tsMessages = <<>> /\ port.granted = "none"

\* An express frame that may be sent waits, and none is on the link.
KeptWaiting ==
  /\ ~port.transmittingExpressFrame
  /\ port.currentExpressFrame # NoFrame \/ Available(port, Express)

\* A byte's time passes.
Elapse ==
  /\ Settled
  /\ tick' = tick - 1
  /\ port' = [port EXCEPT
       !.bytesInPart = IF port.transmittingPreemptableFrame THEN @ + 1 ELSE @,
       !.timers = [t \in DOMAIN @ |-> IF @[t] = Never THEN Never ELSE @[t] - 1]]
  /\ waited' = IF KeptWaiting THEN waited + 1 ELSE 0
  /\ arriving' = TRUE
  /\ UNCHANGED <<schedule, entry, receiving, accepted, delivered>>

Kernel ==
  \/ UpdateSchedule
  \/ EndTx \/ EndIFG \/ Recheck \/ PreemptTimer \/ HoldRequest
  \/ TransmissionSelection \/ Deliver
  \/ Elapse

\* An express frame was asked for, or has come, to preempt the one on the link.
Preempting ==
  /\ port.transmittingPreemptableFrame
  /\ \/ port.currentExpressFrame # NoFrame
     \/ Contains(port.tsMessages, "requestPacket")

LengthsOf(c) == IF c = Express THEN ExpressLengths ELSE PreemptableLengths

\* Frames arrive at any time.
Next == Kernel \/ \E c \in Classes : \E length \in LengthsOf(c) : Arrive(c, length)

Spec == Init /\ [][Next]_vars /\ WF_vars(Kernel)

\* No frame reaches the queues between the request for an express frame that
\* preempts another and the end of the part on the link.  Nothing in the code
\* keeps one from coming then: the MAC is told of it, asks again and loses the
\* express frame it has (FramesConserved does not hold of Spec).
CarefulArrive(c, length) == ~Preempting /\ Arrive(c, length)

CarefulNext ==
  Kernel \/ \E c \in Classes : \E length \in LengthsOf(c) : CarefulArrive(c, length)

CarefulSpec == Init /\ [][CarefulNext]_vars /\ WF_vars(Kernel)

-----------------------------------------------------------------------------
TypeOK ==
  /\ schedule \in Schedules
  /\ entry \in 1 .. Len(schedule.list)
  /\ tick \in Nat
  /\ port \in Port
  /\ receiving \in Frame \cup {NoFrame}
  /\ \A c \in Classes : {accepted[c], delivered[c]} \subseteq Seq(Frame)
  /\ waited \in Nat
  /\ arriving \in BOOLEAN

\* Every variable keeps its type, no assertion of the MAC fails and nobody throws,
\* as long as no frame arrives while another preempts (CarefulSpec): a frame is
\* preempted only where both parts are long enough, an express frame that was asked
\* for still finds the link as it was, and a release finds no preemptable frame on it.
AssertionsHold == TypeOK /\ ~port.failed

InMac(c) ==
  LET current == IF c = Preemptable THEN port.currentPreemptableFrame ELSE port.curTxFrame
      Kept(f) == IF f.class = c THEN <<f>> ELSE <<>>
  IN  Kept(current) \o Kept(port.currentExpressFrame)

\* Every frame is delivered once, complete and in the order of its class: what
\* was sent up, what the MAC keeps and what waits are the frames accepted.  It
\* holds of CarefulSpec; in Spec the express frame that handleUpperPacket keeps in
\* currentExpressFrame is lost when another one arrives before the part has ended.
FramesConserved ==
  \A c \in Classes : delivered[c] \o InMac(c) \o port.queue[c] = accepted[c]

\* The part that was sent and the one that is left are not too short.
PartsAreLegal ==
  [][port.transmittingPreemptableFrame /\ ~port'.transmittingPreemptableFrame =>
       LET f == port.currentPreemptableFrame
           sent == BytesSentAfterPart(port)
       IN  sent = f.length \/ /\ sent - port.preemptedBytesSent >= MinNonFinal
                              /\ f.length - sent >= MinFinal]_vars

\* What an express frame may have to wait for a preemptable one: preemption comes
\* too late for it, or not before the first bytes, and then the gap.
LongestDelay ==
  MinNonFinal + CrcSize + (MinFinal - 1) + PreambleSize + InterFrameGap

\* An express frame behind an open gate waits for no more than a fragment, a
\* checksum and a gap, however long the other frame is and wherever in it the
\* express frame comes, unless another one is preempting it already (CarefulSpec).
ExpressSoonSent == waited <= LongestDelay

\* getHoldAdvance: "the maximum delay needed before express traffic can flow":
\* when a gate opens that long after a hold, no preemptable frame is in the way.
HoldAdvanceSuffices ==
  [][UpdateSchedule /\ port.onHold /\ Express \in schedule.list[entry].gates
       => ~port.transmittingPreemptableFrame]_vars

\* All frames are delivered, those too that were preempted or found a hold, when
\* they arrive as in CarefulSpec.
FramesAreDelivered == []<>(delivered = accepted)
=============================================================================
