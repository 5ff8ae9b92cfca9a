------------------------------- MODULE Queuing -------------------------------
(***************************************************************************)
(* The queuing network of an egress port: per traffic class a              *)
(* LengthAwareQueue, a transmission selection algorithm (StrictPriority or *)
(* CreditBasedShaper) and a TransmissionGate, and one                      *)
(* TransmissionSelection in front of the MAC. A request of the MAC travels *)
(* down, from module to module, as messages the modules send to            *)
(* themselves; the frame travels up the same way; a notification of a      *)
(* frame that arrived does too. All of this takes no time, and in between, *)
(* at the same instant, frames arrive, gates change and the MAC finishes   *)
(* what it does.                                                           *)
(*                                                                         *)
(* The kernel handles the messages of an instant in the order they were    *)
(* scheduled, so the timers that are due come first; a tick may be handled *)
(* at any place among them, for the oscillator, which other modules use    *)
(* too, renews its event.  Only the messages of the transmission selection *)
(* to itself have a lower priority and wait until nothing else is left.    *)
(*                                                                         *)
(* The MAC is INET's EtherMacFullDuplex, which never holds frames back; of *)
(* it the model has what it does to requests and to the link.  No frame    *)
(* arrives any more at an instant when the transmission selection was run, *)
(* for links have a delay.  The gate controller is modelled as far as the  *)
(* port sees it, with a control list that fills its cycle (module          *)
(* GateController has the other lists): calculateMaxBit then tells when    *)
(* the gate closes.  The message by which a gate tells its algorithm of a  *)
(* change is sent to shapers only: strict priority does nothing with it.   *)
(* A frame's length is the time it takes, and a unit of credit what a      *)
(* shaper earns in a unit of time.                                         *)
(***************************************************************************)
EXTENDS Integers, Sequences, SequencesExt, FiniteSetsExt

CONSTANTS
  Queues,            \* the traffic classes; a greater one has higher priority
  ExpressQueues,     \* those with expressQueue
  ShapedQueues,      \* those whose algorithm is a credit-based shaper
  SendSlope,         \* credit spent per unit of time
  ShaperOverhead,    \* what transmissionTime() adds to the length of a frame
  LengthAwareGates,  \* gates with lengthAwareSchedulingEnabled
  Lengths,           \* lengths of frames
  PreambleSize,
  MtuTime,           \* time to send an MTU
  InterFrameGap,
  BufferCapacity,
  ControlList,       \* sequence of [timeInterval, gates]
  MaxArrivals,       \* bound: frames that arrive at one instant
  MaxCredit          \* bound: credit beyond it is not told apart

VARIABLES
  queue,                     \* the frames each queue holds
  gateOpen,                  \* the gates that are open
  entry,                     \* entry (from 1) of the list that is executed
  tick,                      \* time until the gate controller's tick, or Never
  packetRequestedFromUs,     \* of the transmission selection
  packetRequestedFromInputs,
  shaper,                    \* state, credit and timer of each shaper
  transmitState,             \* of the MAC
  macTimer,                  \* time until its endTx or endIFG, or Never
  sending,                   \* history: class of the frame on the link, or None
  messages,                  \* of this instant, in order
  tsMessages,                \* those of lower priority
  arrivals,                  \* frames that may still arrive at this instant
  failed                     \* an assertion failed or a module threw

tsVars == <<packetRequestedFromUs, packetRequestedFromInputs>>
macVars == <<transmitState, macTimer, sending>>
gateVars == <<gateOpen, entry, tick>>
messageVars == <<messages, tsMessages>>
vars == <<queue, gateVars, tsVars, shaper, macVars, messageVars, arrivals, failed>>

Never == -1
None == -1

Slot == [timeInterval : Nat \ {0}, gates : SUBSET Queues]

ASSUME QueuingAssumption ==
  /\ Queues \subseteq Nat /\ IsFiniteSet(Queues)
  /\ ExpressQueues \subseteq Queues
  /\ LengthAwareGates \subseteq Queues
  /\ Lengths \subseteq Nat \ {0}
  /\ ShapedQueues \subseteq Queues
  /\ {SendSlope, ShaperOverhead} \subseteq Nat \ {0}
  /\ {PreambleSize, MtuTime, BufferCapacity, MaxArrivals, MaxCredit} \subseteq Nat
  /\ InterFrameGap \in Nat \ {0}
  /\ ControlList \in Seq(Slot) /\ ControlList # <<>>

-----------------------------------------------------------------------------
\* The event queue

Message(what, q) == [what |-> what, class |-> q, length |-> 0]

Frame(what, q, length) == [what |-> what, class |-> q, length |-> length]

\* cancelEvent(msg); scheduleAt(simTime(), msg): a message is queued once at most.
Reschedule(s, m) == Append(RemoveFirst(s, m), m)

ToSelf(m) == messages' = Reschedule(messages, m) /\ UNCHANGED tsMessages

\* The head of the messages is handled; its handler sends m, or nothing.
Becomes(m) == messages' = Reschedule(Tail(messages), m) /\ UNCHANGED tsMessages

\* TransmissionSelection::packetEnqueued, called by a handler of a message
Notify(kind) ==
  messages' = Tail(messages) /\ tsMessages' = Reschedule(tsMessages, kind)

Ends == messages' = Tail(messages) /\ UNCHANGED tsMessages

\* An event that was scheduled at an earlier instant, and not renewed since.
EarlierIsDue == macTimer = 0 \/ \E q \in ShapedQueues : shaper[q].timer = 0

TimerIsDue == tick = 0 \/ EarlierIsDue

Handles(what, q) ==
  /\ ~failed
  /\ ~EarlierIsDue
  /\ messages # <<>>
  /\ Head(messages).what = what
  /\ Head(messages).class = q

\* Mutant: the transmission selection has the priority of the other modules.
HandlesOwnAmongOthers(kind) ==
  /\ ~failed
  /\ ~TimerIsDue
  /\ tsMessages # <<>>
  /\ Head(tsMessages) = kind

HandlesOwn(kind) ==
  /\ ~failed
  /\ ~TimerIsDue
  /\ messages = <<>>
  /\ tsMessages # <<>>
  /\ Head(tsMessages) = kind

Fail == failed' = TRUE /\ UNCHANGED <<queue, gateVars, tsVars, shaper, macVars, messageVars, arrivals>>

-----------------------------------------------------------------------------
\* What the modules ask each other

\* The entry n places behind entry i.
NextIndex(i, n) == ((i + n - 1) % Len(ControlList)) + 1

\* Time until the entry n places behind the running one begins.
TimeUntilEntry ==
  LET until[n \in 0 .. Len(ControlList)] ==
        CASE n = 0 -> 0
          [] n = 1 -> IF tick = Never THEN 0 ELSE tick
          [] OTHER -> until[n - 1] + ControlList[NextIndex(entry, n - 1)].timeInterval
  IN  until

\* GateController::calculateMaxBit: entries are looked at until one closes the
\* gate or an MTU fits.
CalculateMaxBit(q) ==
  LET closing == {n \in 0 .. Len(ControlList) - 1 :
                    q \notin ControlList[NextIndex(entry, n)].gates}
  IN  IF closing = {} THEN MtuTime ELSE Min({TimeUntilEntry[Min(closing)], MtuTime})

MaxTransferableBits(q) == IF q \in LengthAwareGates THEN CalculateMaxBit(q) ELSE MtuTime

\* Mutant: the preamble is forgotten.
FitsWithoutPreamble(length, maxBits) == length <= maxBits

Fits(length, maxBits) == length + PreambleSize <= maxBits

\* LengthAwareQueue::isEmpty
QueueIsEmpty(q, maxBits) == queue[q] = <<>> \/ ~Fits(Head(queue[q]), maxBits)

\* CreditBasedShaper::isPacketReadyForTransmission
IsPacketReadyForTransmission(q) == ~QueueIsEmpty(q, MtuTime)

InDebt(q) == q \in ShapedQueues /\ shaper[q].credit < 0

\* TSAlgorithm::isEmpty, CreditBasedShaper::isEmpty
AlgorithmIsEmpty(q, maxBits) == InDebt(q) \/ QueueIsEmpty(q, maxBits)

\* TransmissionGate::isEmpty
IsEmpty(q) == q \notin gateOpen \/ AlgorithmIsEmpty(q, MaxTransferableBits(q))

Ready == {q \in Queues : ~IsEmpty(q)}

\* Mutant: express queues are not preferred.
HighestChosen == Max(Ready)

\* TransmissionSelection::schedulePacket: express queues first
Chosen ==
  IF Ready \cap ExpressQueues # {} THEN Max(Ready \cap ExpressQueues) ELSE Max(Ready)

-----------------------------------------------------------------------------
\* The states of a shaper.  timer is the time until reachedZeroCredit while it
\* earns, and until endSpendingCredit while it spends; age is the time since
\* lastEventTimestamp, which only an earning shaper reads.

Idle(credit) == [state |-> "kIdle", credit |-> credit, age |-> 0, timer |-> Never]

\* Credit below zero is waited for.
Earning(credit) ==
  [state |-> "kEarnCredit", credit |-> credit, age |-> 0,
   timer |-> IF credit < 0 THEN -credit ELSE Never]

Spending(credit, time) ==
  [state |-> "kSpendCredit", credit |-> credit, age |-> 0, timer |-> time]

\* earnCredits(simTime() - lastEventTimestamp)
CreditOf(q) == Min({shaper[q].credit + shaper[q].age, MaxCredit})

ShaperBecomes(q, state) == shaper' = [shaper EXCEPT ![q] = state]

-----------------------------------------------------------------------------
Init ==
  /\ queue = [q \in Queues |-> <<>>]
  /\ gateOpen = Queues
  /\ entry = Len(ControlList)
  /\ tick = 0
  /\ packetRequestedFromUs = FALSE
  /\ packetRequestedFromInputs = FALSE
  /\ shaper = [q \in ShapedQueues |-> Idle(0)]
  /\ transmitState = "TX_IDLE_STATE"
  /\ macTimer = Never
  /\ sending = None
  /\ messages = <<>>
  /\ tsMessages = <<"requestPacket">>
  /\ arrivals = MaxArrivals
  /\ failed = FALSE

-----------------------------------------------------------------------------
\* Arrival of frames

BufferUsed(q) ==
  LET used[n \in 0 .. Len(queue[q])] == IF n = 0 THEN 0 ELSE used[n - 1] + queue[q][n]
  IN  used[Len(queue[q])]

\* Mutant: a frame is enqueued as long as there is room at all.
HasAnyRoom(q, length) == BufferUsed(q) < BufferCapacity

HasRoom(q, length) == BufferUsed(q) + length <= BufferCapacity

\* LengthAwareQueue::enqueue: the algorithm is notified of a frame that was
\* dropped, too.
Arrive(q, length) ==
  /\ ~failed
  /\ arrivals > 0
  /\ arrivals' = arrivals - 1
  /\ queue' = IF HasRoom(q, length) THEN [queue EXCEPT ![q] = Append(@, length)] ELSE queue
  /\ ToSelf(Message("algorithm.packetEnqueued", q))
  /\ UNCHANGED <<gateVars, tsVars, shaper, macVars, failed>>

\* TSAlgorithm::handlePacketEnqueuedEvent
AlgorithmPacketEnqueued(q) ==
  /\ q \notin ShapedQueues
  /\ Handles("algorithm.packetEnqueued", q)
  /\ Becomes(Message("gate.packetEnqueued", q))
  /\ UNCHANGED <<queue, gateVars, tsVars, shaper, macVars, arrivals, failed>>

\* TransmissionGate::handlePacketEnqueuedEvent
GatePacketEnqueued(q) ==
  /\ Handles("gate.packetEnqueued", q)
  /\ IF q \in gateOpen THEN Notify("packetEnqueued") ELSE Ends
  /\ UNCHANGED <<queue, gateVars, tsVars, shaper, macVars, arrivals, failed>>

-----------------------------------------------------------------------------
\* Gates

\* GateController::tick
Tick ==
  /\ ~failed
  /\ tick = 0
  /\ tick' = Never
  /\ ToSelf(Message("gateController.updateSchedule", None))
  /\ UNCHANGED <<queue, gateOpen, entry, tsVars, shaper, macVars, arrivals, failed>>

\* The gates whose state changes send themselves a message, in their order.
Changes(old, new) ==
  LET changed == SymDiff(old, new)
  IN  [n \in 1 .. Cardinality(changed) |->
         Message("gate.stateChanged",
                 CHOOSE q \in changed : Cardinality({r \in changed : r <= q}) = n)]

\* GateController::updateSchedule, and TransmissionGate::setGateState
UpdateSchedule ==
  LET next == NextIndex(entry, 1)
  IN  /\ Handles("gateController.updateSchedule", None)
      /\ entry' = next
      /\ gateOpen' = ControlList[next].gates
      /\ tick' = ControlList[next].timeInterval
      /\ messages' = Tail(messages) \o Changes(gateOpen, ControlList[next].gates)
      /\ UNCHANGED <<queue, tsVars, shaper, macVars, tsMessages, arrivals, failed>>

\* Mutant: the transmission selection is not told of a gate that opens.
OpensSilently(q) == FALSE

\* TransmissionGate::handleGateStateChangedEvent notifies only of a frame that fits.
OpensWithFrame(q) == q \in gateOpen /\ ~AlgorithmIsEmpty(q, MaxTransferableBits(q))

GateStateChanged(q) ==
  /\ Handles("gate.stateChanged", q)
  /\ tsMessages' = IF OpensWithFrame(q) THEN Reschedule(tsMessages, "packetEnqueued")
                                        ELSE tsMessages
  /\ messages' = IF q \in ShapedQueues
                   THEN Reschedule(Tail(messages), Message("algorithm.gateStateChanged", q))
                   ELSE Tail(messages)
  /\ UNCHANGED <<queue, gateVars, tsVars, shaper, macVars, arrivals, failed>>

-----------------------------------------------------------------------------
\* The transmission selection and the way of a request to the queue

\* schedulePacket requests a frame from the chosen gate.
SchedulePacket ==
  messages' = IF Ready = {} THEN messages
                            ELSE Reschedule(messages, Message("gate.requestPacket", Chosen))

\* handleRequestPacketEvent
TSRequestPacket ==
  /\ HandlesOwn("requestPacket")
  /\ IF packetRequestedFromUs \/ packetRequestedFromInputs
     THEN Fail
     ELSE /\ packetRequestedFromUs' = TRUE
          /\ packetRequestedFromInputs' = (Ready = {})
          /\ SchedulePacket
          /\ tsMessages' = Tail(tsMessages)
          /\ arrivals' = 0
          /\ UNCHANGED <<queue, gateVars, shaper, macVars, failed>>

\* handlePacketEnqueuedEvent: without a request of the MAC its listeners are
\* notified, and the MAC of INET is none.
TSPacketEnqueued ==
  /\ HandlesOwn("packetEnqueued")
  /\ IF packetRequestedFromInputs
     THEN SchedulePacket /\ packetRequestedFromInputs' = (Ready = {})
     ELSE UNCHANGED <<messages, packetRequestedFromInputs>>
  /\ tsMessages' = Tail(tsMessages)
  /\ arrivals' = 0
  /\ UNCHANGED <<queue, gateVars, packetRequestedFromUs, shaper, macVars, failed>>

\* TransmissionGate::handleRequestPacketEvent; TSAlgorithm::requestPacket
\* asserts the same again.
GateRequestPacket(q) ==
  /\ Handles("gate.requestPacket", q)
  /\ IF IsEmpty(q)
     THEN Fail
     ELSE /\ Becomes(Frame("algorithm.requestPacket", q, MaxTransferableBits(q)))
          /\ UNCHANGED <<queue, gateVars, tsVars, shaper, macVars, arrivals, failed>>

\* TSAlgorithm::handleRequestPacketEvent
AlgorithmRequestPacket(q) ==
  /\ Handles("algorithm.requestPacket", q)
  /\ Becomes(Frame("queue.requestPacket", q, Head(messages).length))
  /\ UNCHANGED <<queue, gateVars, tsVars, shaper, macVars, arrivals, failed>>

\* LengthAwareQueue::handleRequestPacketEvent
QueueRequestPacket(q) ==
  /\ Handles("queue.requestPacket", q)
  /\ IF QueueIsEmpty(q, Head(messages).length)
     THEN Fail
     ELSE /\ queue' = [queue EXCEPT ![q] = Tail(@)]
          /\ Becomes(Frame("algorithm.packet", q, Head(queue[q])))
          /\ UNCHANGED <<gateVars, tsVars, shaper, macVars, arrivals, failed>>

\* TSAlgorithm::handleMessage, TransmissionGate::handleMessage: neither looks at
\* the gate again.
AlgorithmPacket(q) ==
  /\ q \notin ShapedQueues
  /\ Handles("algorithm.packet", q)
  /\ Becomes(Frame("gate.packet", q, Head(messages).length))
  /\ UNCHANGED <<queue, gateVars, tsVars, shaper, macVars, arrivals, failed>>

GatePacket(q) ==
  /\ Handles("gate.packet", q)
  /\ Becomes(Frame("selection.packet", q, Head(messages).length))
  /\ UNCHANGED <<queue, gateVars, tsVars, shaper, macVars, arrivals, failed>>

\* TransmissionSelection::handleMessage
SelectionPacket(q) ==
  /\ Handles("selection.packet", q)
  /\ IF packetRequestedFromUs
     THEN /\ packetRequestedFromUs' = FALSE
          /\ Becomes(Frame("mac.packet", q, Head(messages).length))
          /\ UNCHANGED <<queue, gateVars, packetRequestedFromInputs, shaper, macVars, arrivals, failed>>
     ELSE Fail

-----------------------------------------------------------------------------
\* The credit-based shaper

\* handlePacketEnqueuedEvent
ShaperPacketEnqueued(q) ==
  /\ q \in ShapedQueues
  /\ Handles("algorithm.packetEnqueued", q)
  /\ LET starts == shaper[q].state = "kIdle" /\ q \in gateOpen
     IN  IF ~IsPacketReadyForTransmission(q) \/ (starts /\ InDebt(q))
         THEN Fail
         ELSE /\ IF starts
                 THEN /\ ShaperBecomes(q, Earning(shaper[q].credit))
                      /\ Becomes(Message("gate.packetEnqueued", q))
                 ELSE Ends /\ UNCHANGED shaper
              /\ UNCHANGED <<queue, gateVars, tsVars, macVars, arrivals, failed>>

\* Mutant: a shaper in debt waits for a frame.
StartsReady(q) == IsPacketReadyForTransmission(q)

StartsWhenOpened(q) == InDebt(q) \/ IsPacketReadyForTransmission(q)

\* handleGateStateChangedEvent
ShaperGateStateChanged(q) ==
  /\ Handles("algorithm.gateStateChanged", q)
  /\ IF q \in gateOpen /\ shaper[q].state = "kEarnCredit"
     THEN Fail
     ELSE /\ CASE q \in gateOpen /\ shaper[q].state = "kIdle" /\ StartsWhenOpened(q) ->
                    ShaperBecomes(q, Earning(shaper[q].credit))
              [] q \notin gateOpen /\ shaper[q].state = "kEarnCredit" ->
                    ShaperBecomes(q, Idle(CreditOf(q)))
              [] OTHER -> UNCHANGED shaper
          /\ Ends
          /\ UNCHANGED <<queue, gateVars, tsVars, macVars, arrivals, failed>>

\* Mutant: a frame is paid for at the idle slope.
CreditAtIdleSlope(q, time) == CreditOf(q) - time

CreditAfterSend(q, time) == CreditOf(q) - SendSlope * time

\* handleSendPacketEvent: the credit is spent at once.
ShaperSendPacket(q) ==
  LET length == Head(messages).length
      time == length + ShaperOverhead
  IN  /\ q \in ShapedQueues
      /\ Handles("algorithm.packet", q)
      /\ IF shaper[q].state # "kEarnCredit" \/ InDebt(q) \/ shaper[q].timer # Never
         THEN Fail
         ELSE /\ ShaperBecomes(q, Spending(CreditAfterSend(q, time), time))
              /\ Becomes(Frame("gate.packet", q, length))
              /\ UNCHANGED <<queue, gateVars, tsVars, macVars, arrivals, failed>>

\* Out of debt, with an open gate: the next frame is offered, or, when there is
\* none, the credit is lost.
OfferNext(q, credit) ==
  IF IsPacketReadyForTransmission(q)
  THEN ShaperBecomes(q, Earning(credit)) /\ ToSelf(Message("gate.packetEnqueued", q))
  ELSE ShaperBecomes(q, Idle(0)) /\ UNCHANGED messageVars

\* handleEndSpendingCreditEvent
EndSpendingCredit(q) ==
  /\ ~failed
  /\ shaper[q].state = "kSpendCredit"
  /\ shaper[q].timer = 0
  /\ IF q \in gateOpen /\ ~InDebt(q)
     THEN OfferNext(q, shaper[q].credit)
     ELSE /\ ShaperBecomes(q, IF q \in gateOpen THEN Earning(shaper[q].credit)
                                                ELSE Idle(shaper[q].credit))
          /\ UNCHANGED messageVars
  /\ UNCHANGED <<queue, gateVars, tsVars, macVars, arrivals, failed>>

\* handleZeroCreditReachedEvent
ZeroCreditReached(q) ==
  /\ ~failed
  /\ shaper[q].state = "kEarnCredit"
  /\ shaper[q].timer = 0
  /\ IF q \notin gateOpen \/ CreditOf(q) < 0
     THEN Fail
     ELSE /\ OfferNext(q, 0)
          /\ UNCHANGED <<queue, gateVars, tsVars, macVars, arrivals, failed>>

-----------------------------------------------------------------------------
\* The MAC

\* EtherMacFullDuplex::handleUpperPacket
MacPacket(q) ==
  /\ Handles("mac.packet", q)
  /\ IF transmitState = "TX_IDLE_STATE"
     THEN /\ transmitState' = "TRANSMITTING_STATE"
          /\ macTimer' = Head(messages).length + PreambleSize
          /\ sending' = q
          /\ Ends
          /\ UNCHANGED <<queue, gateVars, tsVars, shaper, arrivals, failed>>
     ELSE Fail

EndTx ==
  /\ ~failed
  /\ macTimer = 0
  /\ transmitState = "TRANSMITTING_STATE"
  /\ transmitState' = "WAIT_IFG_STATE"
  /\ macTimer' = InterFrameGap
  /\ sending' = None
  /\ UNCHANGED <<queue, gateVars, tsVars, shaper, messageVars, arrivals, failed>>

\* getNextFrameFromQueue requests a frame unless a request is pending.
EndIFG ==
  /\ ~failed
  /\ macTimer = 0
  /\ transmitState = "WAIT_IFG_STATE"
  /\ transmitState' = "TX_IDLE_STATE"
  /\ macTimer' = Never
  /\ tsMessages' = IF packetRequestedFromUs THEN tsMessages
                                            ELSE Reschedule(tsMessages, "requestPacket")
  /\ UNCHANGED <<queue, gateVars, tsVars, shaper, sending, messages, arrivals, failed>>

-----------------------------------------------------------------------------
Settled == messages = <<>> /\ tsMessages = <<>> /\ ~TimerIsDue /\ ~failed

Aged(s) ==
  [s EXCEPT !.age = IF s.state = "kEarnCredit" /\ s.credit + s.age < MaxCredit THEN @ + 1 ELSE @,
            !.timer = IF @ = Never THEN Never ELSE @ - 1]

Elapse ==
  /\ Settled
  /\ tick' = tick - 1
  /\ macTimer' = IF macTimer = Never THEN Never ELSE macTimer - 1
  /\ shaper' = [q \in ShapedQueues |-> Aged(shaper[q])]
  /\ arrivals' = MaxArrivals
  /\ UNCHANGED <<queue, gateOpen, entry, tsVars, transmitState, sending, messageVars, failed>>

HandleClass(q) ==
  \/ AlgorithmPacketEnqueued(q) \/ GatePacketEnqueued(q) \/ GateStateChanged(q)
  \/ GateRequestPacket(q) \/ AlgorithmRequestPacket(q) \/ QueueRequestPacket(q)
  \/ AlgorithmPacket(q) \/ GatePacket(q) \/ SelectionPacket(q) \/ MacPacket(q)

HandleShaper(q) ==
  \/ ShaperPacketEnqueued(q) \/ ShaperGateStateChanged(q) \/ ShaperSendPacket(q)
  \/ EndSpendingCredit(q) \/ ZeroCreditReached(q)

\* What the kernel does: handle the events of the instant and let time pass.
Kernel ==
  \/ \E q \in Queues : HandleClass(q)
  \/ \E q \in ShapedQueues : HandleShaper(q)
  \/ Tick \/ UpdateSchedule
  \/ TSRequestPacket \/ TSPacketEnqueued
  \/ EndTx \/ EndIFG
  \/ Elapse

\* The gates are being changed: the list was advanced, or will be by a message
\* that is under way, and the shaper was not told yet.
GateIsChanging(q) ==
  \E i \in 1 .. Len(messages) :
    \/ messages[i].what = "gateController.updateSchedule"
    \/ /\ messages[i].class = q
       /\ messages[i].what \in {"gate.stateChanged", "algorithm.gateStateChanged"}

\* Frames arrive at any time.
Next ==
  \/ Kernel
  \/ \E q \in Queues, length \in Lengths : Arrive(q, length)

Spec == Init /\ [][Next]_vars /\ WF_vars(Kernel)

\* No frame for a shaper arrives between a tick and the message that tells the
\* shaper of the gates after it.  Nothing in the code keeps it from coming then: a
\* shaper that sees its gate open and starts to earn credit for the frame fails the
\* assertion of handleGateStateChangedEvent (CreditBasedShaper.cc:173) afterwards.
CarefulArrive(q, length) == (q \in ShapedQueues => ~GateIsChanging(q)) /\ Arrive(q, length)

CarefulNext ==
  \/ Kernel
  \/ \E q \in Queues, length \in Lengths : CarefulArrive(q, length)

CarefulSpec == Init /\ [][CarefulNext]_vars /\ WF_vars(Kernel)

-----------------------------------------------------------------------------
TypeOK ==
  /\ queue \in [Queues -> Seq(Lengths)]
  /\ \A q \in Queues : BufferUsed(q) <= BufferCapacity
  /\ gateOpen \subseteq Queues
  /\ entry \in 1 .. Len(ControlList)
  /\ tick \in Nat \cup {Never}
  /\ {packetRequestedFromUs, packetRequestedFromInputs, failed} \subseteq BOOLEAN
  /\ \A q \in ShapedQueues :
       /\ shaper[q].state \in {"kIdle", "kEarnCredit", "kSpendCredit"}
       /\ shaper[q].credit \in Int
       /\ {shaper[q].age, shaper[q].timer} \subseteq Nat \cup {Never}
  /\ transmitState \in {"TX_IDLE_STATE", "TRANSMITTING_STATE", "WAIT_IFG_STATE"}
  /\ macTimer \in Nat \cup {Never}
  /\ sending \in Queues \cup {None}
  /\ \A i \in 1 .. Len(messages) : messages[i].class \in Queues \cup {None}
  /\ tsMessages \in Seq({"requestPacket", "packetEnqueued"})
  /\ arrivals \in 0 .. MaxArrivals

\* Every variable keeps its type, and no module of the pipeline throws or fails an
\* assertion: a frame that was promised to a request is still there, and its gate
\* open, when the request reaches the queue; the MAC gets one frame per request,
\* when it is idle.  (As long as no frame for a shaper arrives between a tick and
\* the change of its gate: see CarefulArrive.)
AssertionsHold == TypeOK /\ ~failed

\* A frame of a length-aware gate is on the link, with its preamble, only while
\* the gate is open, also when the gate closed at the instant it was requested.
TransmissionInSlot == Settled /\ sending \in LengthAwareGates => sending \in gateOpen

\* Between the instants the MAC is never idle while a frame could be sent: no
\* notification of an arrival or of a gate that opens is lost.
WorkConserving == Settled /\ transmitState = "TX_IDLE_STATE" => Ready = {}

\* A shaper whose gate is open is on its way to its next frame: idle only without
\* debt and without a frame; in debt with a timer for the very time it is paid;
\* and credit is earned only while a frame waits.
ShaperKeepsWatch ==
  Settled => \A q \in ShapedQueues : q \in gateOpen =>
    /\ shaper[q].state = "kIdle" => ~InDebt(q) /\ ~IsPacketReadyForTransmission(q)
    /\ shaper[q].state = "kSpendCredit" => shaper[q].timer # Never
    /\ shaper[q].state = "kEarnCredit" =>
         IF InDebt(q) THEN shaper[q].credit + shaper[q].age + shaper[q].timer = 0
                      ELSE IsPacketReadyForTransmission(q)

\* No credit piles up that would pay for two frames: after every frame the shaper
\* is in debt, so that the next one waits until the MAC is done with the first,
\* although transmissionTime() is longer than the MAC needs.
PaysForOneFrame ==
  \A q \in ShapedQueues : CreditOf(q) < SendSlope * (Min(Lengths) + ShaperOverhead)

\* A frame starts only when no express queue, or else no higher class, was
\* ready when it was chosen.
StartsHighest ==
  [][\A q \in Queues : MacPacket(q) =>
       \A r \in Ready : \/ q \in ExpressQueues /\ (r \in ExpressQueues => r <= q)
                        \/ {q, r} \cap ExpressQueues = {} /\ r <= q]_vars

\* The class has a slot of its own that is long enough for its frames, after
\* what is left of the last frame of the slot before and the gap.  Only a gate
\* that is not length-aware lets a frame run on.
HasOwnSlot(q) ==
  LET overrun == IF Queues \ {q} \subseteq LengthAwareGates THEN 0 ELSE MtuTime
  IN  \E i \in 1 .. Len(ControlList) :
        /\ ControlList[i].gates = {q}
        /\ \A length \in Lengths :
             overrun + InterFrameGap + length + PreambleSize <= ControlList[i].timeInterval

\* A class with a slot of its own gets its frames sent, however many frames of
\* higher classes arrive.
FramesAreSent == \A q \in Queues : HasOwnSlot(q) => (queue[q] # <<>> ~> sending = q)
=============================================================================
