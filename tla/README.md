# A TLA+ verification of NeSTiNg with an adaptive gate control list

The repository is the NeSTiNg simulation model of Time-Sensitive Networking for
OMNeT++/INET, extended so that the gate control list (GCL) of a switch port is
changed while it is executed: a receiving host measures the delay of the
time-triggered (TT) packets and enlarges or shrinks the TT slot of the port the
flow passes. Paths below are relative to `src/nesting/src/nesting/`.

## 1. Inventory

| Component | State | Operations | Talks to | What makes it correct |
|---|---|---|---|---|
| Gate controller (`ieee8021q/queue/gating/GateController.cc`) | `currentSchedule`, `newSchedule`, `scheduleIndex`, `cycleStart`, `lastChange`, flags `isIncreased`, `isSelected` | `tick`, `updateSchedule`, `scheduleNextTickEvent`, `calculateMaxBit`, `getnewSchedule` | clock (tick subscription), transmission gates (set gates, lookahead), receivers (pointer to `newSchedule`), MAC (hold, release) | the gates follow the list; a cycle lasts the cycle time; a rewritten schedule is loaded, and only at a cycle start |
| Adaptive receiver, one switch (`application/ethernet/VlanEtherTrafGenGCL.cc`) | none of its own: it writes the controller's | `receivePacket` | gate controller, transmission selection | the reserved 10% stay reserved; overload enlarges the slot, and an early packet does not undo it; a proposal can always be loaded |
| Adaptive receiver, two switches (`application/ethernet/VlanEtherTrafGenGCL2.cc`) | the pointers `gateController`, `transmissionSelection`, the turn flags | `receivePacket` | two gate controllers | never both switches selected; the pointers belong together; only the selected switch changes |
| Schedule and factory (`common/schedule/Schedule.h`, `ScheduleFactory.cc`) | control list, cycle and base time | add, copy, normalise | everybody above | copies are faithful; negative intervals refused |
| Transmission selection (`ieee8021q/queue/TransmissionSelection.cc`) | pending requests, time of the last TT transmission | `requestPacket`, `packetEnqueued`, `handleMessage`, `removePendingRequests` | gates, MAC | a request is answered exactly once; no notification is lost |
| Gates, queues, strict priority (`ieee8021q/queue/`) | gate state, packets | enqueue, request, gate change | transmission selection, gate controller | no packet leaves a closed gate; no wake-up is lost |
| Credit-based shaper (`transmissionSelectionAlgorithms/CreditBasedShaper.cc`) | state, credit, timer | the same, and its two timers | gate, queue | its assertions hold; it always wakes up again; credit does not pile up |
| Schedule manager (`common/schedule/ScheduleManager.h`) | three 802.1Q state machines and their pending timestamps, `adminSchedule`, `operSchedule`, `listPointer` | cycle timer, list config, list execute; `setAdminSchedule`, `setConfigChange`, `setEnabled` | clock, its listeners | the assertions hold; `operState` follows the list; cycles go on; the schedule set last takes over, at a start of its own cycle |
| Clocks and oscillators (`common/time/`) | tick count, local time, subscriptions, frequency, drift | subscribe, unsubscribe, set frequency and drift | everybody with a schedule | every subscription is delivered once, in order, at its tick |
| Preemptable MAC (`linklayer/framePreemption/EtherMACFullDuplexPreemptable.cc`) | the frames it holds, five timers, bytes sent, hold state | preempt, hold, release, reassemble | transmission selection, gate controller, the MAC at the other end | express frames overtake; no part is too short; every frame arrives once, complete and in order |
| Relay, filtering database (`ieee8021q/relay/`) | MAC table | learn, forward, flood | ports | entries point to their hosts; every frame reaches everybody it is for, once |
| Scheduled traffic generator (`application/udpapp/UdpScheduledTrafficGenerator.cc`) | operational state, a message to itself | start, stop, crash, send | its schedule manager | one datagram per executed entry; crashes leave nothing behind |
| `VlanEtherTrafGenSched`, plain sources, VLAN encapsulation, cut-through MAC, filters and emitters | little | | | see section 5 |

What is hard here. Nothing runs in parallel, but the simulation kernel orders
events of the same instant by priority and insertion: a packet may arrive before
the tick, between `tick()` and the handling of `updateScheduleMsg`, or after it; two
ports update one after the other at the same instant; the state machines of a
schedule manager send each other messages of one instant; a request travels down
the queuing pipeline as messages while gates change. Modules write each other's
state through pointers (`getnewSchedule()`), a query has a side effect
(`calculateMaxBit()` moves `cycleStart`), flags are reset by one module and read
by another, and clocks count only when somebody calls them. `PROJECT.json` lists
these places as hazards.

## 2. Modules

| Module | Models | Proved about in |
|---|---|---|
| `GateController` | one port's gate controller | `GateControllerProofs` |
| `ScheduleExecution` (`MCScheduleExecution`) | a controller and a module that rewrites `newSchedule` at any instant | `ScheduleExecutionProofs` |
| `IntervalControl` | the arithmetic of `receivePacket`: step, maximum, clamp, `trunc` to microseconds | `GclAdaptiveProofs` |
| `GclAdaptive` (`MCGclAdaptive`) | `GateController` and the one-switch receiver | `GclAdaptiveProofs` |
| `SlotPromise` | abstract: what an adaptively controlled port promises | `GclAdaptiveProofs` |
| `GclTwoSwitch` (`MCGclTwoSwitch`) | the two-switch receiver and the flags of two controllers | `GclTwoSwitchProofs` |
| `Queuing` (`MCQueuing`) | queues, strict priority and credit-based shaper, gates and transmission selection of a port, between arriving frames, the gate controller and the MAC | `QueuingProofs` |
| `PreemptableMac` (`MCPreemptableMac`) | the MAC with frame preemption, both ends of a link, and hold and release of the gate controller | |
| `ScheduleManager` | the three state machines of a schedule manager, the clock's timestamps, its clients | `ScheduledSenderProofs` |
| `ScheduledSender` (`MCScheduledSender`) | `ScheduleManager` and the UDP traffic generator that listens to it | `ScheduledSenderProofs` |
| `TimerPromise` | abstract: a timer that tells everybody who asked, once, in order and on time | `ClocksProofs` |
| `Clocks` (`MCClocks`) | an oscillator, a `RealtimeClock` and a `LegacyClock` | `ClocksProofs` |
| `ForwardingRelay` (`MCForwardingRelay`) | the relays of a tree of switches with their filtering databases | `ForwardingRelayProofs` |

**GateController.** The variables have the names of the members. `Tick` is
`tick()` (it sends `updateScheduleMsg`), `UpdateSchedule` is the whole handler
of that message: load, reset of the flags, end of the cycle, gates, next tick,
index. `UpdateScheduleThrows` is the load that ends the simulation because
`addControlListEntry` refuses a negative interval. `CalculateMaxBit(g)` is a
lookahead of gate `g` that gets past the current schedule, which is when it
assigns `cycleStart`; lookaheads that stop earlier change nothing. Times are
relative to the present, so a run needs no bound on its length; `Elapse` shifts
them. Hold and release are in `PreemptableMac`, the number of bits in `Queuing`.

**ScheduleExecution.** In `Spec` a gate looks ahead only while the list fills its
cycle (`FillsCycle`); `AnyLookaheadSpec` lets it look ahead always, for the run
that shows what happens then. `ReachesLastEntry` is the condition under which a
rewritten schedule is loaded at all.

**GclAdaptive.** `ReceivePacket(delay)` is `receivePacket` for a TT packet. It
rewrites entries 0 and 1 of `newSchedule` by `TargetInterval` of
`IntervalControl` and sets `isIncreased`. `TransmitTT` is the recording of the
last TT transmission in the transmission selection, read with
`autoIntervalDecrease`; a packet is received only when the port has sent a TT frame,
and no sooner than its delay after the last one. `seen` and `transmitted` are history
variables. One unit of the control
law is one clock tick; `TicksPerUs` says how many make the microsecond to which
the code truncates.

**SlotPromise.** The executed slot only ever becomes the one proposed last,
proposals stay between the shortest and the longest slot, and an enlargement is
not taken back before it is executed. `GclAdaptive` implements it under the
mapping `executed <- TT(currentSchedule)`, `proposed <- TT(newSchedule)`,
`enlarged <- isIncreased`; `KeepsPromise` is the abstract specification as a
property, checked by TLC and proved.

**GclTwoSwitch.** Of each controller it keeps the two TT slots, the two flags
and whether its update of this instant is still due. `SelectSwitch` is the first
part of `receivePacket`, `AdjustInterval` the second. A pointer that was never
assigned is `None`; following it, and "switch select failed", are
`ReceiveFails`. `moved` is a history variable.

**Queuing.** `messages` holds the messages of the instant in order, named after
the module that sent them to itself: a request goes `TSRequestPacket`,
`GateRequestPacket`, `AlgorithmRequestPacket`, `QueueRequestPacket`, the frame
comes back by `AlgorithmPacket`, `GatePacket`, `SelectionPacket`, `MacPacket`, and a
notification goes `Arrive`, `AlgorithmPacketEnqueued`, `GatePacketEnqueued`,
`TSPacketEnqueued`. For a class in `ShapedQueues` the algorithm is the shaper, whose
handlers are `ShaperPacketEnqueued`, `ShaperGateStateChanged`, `ShaperSendPacket`
and its two timers; `age` is the time since its credit was last calculated, for
the code calculates it only when an event comes. The transmission selection gives
its own messages a lower priority (`tsMessages`): they wait until the tick, the
timers and all other messages of the instant are handled. From then on no frame
arrives at this instant (`arrivals`), because links have a delay. The gate
controller is reduced to what the port sees of it, with a list that fills its
cycle; `CalculateMaxBit` is the time until the gate closes, at most an MTU. The
MAC is INET's, `src/inet/.../EtherMacFullDuplex.cc`, without PAUSE frames. In `Spec`
frames arrive at any time; `CarefulSpec` leaves out the frame for a shaper that arrives
between the tick that changes its gate and `gateStateChanged` (`CarefulArrive`).

**PreemptableMac.** Handlers of the MAC call each other, so they are operators
from the record `port` to the next; the actions are the kernel's events:
`UpdateSchedule` (with hold and release as in `setGateStates` and
`scheduleNextTickEvent`), the MAC's timers `EndTx`, `EndIFG`, `Recheck`,
`PreemptTimer`, `HoldRequest`, the `TransmissionSelection` and `Deliver`. A part on the link is
a timer; at its end a message says how many bytes of the frame were sent so far,
and `receiving` is what the other end has of it. `accepted` and `delivered` are the
frames in and out, `waited` how long an express frame behind an open gate has
waited. The gate controller's tick comes before the MAC's timers of the instant.
`InitialPort` is the hold the controller asks for while the schedule is not loaded and
all gates are open. In `Spec` frames arrive at any time; `CarefulSpec` leaves out those
between the request for an express frame that preempts and the end of the part
on the link.

**ScheduleManager, ScheduledSender.** One action per state of a machine: `CycleIdle`,
`SetCycleStartTime`, `StartCycle` are `updateCycleTimerState()`; `ListInit`,
`NewCycle`, `ExecuteCycle`, `Delay`, `EndOfCycle` are `updateListExecuteState()`;
`ConfigPending`, `UpdateConfig`, `ConfigIdle` are `updateListConfigState()`; each
machine also has the step it takes while the manager is disabled. `queue` holds
the messages of the present instant in the order the kernel handles them:
`rescheduleAt()` moves a message to the end, and every call of the clock cancels
its tick and schedules it anew, which moves the tick to the end too. That order
decides what a machine reads of the others, so it is part of the state. An
assertion that fails sets `failed` and ends the behaviour. The methods of the
manager may be called between any two messages: in `Spec` one by one, as clients like
(`AnyCall`); in `CarefulSpec` (`CarefulCall`) they set a schedule together with the request
to change it, and not in the instant in which a change is being carried out. `ScheduledSender` adds the listener:
one message to itself that means START, STOP or SEND, the operations of the module's
life cycle, and `sent`, the datagrams since the list was started. `age` is a history
variable.

**Clocks.** `m` is the state of the three modules, because their methods call each
other; an operator per method. The oscillator has a sorted list of ticks and one
message, for the first of them; the `RealtimeClock` has a list of timestamps and
subscribes a tick for the first. `Elapse` counts nothing: the next caller calculates
the ticks gone by. `trueTick`, `trueTime` and `phase` are history variables that do
count; the two refinements of `TimerPromise` map its `time` to them, so that the
promise speaks of real time and not of what the code believes. In `Spec` callers
call at any instant; `CarefulSpec` has the guards `NotForThePast`, `Careful`,
`AllTicksAreCounted` and `NobodyShares`, each explained where it is defined. An entry of
the LegacyClock's `table` is `lost` when somebody else has cancelled its tick. `Alike`, the
symmetry of the run, is sound because no property or action names a listener.

**ForwardingRelay.** `Relay(x, s, i)` is all that switch `s` does with a frame from
interface `x`: learn, look up, send or flood. `channel` stands for an egress queue,
its link and the next MAC. `Toward[s][h]` is the interface of `s` on the way to host `h`;
`TopologyAssumption` says that the network is a tree (of the two ends of a link between
switches exactly one has a host across the link) and that a host is at one switch. In `Spec` a channel keeps the order;
`OvertakingSpec` lets frames of a higher class overtake.

## 3. Runs

| Run | Result | States | What it shows |
|---|---|---|---|
| `gate_lists` | holds | 1,279 | Lists that fill their cycle, run over its end, never reach their last entry, or are refused by the load are executed and exchanged at cycle starts, with lookaheads of two gates and rewrites at any instant. Rewrites take effect as long as the list reaches its last entry. |
| `gate_lookahead` | violated | | With a length-aware gate a list longer than its cycle is not cut: the lookahead has moved `cycleStart`. |
| `gcl_step` | holds | 157,791 | Reserved shares, no exception, overload enlarges, bounded change, `SlotPromise`. Lasting overload ends with the longest slot executed, lasting underload with the shortest. |
| `gcl_auto` | holds | 54,176 | With `autoIntervalDecrease`, whatever the receiver proposes: no tick in the past. |
| `two_auto` | holds | 6,788 | The selection of a switch survives packets between the resets of the two ports. |
| `sched_calls` | holds | 494,948 | Whatever the order of the messages of an instant and whenever careful clients call, the generator crashes and starts: no assertion fails, `operState` follows the list, a cycle ends in time, every executed entry is one datagram, schedules are exchanged at a start of the new one's cycle, cycles go on, the schedule set last takes over. (`CarefulSpec`) |
| `queue_shaped` | holds | 507,168 | Requests, notifications, arrivals, credit events and gate changes of one instant in every order: no assertion fails, no wake-up is lost, a frame of a length-aware gate is on the link only while the gate is open, the choice follows the priorities, a shaper always wakes up again and never saves up for two frames, and a class with a slot of its own is served. (`CarefulSpec`) |
| `mac_preempt` | holds | 1,078,464 | Frames are preempted only where both parts are long enough, every frame arrives once, complete and in order, an express frame waits no longer than a fragment, a checksum and a gap, and all frames arrive in the end. (`CarefulSpec`) |
| `mac_any_arrival` | violated | | When frames may arrive at any time, an express frame that waits for the end of the part it preempts is overwritten by the next one and lost. |
| `mac_hold` | violated | | With the sizes of the code a hold comes too late: a preemptable frame is still on the link when the express gate opens. |
| `clock_ticks` | holds | 283,099 | Whoever subscribes is told once, in order and at the first tick that reaches what was asked for, while frequency and drift change; both clocks implement `TimerPromise`. (`CarefulSpec`) |
| `relay_learns` | holds | 81,033 | Learned and static entries point to their hosts, and every frame reaches everybody it is for exactly once. |

The violated properties quote a comment of the code; the findings in
`PROJECT.json` give the lines.

**What CarefulSpec leaves out.** Four modules have a `Spec`, in which frames arrive and
clients call at any time, and a `CarefulSpec` without the cases in which the code
goes wrong. What is checked and proved of `CarefulSpec` is not claimed of `Spec`:

| Module | Left out | What fails under `Spec` |
|---|---|---|
| `Queuing` | a frame for a shaper between the tick that changes its gate and `gateStateChanged` | `AssertionsHold`, at `CreditBasedShaper.cc` line 173: the gate is open, the frame makes the shaper earn, and then the gate tells it that it opened |
| `PreemptableMac` | a frame between the request for an express frame that preempts and the end of the part on the link | `FramesConserved`, run `mac_any_arrival`: line 234 overwrites the express frame that waits |
| `ScheduledSender` | a schedule set without the request to change, or in the instant in which the change is carried out; `ModuleStopOperation`; a start in the instant of a crash | `ExchangedOnTime`: `ScheduleManager.h` line 240 takes whatever is `adminSchedule` then; `AssertionsHold`, at line 316 and when STOP arrives |
| `Clocks` | two timestamps between the same two ticks; a call at the instant of the tick that reaches a timestamp between ticks; asking between two ticks to be told at once; a change of the rate where ticks are not counted; cancelling a shared tick | `AssertionsHold`, at `RealtimeClock.cc` line 220 for the first two and when a message is scheduled in the past for the third; `TimestampsKeepPromise`; `TicksKeepPromise`, at `LegacyClock.cc` line 59 |

TLC finds each of these when `Spec` takes the place of `CarefulSpec` in the cfg.

**Divergences without a run of their own.** They follow from the same models; where
a definition shows one it is named.

* Gate lists. A list that never reaches its last entry is never replaced
  (`ReachesLastEntry`; `GateController.cc` line 331 says new schedules are loaded at
  the end of a cycle, line 338 looks at the index). A list shorter than its cycle starts again
  before the cycle is over (`Schedule.h` line 64 says it is repeated after each cycle).
* Control law. The clamp to 90% and 10% is taken before the maximum is looked at, so a
  slot may change by one step more than the maximum (`SlotChangeBounded` is stated
  accordingly). With `autoIntervalDecrease` the proposal for an early packet is not
  clamped: it is 1.1 times the time from the cycle start to the last TT
  transmission, which is negative for a packet that was sent in the cycle before, and the
  load refuses it and ends the simulation; the comment at line 209 of
  `VlanEtherTrafGenGCL.cc` admits it as a possible bug, that the next list is loaded already
  when the TT packet arrives. One early packet shrinks the slot although another packet of the cycle
  was between the limits.
* Two switches. A packet between the updates of the two ports makes both change at one
  cycle start (`OneSwitchPerCycle`, rule 3 in the comment at `VlanEtherTrafGenGCL2.cc`
  line 159); a BE packet at the start of a cycle selects the port of the cycle
  before, so that the late TT packet after it enlarges the exclusive switch first (rule 1).
* Shaper. `transmissionTime()` adds 41 bytes to frames that already have header, tag
  and checksum, where the MAC adds 20; were a frame paid for sooner than the MAC is
  done with it, the MAC would ask while the shaper spends credit and the assertion at
  line 210 would fail (`PaysForOneFrame` is the condition). A frame longer than the MTU
  fails the assertion at line 198. A shaper whose gate closes
  as it stops spending keeps positive credit without a frame, and a shaper starved by
  higher classes earns without a limit.
* MAC. With a hold
  while idle and a request pending, the transmission selection throws. A recheck at the
  instant the express gate closes leaves a request that is answered much later; a
  release while a preemptable part is on the link fails an assertion; a frame that
  comes during a hold is parked (lines 266 to 269) while `startFrameTransmission` expects
  it; a slot shorter than the hold advance gives a negative delay; `cancelAndDelete`
  of the recheck (line 224) leaves a dangling pointer; a preempted frame goes on when
  its gate is closed.
* Schedule manager and generator. `ModuleStopOperation` ends the simulation: the
  message STOP arrives when the module is down (`Spec` violates `AssertionsHold`, and
  `processStop` is never run). After a crash and a start the manager stays idle until it is
  configured again (`RestartedManagerRuns` is violated; `UdpScheduledTrafficGenerator.cc`
  line 100 says "Enable schedule"). A crash and a start in the instant a timestamp is being
  delivered make the machines go on with `configPending` set, and the assertion in
  `setCycleStartTime` fails. At a change of the schedule the first entry is executed,
  and its datagram sent, twice at one instant. A base time a cycle or more ahead makes the cast of a
  negative quotient (line 276), which `ManagerAssumption` excludes.
* Clocks. The ticks gone by before a change of rate are counted at the new rate
  (`ChangeFrequency`). `setLocalTime`, which nobody calls, does not reschedule.
* Relay. A frame that overtakes a flooded one makes a relay learn a wrong way, and frames are
  sent back to where they came from, because `processUnicast` does not compare the
  two interfaces (`OvertakingSpec` violates `EntriesPointHome`); so does a static entry
  on one switch only. Unicast and multicast frames pass ports that are blocked. "Static
  entries (ts == 0) do not age" (`FilteringDatabase.cc` line 244), but a lookup stamps them and learning overwrites
  them. Nothing is learned from broadcasts and multicasts.

**Bounds.** *Gate:* a cycle of 8 ticks with three entries has every relation between
entries and the end of the cycle and lists where two neighbouring entries open the
same gate, without which a lookahead never gets past an entry. `MtuTime` 3 lies
between the shortest and the longest entry. `MaxAhead`, two cycles, bounds how far
repeated lookaheads push `cycleStart`. *Control law:* `gcl_step` uses a cycle of
30 with two ticks to the microsecond, so that truncation loses something, and steps
that do not divide the band, so that clamp, maximum and step are all reached. Three
delays stand for late, in between and early, at the limits' own values. `MaxLag` caps
the age of the last TT transmission, above the longest delay, so that every delay can
be told from the ones before it. *Schedule manager:* schedules fill
their cycle with an entry of length zero, are longer than it with an entry that is never
reached, shorter than it, and empty; base times lie in the past, in the present and
ahead, and one has a cycle time extension. Their cycles (2, 3, 3, 4) make every
phase of one meet every phase of another; `MaxAge` 6 is more than the longest cycle
with its extension, as the proofs demand (`AgesAreCounted`). *Queuing:* a strict express class and a shaped class with a
length-aware gate, slots of each alone and of both, frames of two lengths that
take 3 or 4 units with their gap, so that they end at every distance from a gate
change, and a buffer that overflows; a shaper spends three times what it earns, so
that it is in debt across gate changes. Two frames may arrive at one instant. *MAC:* sizes are
scaled down in `mac_preempt` (frames of 5, 8 and 14, preamble 2, checksum 1, gap 2, minima 4):
one preemptable frame can be preempted twice, the other in one place only; three express and two
preemptable frames. `mac_hold` has the sizes of the code. *Clocks:* a tick lasts 2 or
3 units and adds up to one more to local time, so a timestamp 3 away lies on a tick or
between two; two pending subscriptions per clock, two changes of rate, a horizon of
8, after which `End` lets the rest of the behaviour stand still. *Relay:* three switches in a line, a host at each, one
group; three frames are enough for one to be flooded, one to be learned from and one that
meets both.

**Deadlock** is checked except in `gate_lists`, `gcl_auto` and `two_auto`, where a
refused load ends the simulation, and in `relay_learns`, which has finitely many frames.

**Fairness.** Everywhere it is the event loop of the kernel: time passes, a due event
is delivered, a queued message is handled. `ScheduleExecution` and `GclAdaptive` state it
for `Elapse`/`Wait`, `Tick` and `UpdateSchedule`, `ScheduledSender`, `Queuing` and
`PreemptableMac` for their whole `Kernel`, `ForwardingRelay` for every frame on its
way. Nothing is assumed of packets, lookaheads, rewrites, calls, crashes or arrivals:
where packets must keep coming, or the generator must stay up, the property says so.
`FiniteCalls`, a hypothesis of the manager's liveness, says that clients do
not call infinitely often in one instant. `FramesAreSent` speaks of classes with a slot
of their own only, and `FramesArrive` of hosts without a blocked port on the way.

## 4. Proofs

Proofs hold for every value of the constants that meets the modules' `ASSUME`s
and the hypotheses named here.

* `GclTwoSwitchProofs`: `TypeCorrect` (no sequence of packets and updates makes a
  port execute a slot outside its cycle) and `SelectionIsConsistent`, from which
  `SelectionNeverFails` (`AssertionsHold`), `PointersStayTogether` (`PointersAgree`) and
  `OtherSwitchKeepsSlot` (`OnlySelectedIsAdjusted`) follow. That a new selection
  sets one flag only when none is set needs that a selected port is where
  `gateController` points, and that `transmissionSelection` follows it.
* `GateControllerProofs` has what the others need of the controller: the sums over a
  control list (`EndsAreSums`, `EndsAreOrdered`: the entries of a list follow each other,
  and none that could be copied ends before it starts), which entry runs, and
  `LookaheadMovesOn`: a lookahead of a list that fills its cycle moves `cycleStart` by a whole
  cycle at least. The library's induction theorems take an operator as a parameter,
  which the provers cannot instantiate; `SetInduction` is the same for a set of numbers,
  and the lengths or positions for which a fact holds are such a set.
* `ScheduleExecutionProofs`: `PortFollowsSchedule` (types, `TickNotInThePast`,
  `GatesFollowSchedule`) for lists of any length, proposals written at any instant and
  lookaheads of any gate. The inductive invariant is `ExecutionInv`: what is executed
  could be copied (`ContentInv`), and the next tick is due at the end of the running
  entry, cut at the end of the cycle (`RunningInv`). The latter is measured from where the
  cycle really started, because a lookahead moves `cycleStart`; the code still
  cuts entries rightly only because it moves by a whole cycle, and that needs a
  list that fills its cycle. `CyclesKeepTime` (`CycleLastsCycleTime`, `ExchangedAtCycleStart`) has
  the hypothesis `NoShortList`: no list that may be written is shorter than the cycle. A
  shorter list starts again before its cycle is over, as section 3 says; the lists of
  `gate_lists` meet the hypothesis.
* `ForwardingRelayProofs`: `EntriesPointHomeAlways` (`EntriesPointHome`) and `ReceivedOnceAlways`
  (`ReceivedOnce`) for a tree of any size. Neither is inductive. What a relay learns is right
  because frames go away from their sender (`AwayInv`). That a unicast frame, once it has
  been flooded, is never sent back to where it came from needs that the switches it
  meets off its way know nothing of the receiver (`AstrayInv`), also when the
  frames before it on the channel have been handled; and that needs that knowledge of a
  host spreads from the host (`KnowInv`: behind a switch that knows nothing nobody
  knows). `OnceInv` says that the copies of a frame go to disjoint parts of the tree. Channels
  keep their order; without that neither holds (`OvertakingSpec`).
* `QueuingProofs`: the port for any number of classes, any control list, frames of any lengths.
  `FramesStayInSlot` (`TransmissionInSlot`) and `HighestStarts` (`StartsHighest`) hold
  of `Spec`, without a hypothesis. Both rest on `PortInv`: the port stands
  still for a request that travels down and for the frame that travels up (`ChainInv`:
  from the choice of a class to the MAC no gate changes and no frame arrives, so the class
  is still the highest and the frame still fits); there is one such message
  or none, and it is there exactly when a request is neither pending nor answered (`RequestInv`);
  the list advances once per tick (`GateInv`); and the frame on the link ends before any entry
  that closes its gate (`SlotInv`). `NoAssertionFails` (`AssertionsHold`),
  `NoFrameIsForgotten` (`WorkConserving`) and `ShapersKeepWatch` (`ShaperKeepsWatch`) hold of
  `CarefulSpec` (of `Spec` the first is false) and need `CarefulInv` too: what every state of a shaper says about its credit, its timer, its gate and the
  messages on their way to it (`ShaperInv`), that no frame for a shaper arrives between a
  tick and the change of the gates (`OrderInv`), and that while a request is open
  the transmission selection is about to hear of every frame it could be answered with
  (`WorkInv`). Hypotheses: `FramesFit`, every frame fits in the buffer and, with its preamble, in
  an MTU, as the shaper's assertion demands; and `[]PaysForOneFrame`, which is
  a matter of slopes, frame lengths and traffic and not of this code: `queue_shaped` checks
  that its configuration has it, and the configuration meets `FramesFit`.
* `GclAdaptiveProofs` has first the control law: truncation to microseconds moves
  towards zero by less than a microsecond; an increase enlarges or reaches the longest
  slot; increases and decreases stay in the reserved band, keep within the distance a
  cycle may see of the executed slot, and differ from it by a bounded amount.
  `ShapeInvariant` (types; both schedules have the cycle time
  and list length of the initial one; what is executed could be copied; before the
  first update the index is 0) carries the others. `TicksAreSound`: the next tick
  lies between now and the end of the running cycle, with the lookaheads of any
  length-aware gates (they only move `cycleStart` ahead). `LatePacketEnlarges` (`OverloadEnlarges`) needs `EnlargeInv`, that
  `isIncreased` says exactly that a late packet was seen, and that slots are whole
  microseconds; hypothesis `WholeMicroseconds`: the initial slot is one, and a step
  and the maximum increase are at least a microsecond. `ShareStaysReserved`
  (`ReservedShare`, `NeverThrows`) is not inductive either, because a decrease measures
  its distance to the executed slot in both directions: without an increase the
  proposal must be at most the executed slot or the shortest (`BandInv`). Hypothesis
  `Reserving`: base time 0, no `autoIntervalDecrease`, the initial TT and BE slots fill
  the cycle. `ExperimentNeverFails` puts types and exceptions together.
  There, too, is `PromiseIsKept`, the refinement of `SlotPromise`: the initial state
  maps to an initial one, and every step of the controller, the receiver and the transmission
  selection is an `Enlarge`, a `Shrink`, a `Load` or a stutter. The invariants above
  are not enough: that a second late packet takes nothing back, and that an early one
  does not enlarge, needs that the proposal is within the distance a cycle may see
  (`PaceInv`). Hypothesis `Experiment`: `Reserving`, `WholeMicroseconds`, and the initial
  TT slot leaves a tenth at both ends. `SlotChangesAreBounded` (`SlotChangeBounded`)
  needs `BoundInv`, the same bound for the proposal before it is loaded, and
  `WholeDecreases`: the decreasing step and maximum are whole microseconds, for
  truncation towards zero would otherwise make a negative difference smaller than it is
  counted. The constants of `gcl_step` meet both hypotheses.
* `ClocksProofs`: `ClocksNeverFail` (`AssertionsHold`), and `TimestampsAreKept` and
  `TicksAreKept` (`TimestampsKeepPromise`, `TicksKeepPromise`): each clock refines
  `TimerPromise`, the first with the local time, the second with the tick number as its
  time, for any number of listeners, changes, lengths of a tick and drifts. Modules that
  count only when called need an invariant that says what they would count:
  oscillator and clock would arrive at the true tick and the true local time
  (`CountsRightly`, `ClockCountsRightly`); no tick that is awaited has passed, and its time is
  the one `globalTimeFromTick` has for it (`EventsAhead`); the message is for the first
  of them; the clock awaits one tick, the first with which its local time
  reaches the first timestamp (`WaitsForFirst`); and the ticks of the
  LegacyClock are those of its table (`TableInv`). TLC checked that `ClocksInv` on the
  states of `clock_ticks`. The proof has one lemma per method, about the state it
  returns, and one per step. Assumed is `ClocksAssumption`, that no drift stops
  the clock. The theorems are about `CarefulSpec` (section 3); of `Spec` none of them holds.

* `ScheduledSenderProofs`: the schedule manager with its generator, for lists of any
  length, schedules of any kind and any sequence of calls, crashes and starts that
  `CarefulSpec` allows (section 3). `SenderAssertionsHold` (`AssertionsHold`), `OperStateIsTheEntrys`
  (`OperStateFollowsSchedule`), `CyclesEndInTime` (`CycleEndsInTime`),
  `DatagramsAreTheLists` (`DatagramsFollowList`) and `SchedulesExchangedOnTime`
  (`ExchangedOnTime`) all follow from one invariant, `SenderInv`, for what one machine does
  depends on what the others have left behind and on the order of the messages of the
  instant. Each message is queued once, and the clock's event is there exactly when a
  timestamp is due (`QueueInv`). `OrderInv`, `RestartInv` and `UpdateInv` give the
  orders that matter: the timer acts before the clock tells the next
  timestamp; a list is started, or goes on, before its schedule is exchanged; and when a
  schedule is exchanged the timer is told to start anew before anything else is
  told. `TimerInv` and `ConfigInv` say what the timer and a pending change wait for,
  and how old the cycle is when it comes; that bounds the cycle, except
  when the age does not matter because the list is about to start again in this
  instant (`Restarting`). `PlaceInv` is the heart: wherever the list machine is, the age of
  the cycle is the sum of the intervals of the entries before, `operState` is the
  object of the entry executed last and `sent` has one datagram for each; `SendInv` says
  that a datagram leaves before the machine goes on, so that none overtakes another.
  `DisabledInv`, `OperatingInv` and `StartInv` say what a crash and a start leave behind.
  The proof has one lemma per step, about what it does to the queue and the
  timestamps, and one for the invariant after it. `SenderInv` is an invariant of all
  states of `sched_calls`, too. Hypothesis `AgesAreCounted`: `MaxAge` is more than
  any cycle with its extension, so that the bound on the age is none.

Only model-checked: liveness (`NewScheduleIsLoaded`, `CyclesGoOn`, `LastConfigIsApplied`,
`FramesAreSent`, `FramesArrive` and the like), which is beyond the prover, for it cannot
reason about fairness and `ENABLED`; `PaysForOneFrame`, which is about particular
slopes, frames and traffic; and everything in `PreemptableMac`, whose state is a record
that goes through many handlers of one event, so that each step would need its invariant
carried through all of them. What a recursive definition computes for every input cannot be
proved with the library's induction theorems; where the proofs need such a fact,
about the sums of intervals, `SetInduction` takes their place.

## 5. Not modelled

* `src/inet` is the INET framework, third-party code of more than two thousand files
  that this repository does not change. Of it only what the modelled modules call is
  modelled, and simplified: the handlers of `EtherMacFullDuplex` in `Queuing` and
  `PreemptableMac`, `dropFrameNotForUs` in `ForwardingRelay`, messages to a module that is down
  (`OperationalBase`) in `ScheduledSender`. Simulations, configurations and result scripts have no behaviour of their own.
* `VlanEtherTrafGenSched` (deprecated): one tick that renews itself. Its schedule is set at
  initialization only, so the exchange at the end of a cycle never finds another one, and
  the jitter by which it delays a packet is within the delays the receivers' modules
  offer. The plain sources, `sendBurstPackets`, VLAN encapsulation, filters and emitters build, tag or
  count packets and keep no state that a property could be about. The cut-through MAC is
  INET's with a shorter delay.
* XML input, and `Schedule::normalize`, which `GateScheduleManager` calls before it sets a
  list: the runs of `ScheduleManager` have lists that are normal and lists that are not.
* Ownership of memory: the destructor of the gate controller (line 38) deletes two
  pointers that a load may have made the same.
* PAUSE frames and `enablePreemptingFrames = false` of the MAC; frames of a
  length-aware express gate together with preemption.
* `setLocalTime` and a stopped clock: nobody in the program calls the first, and
  no configuration sets a rate of zero. (Only tests change rate and drift, too; those
  changes are modelled.) The lists of
  `OscillatorBase::unsubscribeTicks` by listener or kind, which nobody calls.
* Ageing of the filtering database: no parameter switches `agingActive` on.

What would be next: `Queuing` and `GclAdaptive` in one module, so that slots change
while frames are under way; as a theorem, that `PreemptableMac` loses no frame.
