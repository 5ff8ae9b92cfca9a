--------------------------- MODULE ScheduledSender ---------------------------
(***************************************************************************)
(* A UdpScheduledTrafficGenerator and the schedule manager it listens to:  *)
(* whenever the manager executes an entry of its list, the generator sends *)
(* itself a message, and on that message a datagram with what operState is *)
(* then.  The generator can be crashed and started again at any time; it   *)
(* disables the manager when it goes down and enables it when it comes up. *)
(* Its one message to itself carries START, STOP or SEND.                  *)
(*                                                                         *)
(* Of INET's OperationalBase: it ends a simulation when a message of a     *)
(* module to itself arrives while the module is down, and takes a module   *)
(* down as soon as its handler of the operation returns.                   *)
(***************************************************************************)
EXTENDS ScheduleManager

VARIABLES
  operating,   \* operationalState is OPERATING
  sent         \* history: the datagrams sent since the list was started

senderVars == <<vars, operating, sent>>

managerState == <<adminVars, cycleTimerVars, listExecuteVars, listConfigVars, clockVars>>

SInit == Init /\ operating = TRUE /\ sent = <<>>

\* A step of the manager and its clock.
ManagerStep ==
  /\ ManagerNext
  /\ sent' = IF listExecuteState' = "NEW_CYCLE" THEN <<>> ELSE sent
  /\ UNCHANGED operating

\* handleMessageWhenDown
FailsWhenDown ==
  /\ failed' = TRUE
  /\ UNCHANGED <<managerState, queue, operating, sent>>

ProcessStart ==
  /\ Handles(START)
  /\ IF operating
     THEN SetEnabled(TRUE, Tail(queue)) /\ UNCHANGED <<operating, sent>>
     ELSE FailsWhenDown

ProcessSend ==
  /\ Handles(SEND)
  /\ IF operating
     THEN /\ queue' = Tail(queue)
          /\ sent' = Append(sent, operState)
          /\ UNCHANGED <<managerState, failed, operating>>
     ELSE FailsWhenDown

\* cancelEvent(&selfMsg)
Cancelled(q) == RemoveFirst(RemoveFirst(RemoveFirst(q, START), STOP), SEND)

\* Mutant: the message is not cancelled.
CrashWithMessage ==
  /\ ~failed /\ operating
  /\ SetEnabled(FALSE, queue)
  /\ operating' = FALSE
  /\ sent' = <<>>

HandleCrashOperation ==
  /\ ~failed /\ operating
  /\ SetEnabled(FALSE, Cancelled(queue))
  /\ operating' = FALSE
  /\ sent' = <<>>

HandleStartOperation ==
  /\ ~failed /\ ~operating
  /\ queue' = Append(queue, START)
  /\ operating' = TRUE
  /\ UNCHANGED <<managerState, failed, sent>>

\* The message goes to a module that is down when it arrives.
HandleStopOperation ==
  /\ ~failed /\ operating
  /\ queue' = Append(Cancelled(queue), STOP)
  /\ operating' = FALSE
  /\ UNCHANGED <<managerState, failed, sent>>

ProcessStop == Handles(STOP) /\ FailsWhenDown

Kernel == ManagerStep \/ ProcessStart \/ ProcessSend

\* A generator is not started at the instant it was crashed: a timestamp that was
\* being delivered would then make the manager go on where it was.
CarefulStart == queue = <<>> /\ HandleStartOperation

Operation == HandleCrashOperation \/ CarefulStart

Call == CarefulCall /\ UNCHANGED <<operating, sent>>

\* All that the code lets clients and operators do.
Next ==
  \/ Kernel \/ ProcessStop
  \/ HandleCrashOperation \/ HandleStartOperation \/ HandleStopOperation
  \/ AnyCall /\ UNCHANGED <<operating, sent>>

\* The kernel handles what is queued and then lets time pass.
Spec == SInit /\ [][Next]_senderVars /\ WF_senderVars(Kernel \/ ProcessStop)

\* Careful clients, and a generator that is never stopped but crashed, and not
\* started at the instant of the crash.  What is checked and proved is about them.
Fairness == WF_senderVars(Kernel)

CarefulSpec == SInit /\ [][Kernel \/ Operation \/ Call]_senderVars /\ Fairness

-----------------------------------------------------------------------------
\* Every variable keeps its type, and nothing ends the simulation, however updates,
\* timestamps, calls of careful clients, crashes and starts follow each other: no assertion
\* of setCycleStartTime, setConfigChangeTime, executeOperation or nextGateCloseEvent
\* fails, no message is scheduled twice, and none reaches a generator that is down.
AssertionsHold ==
  /\ TypeOK /\ operating \in BOOLEAN /\ sent \in Seq(States)
  /\ ~failed
  /\ GateMayAsk

\* The datagrams of a cycle are those of the entries executed so far, each once
\* and in their order: no entry is changed or exchanged between the call of the
\* listener and the message on which the generator reads operState.
DatagramsFollowList ==
  Running /\ ListLength > 0 =>
    /\ Len(sent) = listPointer
    /\ \A i \in DOMAIN sent : sent[i] = operSchedule.controlList[i].object

\* Clients make finitely many calls in an instant.
FiniteCalls == []<><<CarefulCall>>_vars => []<><<Elapse>>_vars

\* The manager never stops to start cycles as long as the generator is up, however
\* often the schedule is changed.
CyclesGoOn == FiniteCalls /\ []operating => []<>(listExecuteState = "NEW_CYCLE")

\* The schedule a careful client set last becomes operSchedule for good.
LastConfigIsApplied ==
  /\ FiniteCalls
  /\ []operating
  /\ <>[][\A s \in AdminSchedules : ~Reconfigure(s)]_vars
  => <>[](operSchedule = adminSchedule)

\* A generator that was crashed and started again sends again.
RestartedManagerRuns ==
  FiniteCalls /\ <>[]operating => []<>(listExecuteState = "NEW_CYCLE")
=============================================================================
