--------------------------- MODULE ForwardingRelay ---------------------------
(***************************************************************************)
(* The relays (ForwardingRelayUnit) of a tree of switches, each with its   *)
(* filtering database: from every unicast frame a relay learns where the   *)
(* sender is, and it sends the frame to where the database has the         *)
(* receiver, or everywhere.  Databases may be given entries when they are  *)
(* loaded, for hosts and for groups.  Ageing is not part of the model: no  *)
(* parameter of the program switches agingActive on.                       *)
(*                                                                         *)
(* An interface of a switch is named by the node at its other end.  The    *)
(* egress queue, the link and the way through the next MAC are one channel *)
(* per direction.                                                          *)
(***************************************************************************)
EXTENDS Integers, Sequences, SequencesExt, FiniteSets

CONSTANTS
  Hosts, Switches,
  Groups,          \* multicast addresses
  Members,         \* the hosts that listen to a group
  Interfaces,      \* the nodes at the interfaces of a switch
  Toward,          \* Toward[s][h]: the interface of s on the way to host h
  StaticEntries,   \* StaticEntries[s][a]: ports of the database file, {} for none
  BlockedPorts,    \* BlockedPorts[s]: those closed to broadcasts
  MaxFrames        \* bound: frames that are sent

Broadcast == "broadcast"
Addresses == Hosts \cup Groups \cup {Broadcast}
Nodes == Hosts \cup Switches

VARIABLES
  operFdb,    \* operFdb[s][a]: the ports of the entry, {} if there is none
  channel,    \* channel[<<x, y>>]: frames on the way from node x to y
  sent,       \* the frames hosts have sent
  received    \* received[h]: the frames that were for h, as they came

vars == <<operFdb, channel, sent, received>>

Frame == [src : Hosts, dst : Addresses, number : 1 .. MaxFrames]

Links == {<<s, x>> : s \in Switches, x \in Nodes} \cap
           UNION {{<<s, x>> : x \in Interfaces[s]} : s \in Switches}
Channels == Links \cup {<<l[2], l[1]>> : l \in Links}

ASSUME NameAssumption ==
  /\ Hosts \cap Switches = {} /\ Hosts \cap Groups = {}
  /\ Broadcast \notin Hosts \cup Groups
  /\ MaxFrames \in Nat

\* The network is a tree: of the two ends of a link between switches exactly one
\* has a host across the link, and no host is on the way to another.
ASSUME TopologyAssumption ==
  /\ \A s \in Switches : Interfaces[s] \subseteq Nodes \ {s}
  /\ \A s, t \in Switches : (t \in Interfaces[s]) <=> (s \in Interfaces[t])
  /\ \A h \in Hosts : \E s \in Switches : {t \in Switches : h \in Interfaces[t]} = {s}
  /\ \A s \in Switches, h \in Hosts :
       /\ Toward[s][h] \in Interfaces[s]
       /\ h \in Interfaces[s] => Toward[s][h] = h
       /\ Toward[s][h] \in Hosts => Toward[s][h] = h
       /\ \A t \in Switches \cap Interfaces[s] : Toward[s][h] = t <=> Toward[t][h] # s
  /\ \A g \in Groups : Members[g] \subseteq Hosts

\* The database files have a group's members everywhere or not at all, and a host
\* where it is, on every switch or on none: see EntriesPointHome.
ASSUME DatabaseAssumption ==
  /\ \A s \in Switches, h \in Hosts : StaticEntries[s][h] \subseteq {Toward[s][h]}
  /\ \A s, t \in Switches, h \in Hosts : (StaticEntries[s][h] = {}) <=> (StaticEntries[t][h] = {})
  /\ \A s \in Switches, g \in Groups :
       StaticEntries[s][g] \in {{}, {Toward[s][h] : h \in Members[g]}}

Init ==
  /\ operFdb = [s \in Switches |-> [a \in Hosts \cup Groups |-> StaticEntries[s][a]]]
  /\ channel = [c \in Channels |-> <<>>]
  /\ sent = {}
  /\ received = [h \in Hosts |-> <<>>]

\* The switch a host is connected to.
SwitchOf(h) == CHOOSE s \in Switches : h \in Interfaces[s]

SendFrame(h, dst) ==
  LET n == Cardinality({f \in sent : f.src = h})
      frame == [src |-> h, dst |-> dst, number |-> n + 1]
  IN  /\ Cardinality(sent) < MaxFrames /\ dst # h
      /\ sent' = sent \cup {frame}
      /\ channel' = [channel EXCEPT ![<<h, SwitchOf(h)>>] = Append(@, frame)]
      /\ UNCHANGED <<operFdb, received>>

\* Mutant: the frame is flooded to where it came from, too.
AllOtherInterfaces(s, from) == Interfaces[s] \ BlockedPorts[s]

\* processBroadcast
BroadcastPorts(s, from) == Interfaces[s] \ (BlockedPorts[s] \cup {from})

\* processMulticast, which takes the ports that are configured as they are.
MulticastPorts(s, from, group) ==
  IF operFdb[s][group] = {} THEN BroadcastPorts(s, from) ELSE operFdb[s][group] \ {from}

\* Mutant: the frame goes only where a host is that was learned.
LearnedPort(s, from, host) == operFdb[s][host]

\* getDestInterfaceId and the rest of processUnicast; an entry of several ports is
\* no entry.
UnicastPorts(s, from, host) ==
  IF Cardinality(operFdb[s][host]) = 1 THEN operFdb[s][host] ELSE BroadcastPorts(s, from)

PortsFor(s, from, dst) ==
  IF dst = Broadcast THEN BroadcastPorts(s, from)
  ELSE IF dst \in Groups THEN MulticastPorts(s, from, dst)
  ELSE UnicastPorts(s, from, dst)

\* Mutant: the relay learns where the receiver is.
LearnReceiver(s, from, frame) ==
  IF frame.dst \in Hosts THEN [operFdb EXCEPT ![s][frame.dst] = {from}] ELSE operFdb

\* Only processUnicast learns; a sender's entry is overwritten, also a static one.
Learn(s, from, frame) ==
  IF frame.dst \in Hosts THEN [operFdb EXCEPT ![s][frame.src] = {from}] ELSE operFdb

\* handleMessage of switch s for the i-th frame on the way from node x.
Relay(x, s, i) ==
  /\ i \in DOMAIN channel[<<x, s>>]
  /\ LET frame == channel[<<x, s>>][i]
         ports == PortsFor(s, x, frame.dst)
     IN  channel' = [c \in Channels |->
           LET rest == IF c = <<x, s>> THEN RemoveAt(channel[c], i) ELSE channel[c]
           IN  IF c[1] = s /\ c[2] \in ports THEN Append(rest, frame) ELSE rest]
  /\ operFdb' = Learn(s, x, channel[<<x, s>>][i])
  /\ UNCHANGED <<sent, received>>

\* The MAC accepts its own address, broadcasts and every multicast; of those, the
\* host's upper layers drop the ones for groups it is not a member of.
IsFor(h, dst) == dst \in {h, Broadcast} \/ (dst \in Groups /\ h \in Members[dst])

\* A host takes a frame that is for it and drops others.
Receive(h) ==
  LET link == <<SwitchOf(h), h>>
  IN  /\ channel[link] # <<>>
      /\ channel' = [channel EXCEPT ![link] = Tail(@)]
      /\ received' = [received EXCEPT ![h] =
           IF IsFor(h, Head(channel[link]).dst) THEN Append(@, Head(channel[link])) ELSE @]
      /\ UNCHANGED <<operFdb, sent>>

Send == \E h \in Hosts : \E dst \in Addresses : SendFrame(h, dst)

Next ==
  \/ Send
  \/ \E s \in Switches : \E x \in Interfaces[s] : Relay(x, s, 1)
  \/ \E h \in Hosts : Receive(h)

\* Frames that were sent go on their way.
Fairness ==
  /\ \A s \in Switches : \A x \in Interfaces[s] : WF_vars(Relay(x, s, 1))
  /\ \A h \in Hosts : WF_vars(Receive(h))

Spec == Init /\ [][Next]_vars /\ Fairness

\* Frames of a higher class overtake others in the egress queues.
Overtaking == \E s \in Switches : \E x \in Interfaces[s] :
  \E i \in DOMAIN channel[<<x, s>>] : Relay(x, s, i)

OvertakingSpec == Init /\ [][Next \/ Overtaking]_vars

-----------------------------------------------------------------------------
TypeOK ==
  /\ \A s \in Switches, a \in Hosts \cup Groups : operFdb[s][a] \subseteq Interfaces[s]
  /\ \A c \in Channels : channel[c] \in Seq(Frame)
  /\ sent \subseteq Frame
  /\ \A h \in Hosts : received[h] \in Seq(Frame)

\* Every variable keeps its type, and what a relay knows of a host is where the
\* host is, although relays learn from frames that others have flooded and that are
\* still on their way: no frame comes back by another way than it went.
EntriesPointHome ==
  /\ TypeOK
  /\ \A s \in Switches, h \in Hosts : operFdb[s][h] \subseteq {Toward[s][h]}

\* A host gets no frame twice and none it sent itself, whether relays flood it or
\* know the way.
ReceivedOnce ==
  \A h \in Hosts : /\ IsInjective(received[h])
                   /\ \A i \in DOMAIN received[h] : received[h][i].src # h

\* No port on the way to the host is blocked.
IsOpen(h) == \A s \in Switches : Toward[s][h] \notin BlockedPorts[s]

\* Every frame reaches everybody it is for, if no blocked port is on the way.
FramesArrive ==
  []<>(\A f \in sent, h \in Hosts :
         IsOpen(h) /\ h # f.src /\ IsFor(h, f.dst) => f \in ToSet(received[h]))
=============================================================================
