------------------------ MODULE ForwardingRelayProofs ------------------------
(***************************************************************************)
(* In every tree of switches, with any hosts, groups and databases that    *)
(* meet the assumptions, relays learn only where hosts are and send every  *)
(* frame at most once to a host.                                           *)
(***************************************************************************)
EXTENDS ForwardingRelay, FiniteSetTheorems, SequenceTheorems, TLAPS

IsUnicast(f) == f.dst \in Hosts

\* The shapes of the variables, and what is sent at all.
RelayShape ==
  /\ operFdb \in [Switches -> [Hosts \cup Groups -> SUBSET Nodes]]
  /\ channel \in [Channels -> Seq(Frame)]
  /\ received \in [Hosts -> Seq(Frame)]
  /\ sent \subseteq Frame /\ IsFiniteSet(sent)
  /\ \A s \in Switches, g \in Groups : operFdb[s][g] \subseteq Interfaces[s]

\* Frames on the way were sent, by somebody else than they are for, and the
\* numbers of a host's frames do not exceed how many it has sent.
OnlySentFrames ==
  /\ \A c \in Channels : \A i \in DOMAIN channel[c] : channel[c][i] \in sent
  /\ \A h \in Hosts : \A i \in DOMAIN received[h] : received[h][i] \in sent
  /\ \A f \in sent : f.src # f.dst
  /\ \A f \in sent : f.number <= Cardinality({g \in sent : g.src = f.src})

\* What a relay knows of a host is where the host is.
HomeInv == \A s \in Switches, h \in Hosts : operFdb[s][h] \subseteq {Toward[s][h]}

\* A frame with source h on channel c goes away from h.
Away(c, h) == IF c[2] \in Switches THEN Toward[c[2]][h] = c[1] ELSE c[2] # h

AwayInv == \A c \in Channels : \A i \in DOMAIN channel[c] : Away(c, channel[c][i].src)

\* Knowledge spreads from a host: a switch that knows nothing of it has passed
\* nothing from which the next one could have learned.
KnowInv ==
  \A s, t \in Switches, h \in Hosts :
    t \in Interfaces[s] /\ Toward[t][h] = s /\ operFdb[s][h] = {} =>
      /\ operFdb[t][h] = {}
      /\ \A i \in DOMAIN channel[<<s, t>>] :
           channel[<<s, t>>][i].src = h => ~IsUnicast(channel[<<s, t>>][i])

\* A unicast frame that is not on the way to its receiver, because it was flooded,
\* meets switches that know nothing of the receiver, and will not until it has
\* passed.
AstrayInv ==
  \A s \in Switches : \A x \in Interfaces[s] : \A i \in DOMAIN channel[<<x, s>>] :
    LET f == channel[<<x, s>>][i]
    IN  IsUnicast(f) /\ Toward[s][f.dst] = x =>
          /\ operFdb[s][f.dst] = {}
          /\ \A j \in 1 .. i - 1 :
               channel[<<x, s>>][j].src = f.dst => ~IsUnicast(channel[<<x, s>>][j])

RelayInv == RelayShape /\ OnlySentFrames /\ HomeInv /\ AwayInv /\ KnowInv /\ AstrayInv

-----------------------------------------------------------------------------
\* The channels are those between a switch and what is at its interfaces.
LEMMA ChannelsAre ==
  /\ \A c \in Channels : \E s \in Switches : \E x \in Interfaces[s] : c \in {<<s, x>>, <<x, s>>}
  /\ \A s \in Switches : \A x \in Interfaces[s] : <<s, x>> \in Channels /\ <<x, s>> \in Channels
<1>1. \A s \in Switches : Interfaces[s] \subseteq Nodes
  BY TopologyAssumption
<1>2. \A l \in Links : \E s \in Switches : \E x \in Interfaces[s] : l = <<s, x>>
  BY DEF Links
<1>3. \A s \in Switches : \A x \in Interfaces[s] : <<s, x>> \in Links
  BY <1>1 DEF Links
<1>4. \A c \in Channels : \E l \in Links : c = l \/ c = <<l[2], l[1]>>
  BY DEF Channels
<1>5. ASSUME NEW c \in Channels
      PROVE  \E s \in Switches : \E x \in Interfaces[s] : c \in {<<s, x>>, <<x, s>>}
  <2>1. PICK l \in Links : c = l \/ c = <<l[2], l[1]>>
    BY <1>4
  <2>. QED
    BY <1>2, <2>1
<1>6. ASSUME NEW s \in Switches, NEW x \in Interfaces[s]
      PROVE  <<s, x>> \in Channels /\ <<x, s>> \in Channels
  <2>1. <<s, x>> \in Links
    BY <1>3
  <2>. QED
    BY <2>1 DEF Channels
<1>. QED
  BY <1>5, <1>6

\* A host is connected to one switch.
LEMMA SwitchOfHost ==
  ASSUME NEW h \in Hosts
  PROVE  /\ SwitchOf(h) \in Switches /\ h \in Interfaces[SwitchOf(h)]
         /\ \A s \in Switches : h \in Interfaces[s] => s = SwitchOf(h)
         /\ <<h, SwitchOf(h)>> \in Channels /\ <<SwitchOf(h), h>> \in Channels
<1>1. PICK s \in Switches : {t \in Switches : h \in Interfaces[t]} = {s}
  BY TopologyAssumption
<1>2. \A t \in Switches : h \in Interfaces[t] <=> t = s
  BY <1>1
<1>3. SwitchOf(h) \in Switches /\ h \in Interfaces[SwitchOf(h)]
  BY <1>2 DEF SwitchOf
<1>. QED
  BY <1>2, <1>3, ChannelsAre

\* What the head and the tail of a channel are.
LEMMA FirstOfChannel ==
  ASSUME NEW S, NEW q \in Seq(S), 1 \in DOMAIN q
  PROVE  /\ RemoveAt(q, 1) = Tail(q) /\ q[1] \in S
         /\ Tail(q) \in Seq(S)
         /\ \A i \in DOMAIN Tail(q) : i + 1 \in DOMAIN q /\ Tail(q)[i] = q[i + 1]
<1>1. q # <<>>
  OBVIOUS
<1>2. Tail(q) \in Seq(S) /\ Tail(q) = SubSeq(q, 2, Len(q)) /\ Len(Tail(q)) = Len(q) - 1
  BY <1>1, TailIsSubSeq, HeadTailProperties
<1>3. SubSeq(q, 1, 0) = <<>>
  BY SubSeqEmpty
<1>4. RemoveAt(q, 1) = <<>> \o Tail(q)
  BY <1>2, <1>3 DEF RemoveAt
<1>5. RemoveAt(q, 1) = Tail(q)
  BY <1>2, <1>4, ConcatEmptySeq
<1>6. \A i \in DOMAIN Tail(q) : i + 1 \in DOMAIN q /\ Tail(q)[i] = q[i + 1]
  BY <1>1
<1>. QED
  BY <1>2, <1>5, <1>6

LEMMA LastOfChannel ==
  ASSUME NEW S, NEW q \in Seq(S), NEW e \in S
  PROVE  /\ Append(q, e) \in Seq(S)
         /\ \A i \in DOMAIN Append(q, e) :
              \/ i \in DOMAIN q /\ Append(q, e)[i] = q[i]
              \/ i = Len(q) + 1 /\ Append(q, e)[i] = e
OBVIOUS

\* A step takes the head of channel `from', if that is one, and puts frame f at the
\* end of the channels `to'.
Before(from, c, i) == IF c = from THEN i + 1 ELSE i

Moved(from, to, f) ==
  /\ channel' \in [Channels -> Seq(Frame)]
  /\ \A c \in Channels : \A i \in DOMAIN channel'[c] :
       \/ /\ Before(from, c, i) \in DOMAIN channel[c]
          /\ channel'[c][i] = channel[c][Before(from, c, i)]
       \/ c \in to /\ c # from /\ i = Len(channel[c]) + 1 /\ channel'[c][i] = f
  /\ \A c \in Channels : c # from => DOMAIN channel[c] \subseteq DOMAIN channel'[c]

LEMMA SendMoves ==
  ASSUME RelayInv, NEW h \in Hosts, NEW dst \in Addresses, SendFrame(h, dst)
  PROVE  \E f : /\ f \in Frame \ sent /\ sent' = sent \cup {f}
                /\ f.src = h /\ f.dst = dst /\ dst # h
                /\ f.number = Cardinality({g \in sent : g.src = h}) + 1
                /\ Moved(<<>>, {<<h, SwitchOf(h)>>}, f)
                /\ UNCHANGED <<operFdb, received>>
<1>. DEFINE own == {g \in sent : g.src = h}
            f == [src |-> h, dst |-> dst, number |-> Cardinality(own) + 1]
            l == <<h, SwitchOf(h)>>
<1>1. /\ Cardinality(sent) < MaxFrames /\ dst # h /\ sent' = sent \cup {f}
      /\ channel' = [channel EXCEPT ![l] = Append(@, f)]
      /\ UNCHANGED <<operFdb, received>>
  BY Zenon DEF SendFrame
<1>2. /\ IsFiniteSet(sent) /\ channel \in [Channels -> Seq(Frame)]
      /\ \A g \in sent : g.number <= Cardinality({e \in sent : e.src = g.src})
  BY DEF RelayInv, RelayShape, OnlySentFrames
<1>3. own \subseteq sent
  OBVIOUS
<1>4. Cardinality(own) \in Nat /\ Cardinality(own) <= Cardinality(sent)
  BY <1>2, <1>3, FS_Subset, FS_CardinalityType
<1>5. Cardinality(sent) \in Nat
  BY <1>2, FS_CardinalityType
<1>6. f \in Frame
  BY <1>1, <1>4, <1>5, NameAssumption DEF Frame
<1>7. f \notin sent
  <2>1. SUFFICES ASSUME f \in sent PROVE FALSE
    OBVIOUS
  <2>2. f.number <= Cardinality(own)
    BY <1>2, <2>1
  <2>. QED
    BY <1>4, <2>2
<1>. HIDE DEF own, f
<1>8. l \in Channels
  BY SwitchOfHost
<1>9. Moved(<<>>, {l}, f)
  <2>1. l # <<>> /\ \A c \in Channels : c # <<>>
    BY ChannelsAre
  <2>2. channel[l] \in Seq(Frame)
    BY <1>2, <1>8
  <2>3. channel'[l] = Append(channel[l], f) /\ \A c \in Channels \ {l} : channel'[c] = channel[c]
    BY <1>1, <1>2, <1>8
  <2>4. channel'[l] \in Seq(Frame)
    BY <1>6, <2>2, <2>3
  <2>5. channel' \in [Channels -> Seq(Frame)]
    BY <1>1, <1>2, <1>8, <2>3, <2>4
  <2>6. ASSUME NEW c \in Channels, NEW i \in DOMAIN channel'[c]
        PROVE  \/ i \in DOMAIN channel[c] /\ channel'[c][i] = channel[c][i]
               \/ c = l /\ i = Len(channel[c]) + 1 /\ channel'[c][i] = f
    <3>1. CASE c = l
      <4>1. channel'[c] = Append(channel[l], f)
        BY <2>3, <3>1
      <4>. QED
        BY <1>6, <2>2, <3>1, <4>1
    <3>2. CASE c # l
      BY <2>3, <3>2
    <3>. QED
      BY <3>1, <3>2
  <2>7. \A c \in Channels : DOMAIN channel[c] \subseteq DOMAIN channel'[c]
    BY <2>2, <2>3
  <2>. QED
    BY <2>1, <2>5, <2>6, <2>7 DEF Moved, Before
<1>. QED
  BY <1>1, <1>6, <1>7, <1>9 DEF f, own

LEMMA ReceiveMoves ==
  ASSUME RelayInv, NEW h \in Hosts, Receive(h)
  PROVE  LET l == <<SwitchOf(h), h>>
             f == channel[l][1]
         IN  /\ l \in Channels /\ 1 \in DOMAIN channel[l] /\ f \in Frame
             /\ Moved(l, {}, f)
             /\ \A i \in Hosts \ {h} : received'[i] = received[i]
             /\ received'[h] \in {received[h], Append(received[h], f)}
             /\ received' \in [Hosts -> Seq(Frame)]
             /\ UNCHANGED <<operFdb, sent>>
<1>. DEFINE l == <<SwitchOf(h), h>>  f == channel[l][1]
<1>1. l \in Channels
  BY SwitchOfHost
<1>2. channel \in [Channels -> Seq(Frame)] /\ received \in [Hosts -> Seq(Frame)]
  BY DEF RelayInv, RelayShape
<1>3. channel[l] \in Seq(Frame) /\ channel[l] # <<>>
  BY <1>1, <1>2 DEF Receive
<1>4. 1 \in DOMAIN channel[l] /\ Head(channel[l]) = f
  BY <1>3
<1>5. /\ Tail(channel[l]) \in Seq(Frame) /\ f \in Frame
      /\ \A i \in DOMAIN Tail(channel[l]) :
           i + 1 \in DOMAIN channel[l] /\ Tail(channel[l])[i] = channel[l][i + 1]
  BY <1>3, <1>4, FirstOfChannel
<1>6. channel' = [channel EXCEPT ![l] = Tail(@)]
  BY DEF Receive
<1>7. /\ channel'[l] = Tail(channel[l]) /\ \A c \in Channels \ {l} : channel'[c] = channel[c]
      /\ channel' \in [Channels -> Seq(Frame)]
  BY <1>1, <1>2, <1>5, <1>6
<1>8. Moved(l, {}, f)
  BY <1>5, <1>7 DEF Moved, Before
<1>9. /\ received' = [received EXCEPT ![h] = IF IsFor(h, f.dst) THEN Append(@, f) ELSE @]
      /\ UNCHANGED <<operFdb, sent>>
  BY <1>4, Zenon DEF Receive
<1>10. received[h] \in Seq(Frame) /\ Append(received[h], f) \in Seq(Frame)
  BY <1>2, <1>5
<1>. HIDE DEF f
<1>11. /\ \A i \in Hosts \ {h} : received'[i] = received[i]
       /\ received'[h] \in {received[h], Append(received[h], f)}
       /\ received' \in [Hosts -> Seq(Frame)]
  BY <1>2, <1>9, <1>10
<1>. QED
  BY <1>1, <1>4, <1>5, <1>8, <1>9, <1>11 DEF f

\* Where a relay sends the frame: never back, to the port of the entry if there is
\* one, else everywhere.
LEMMA PortsOfFrame ==
  ASSUME RelayInv, NEW s \in Switches, NEW x \in Interfaces[s], 1 \in DOMAIN channel[<<x, s>>]
  PROVE  LET f == channel[<<x, s>>][1]
             P == PortsFor(s, x, f.dst)
         IN  /\ P \subseteq Interfaces[s] \ {x}
             /\ f.dst \in Hosts => P = {Toward[s][f.dst]} \/ operFdb[s][f.dst] = {}
<1>. DEFINE f == channel[<<x, s>>][1]  P == PortsFor(s, x, f.dst)
<1>. SUFFICES /\ P \subseteq Interfaces[s] \ {x}
              /\ f.dst \in Hosts => P = {Toward[s][f.dst]} \/ operFdb[s][f.dst] = {}
  OBVIOUS
<1>1. <<x, s>> \in Channels
  BY ChannelsAre
<1>2. f \in Frame
  BY <1>1 DEF RelayInv, RelayShape
<1>3. f.dst \in Addresses
  BY <1>2 DEF Frame
<1>. HIDE DEF f
<1>4. BroadcastPorts(s, x) \subseteq Interfaces[s] \ {x}
  BY DEF BroadcastPorts
<1>5. CASE f.dst = Broadcast
  BY <1>4, <1>5, NameAssumption DEF PortsFor
<1>6. CASE f.dst \in Groups
  <2>1. P = MulticastPorts(s, x, f.dst) /\ f.dst \notin Hosts
    BY <1>6, NameAssumption DEF PortsFor
  <2>2. operFdb[s][f.dst] \subseteq Interfaces[s]
    BY <1>6 DEF RelayInv, RelayShape
  <2>. QED
    BY <1>4, <2>1, <2>2 DEF MulticastPorts
<1>7. CASE f.dst \in Hosts
  <2>1. P = UnicastPorts(s, x, f.dst)
    BY <1>7, NameAssumption DEF PortsFor
  <2>2. operFdb[s][f.dst] \subseteq {Toward[s][f.dst]}
    BY <1>7 DEF RelayInv, HomeInv
  <2>3. Toward[s][f.dst] \in Interfaces[s]
    BY <1>7, TopologyAssumption
  <2>4. CASE operFdb[s][f.dst] = {}
    <3>1. Cardinality(operFdb[s][f.dst]) # 1
      BY <2>4, FS_EmptySet
    <3>. QED
      BY <1>4, <2>1, <2>4, <3>1 DEF UnicastPorts
  <2>5. CASE operFdb[s][f.dst] = {Toward[s][f.dst]}
    <3>1. Cardinality(operFdb[s][f.dst]) = 1
      BY <2>5, FS_Singleton
    <3>2. P = {Toward[s][f.dst]}
      BY <2>1, <2>5, <3>1 DEF UnicastPorts
    <3>3. Toward[s][f.dst] # x
      BY <1>7, <2>5 DEF RelayInv, AstrayInv, IsUnicast, f
    <3>. QED
      BY <2>3, <3>2, <3>3
  <2>. QED
    BY <2>2, <2>4, <2>5
<1>. QED
  BY <1>3, <1>5, <1>6, <1>7 DEF Addresses

LEMMA RelayMoves ==
  ASSUME RelayInv, NEW s \in Switches, NEW x \in Interfaces[s], Relay(x, s, 1)
  PROVE  LET f == channel[<<x, s>>][1]
             P == PortsFor(s, x, f.dst)
         IN  /\ 1 \in DOMAIN channel[<<x, s>>] /\ f \in Frame
             /\ Moved(<<x, s>>, {<<s, y>> : y \in P}, f)
             /\ operFdb' = Learn(s, x, f)
             /\ UNCHANGED <<sent, received>>
<1>. DEFINE f == channel[<<x, s>>][1]  P == PortsFor(s, x, f.dst)  l == <<x, s>>
<1>. SUFFICES /\ 1 \in DOMAIN channel[l] /\ f \in Frame
              /\ Moved(l, {<<s, y>> : y \in P}, f)
              /\ operFdb' = Learn(s, x, f)
              /\ UNCHANGED <<sent, received>>
  OBVIOUS
<1>1. l \in Channels
  BY ChannelsAre
<1>2. channel \in [Channels -> Seq(Frame)]
  BY DEF RelayInv, RelayShape
<1>3. 1 \in DOMAIN channel[l] /\ channel[l] \in Seq(Frame)
  BY <1>1, <1>2 DEF Relay
<1>4. /\ RemoveAt(channel[l], 1) = Tail(channel[l]) /\ f \in Frame
      /\ Tail(channel[l]) \in Seq(Frame)
      /\ \A i \in DOMAIN Tail(channel[l]) :
           i + 1 \in DOMAIN channel[l] /\ Tail(channel[l])[i] = channel[l][i + 1]
  BY <1>3, FirstOfChannel
<1>5. /\ channel' = [c \in Channels |->
           LET rest == IF c = l THEN RemoveAt(channel[c], 1) ELSE channel[c]
           IN  IF c[1] = s /\ c[2] \in P THEN Append(rest, f) ELSE rest]
      /\ operFdb' = Learn(s, x, f) /\ UNCHANGED <<sent, received>>
  BY Zenon DEF Relay
<1>. HIDE DEF f, P
<1>6. channel'[l] = Tail(channel[l])
  <2>1. ~(l[1] = s /\ l[2] \in P)
    BY TopologyAssumption
  <2>. QED
    BY <1>1, <1>4, <1>5, <2>1
<1>7. \A c \in Channels \ {l} :
        channel'[c] = IF c[1] = s /\ c[2] \in P THEN Append(channel[c], f) ELSE channel[c]
  BY <1>5
<1>8. \A c \in Channels : c[1] = s /\ c[2] \in P => c \in {<<s, y>> : y \in P}
  BY ChannelsAre
<1>9. ASSUME NEW c \in Channels
      PROVE  channel'[c] \in Seq(Frame)
  <2>1. channel[c] \in Seq(Frame) /\ Append(channel[c], f) \in Seq(Frame)
    BY <1>2, <1>4
  <2>. QED
    BY <1>4, <1>6, <1>7, <2>1
<1>10. channel' \in [Channels -> Seq(Frame)]
  BY <1>5, <1>9
<1>11. ASSUME NEW c \in Channels, c # l
       PROVE  /\ DOMAIN channel[c] \subseteq DOMAIN channel'[c]
              /\ \A i \in DOMAIN channel'[c] :
                   \/ i \in DOMAIN channel[c] /\ channel'[c][i] = channel[c][i]
                   \/ c \in {<<s, y>> : y \in P} /\ i = Len(channel[c]) + 1 /\ channel'[c][i] = f
  <2>1. channel[c] \in Seq(Frame)
    BY <1>2
  <2>2. CASE c[1] = s /\ c[2] \in P
    <3>1. channel'[c] = Append(channel[c], f) /\ c \in {<<s, y>> : y \in P}
      BY <1>7, <1>8, <1>11, <2>2
    <3>. QED
      BY <1>4, <2>1, <3>1
  <2>3. CASE ~(c[1] = s /\ c[2] \in P)
    BY <1>7, <1>11, <2>3
  <2>. QED
    BY <2>2, <2>3
<1>12. Moved(l, {<<s, y>> : y \in P}, f)
  BY <1>4, <1>6, <1>10, <1>11 DEF Moved, Before
<1>. QED
  BY <1>3, <1>4, <1>5, <1>12

\* What a step moves was sent and goes on away from its source.
LEMMA MovedFrames ==
  ASSUME RelayInv, NEW from, NEW to, NEW f, Moved(from, to, f),
         sent \subseteq sent', f \in sent',
         \A c \in Channels : c \in to => Away(c, f.src)
  PROVE  /\ \A c \in Channels : \A i \in DOMAIN channel'[c] : channel'[c][i] \in sent'
         /\ AwayInv'
<1>1. ASSUME NEW c \in Channels, NEW i \in DOMAIN channel'[c]
      PROVE  channel'[c][i] \in sent' /\ Away(c, channel'[c][i].src)
  <2>1. \/ /\ Before(from, c, i) \in DOMAIN channel[c]
           /\ channel'[c][i] = channel[c][Before(from, c, i)]
        \/ c \in to /\ channel'[c][i] = f
    BY <1>1 DEF Moved
  <2>. QED
    BY <2>1 DEF RelayInv, AwayInv, OnlySentFrames
<1>. QED
  BY <1>1 DEF AwayInv, Away

\* Where a step adds nothing and no database changes, unicast frames stay as they
\* were: nothing new for a switch to learn from, nothing new that is astray.
LEMMA QuietChannels ==
  ASSUME RelayInv, NEW from, NEW to, NEW f, Moved(from, to, f), UNCHANGED operFdb,
         \A s \in Switches : \A x \in Interfaces[s] : <<x, s>> # from,
         \A s \in Switches : \A x \in Interfaces[s] : <<x, s>> \in to =>
           x \in Hosts /\ ~(IsUnicast(f) /\ Toward[s][f.dst] = x)
  PROVE  KnowInv' /\ AstrayInv'
<1>1. ASSUME NEW s \in Switches, NEW x \in Interfaces[s], NEW i \in DOMAIN channel'[<<x, s>>]
      PROVE  \/ i \in DOMAIN channel[<<x, s>>] /\ channel'[<<x, s>>][i] = channel[<<x, s>>][i]
             \/ /\ <<x, s>> \in to /\ i = Len(channel[<<x, s>>]) + 1
                /\ channel'[<<x, s>>][i] = f
  <2>1. <<x, s>> \in Channels
    BY ChannelsAre
  <2>. QED
    BY <2>1, <1>1 DEF Moved, Before
<1>2. KnowInv'
  <2>1. SUFFICES ASSUME NEW s \in Switches, NEW t \in Switches, NEW h \in Hosts,
                        t \in Interfaces[s], Toward[t][h] = s, operFdb[s][h] = {},
                        NEW i \in DOMAIN channel'[<<s, t>>], channel'[<<s, t>>][i].src = h
                 PROVE  operFdb[t][h] = {} /\ ~IsUnicast(channel'[<<s, t>>][i])
    BY DEF KnowInv, IsUnicast, RelayInv
  <2>2. s \in Interfaces[t] /\ s \notin Hosts
    BY <2>1, TopologyAssumption, NameAssumption
  <2>3. i \in DOMAIN channel[<<s, t>>] /\ channel'[<<s, t>>][i] = channel[<<s, t>>][i]
    BY <1>1, <2>2
  <2>. QED
    BY <2>1, <2>3 DEF RelayInv, KnowInv
<1>3. AstrayInv'
  <2>1. SUFFICES ASSUME NEW s \in Switches, NEW x \in Interfaces[s],
                        NEW i \in DOMAIN channel'[<<x, s>>],
                        IsUnicast(channel'[<<x, s>>][i]),
                        Toward[s][channel'[<<x, s>>][i].dst] = x
                 PROVE  /\ operFdb[s][channel'[<<x, s>>][i].dst] = {}
                        /\ \A j \in 1 .. i - 1 :
                             channel'[<<x, s>>][j].src = channel'[<<x, s>>][i].dst =>
                               ~IsUnicast(channel'[<<x, s>>][j])
    BY DEF AstrayInv, IsUnicast
  <2>2. i \in DOMAIN channel[<<x, s>>] /\ channel'[<<x, s>>][i] = channel[<<x, s>>][i]
    BY <1>1, <2>1
  <2>3. channel[<<x, s>>] \in Seq(Frame) /\ channel'[<<x, s>>] \in Seq(Frame)
    BY ChannelsAre DEF RelayInv, RelayShape, Moved
  <2>4. \A j \in 1 .. i - 1 : channel'[<<x, s>>][j] = channel[<<x, s>>][j]
    BY <1>1, <2>2, <2>3
  <2>. QED
    BY <2>1, <2>2, <2>4 DEF RelayInv, AstrayInv
<1>. QED
  BY <1>2, <1>3

LEMMA SendKeepsRelayInv ==
  ASSUME RelayInv, NEW h \in Hosts, NEW dst \in Addresses, SendFrame(h, dst)
  PROVE  RelayInv'
<1>. DEFINE l == <<h, SwitchOf(h)>>
<1>1. PICK f : /\ f \in Frame \ sent /\ sent' = sent \cup {f}
               /\ f.src = h /\ f.dst = dst /\ dst # h
               /\ f.number = Cardinality({g \in sent : g.src = h}) + 1
               /\ Moved(<<>>, {l}, f)
               /\ UNCHANGED <<operFdb, received>>
  BY SendMoves
<1>2. /\ SwitchOf(h) \in Switches /\ h \in Interfaces[SwitchOf(h)]
      /\ Toward[SwitchOf(h)][h] = h
  BY SwitchOfHost, TopologyAssumption
<1>3. IsFiniteSet(sent) /\ IsFiniteSet(sent')
  BY <1>1, FS_AddElement DEF RelayInv, RelayShape
<1>4. RelayShape'
  BY <1>1, <1>3 DEF RelayInv, RelayShape, Moved
<1>5. (\A c \in Channels : \A i \in DOMAIN channel'[c] : channel'[c][i] \in sent') /\ AwayInv'
  <2>1. Away(l, h)
    BY <1>2 DEF Away
  <2>. QED
    BY <1>1, <2>1, MovedFrames
<1>6. \A g \in sent' : g.number <= Cardinality({e \in sent' : e.src = g.src})
  <2>1. SUFFICES ASSUME NEW g \in sent'
                 PROVE  g.number <= Cardinality({e \in sent' : e.src = g.src})
    OBVIOUS
  <2>. DEFINE A == {e \in sent : e.src = g.src}  B == {e \in sent' : e.src = g.src}
  <2>2. A \subseteq sent /\ B \subseteq sent' /\ A \subseteq B
    BY <1>1
  <2>3. IsFiniteSet(A) /\ IsFiniteSet(B)
    BY <1>3, <2>2, FS_Subset
  <2>4. Cardinality(A) \in Nat /\ Cardinality(B) \in Nat /\ Cardinality(A) <= Cardinality(B)
    BY <2>2, <2>3, FS_Subset, FS_CardinalityType
  <2>5. CASE g = f
    <3>1. B = A \cup {f} /\ f \notin A
      BY <1>1, <2>5
    <3>2. Cardinality(B) = Cardinality(A) + 1
      BY <2>3, <3>1, FS_AddElement
    <3>3. f.number = Cardinality(A) + 1
      BY <1>1, <2>5
    <3>. QED
      BY <2>4, <2>5, <3>2, <3>3
  <2>6. CASE g \in sent
    <3>1. g.number <= Cardinality(A)
      BY <2>6 DEF RelayInv, OnlySentFrames
    <3>2. g.number \in Nat
      BY <2>6 DEF RelayInv, RelayShape, Frame
    <3>. HIDE DEF A, B
    <3>3. g.number <= Cardinality(B)
      BY <2>4, <3>1, <3>2
    <3>. QED
      BY <3>3 DEF B
  <2>. QED
    BY <1>1, <2>5, <2>6
<1>7. OnlySentFrames'
  BY <1>1, <1>5, <1>6 DEF RelayInv, OnlySentFrames
<1>8. KnowInv' /\ AstrayInv'
  <2>1. \A s \in Switches : \A x \in Interfaces[s] : <<x, s>> \in {l} =>
          x \in Hosts /\ ~(IsUnicast(f) /\ Toward[s][f.dst] = x)
    BY <1>1, TopologyAssumption DEF IsUnicast
  <2>. QED
    BY <1>1, <2>1, QuietChannels
<1>. QED
  BY <1>1, <1>4, <1>5, <1>7, <1>8 DEF RelayInv, HomeInv

LEMMA ReceiveKeepsRelayInv ==
  ASSUME RelayInv, NEW h \in Hosts, Receive(h)
  PROVE  RelayInv'
<1>. DEFINE l == <<SwitchOf(h), h>>  f == channel[l][1]
<1>1. /\ l \in Channels /\ 1 \in DOMAIN channel[l] /\ f \in Frame
      /\ Moved(l, {}, f)
      /\ \A i \in Hosts \ {h} : received'[i] = received[i]
      /\ received'[h] \in {received[h], Append(received[h], f)}
      /\ received' \in [Hosts -> Seq(Frame)]
      /\ UNCHANGED <<operFdb, sent>>
  BY ReceiveMoves
<1>2. f \in sent
  BY <1>1 DEF RelayInv, OnlySentFrames
<1>. HIDE DEF f
<1>3. RelayShape'
  BY <1>1 DEF RelayInv, RelayShape, Moved
<1>4. (\A c \in Channels : \A i \in DOMAIN channel'[c] : channel'[c][i] \in sent') /\ AwayInv'
  BY <1>1, <1>2, MovedFrames
<1>5. \A k \in Hosts : \A i \in DOMAIN received'[k] : received'[k][i] \in sent
  <2>1. received[h] \in Seq(Frame)
    BY DEF RelayInv, RelayShape
  <2>2. \A i \in DOMAIN received[h] : received[h][i] \in sent
    BY DEF RelayInv, OnlySentFrames
  <2>3. \A i \in DOMAIN Append(received[h], f) : Append(received[h], f)[i] \in sent
    BY <1>1, <1>2, <2>1, <2>2
  <2>. QED
    BY <1>1, <2>2, <2>3 DEF RelayInv, OnlySentFrames
<1>6. OnlySentFrames'
  BY <1>1, <1>4, <1>5 DEF RelayInv, OnlySentFrames
<1>7. KnowInv' /\ AstrayInv'
  <2>1. \A s \in Switches : \A x \in Interfaces[s] : <<x, s>> # l
    BY NameAssumption
  <2>. QED
    BY <1>1, <2>1, QuietChannels
<1>. QED
  BY <1>1, <1>3, <1>4, <1>6, <1>7 DEF RelayInv, HomeInv

\* A relay learns where the source is; whatever it sends on goes away from there.
LEMMA RelayKeepsRelayInv ==
  ASSUME RelayInv, NEW s \in Switches, NEW x \in Interfaces[s], Relay(x, s, 1)
  PROVE  RelayInv'
<1>. DEFINE l == <<x, s>>  f == channel[l][1]  P == PortsFor(s, x, f.dst)
<1>1. /\ 1 \in DOMAIN channel[l] /\ f \in Frame
      /\ Moved(l, {<<s, y>> : y \in P}, f)
      /\ operFdb' = Learn(s, x, f)
      /\ UNCHANGED <<sent, received>>
  BY RelayMoves
<1>2. /\ P \subseteq Interfaces[s] \ {x}
      /\ f.dst \in Hosts => P = {Toward[s][f.dst]} \/ operFdb[s][f.dst] = {}
  BY <1>1, PortsOfFrame
<1>3. f \in sent /\ l \in Channels
  BY <1>1, ChannelsAre DEF RelayInv, OnlySentFrames
<1>4. Toward[s][f.src] = x
  BY <1>1, <1>3 DEF RelayInv, AwayInv, Away
<1>5. f.src \in Hosts /\ f.dst \in Addresses /\ f.src # f.dst
  BY <1>1, <1>3 DEF Frame, RelayInv, OnlySentFrames
<1>6. operFdb' = IF IsUnicast(f) THEN [operFdb EXCEPT ![s][f.src] = {x}] ELSE operFdb
  BY <1>1, Zenon DEF Learn, IsUnicast
<1>7. IsUnicast(f) => f \in Frame /\ f.dst \in Hosts /\ f = channel[l][1]
  BY <1>1 DEF IsUnicast
<1>. HIDE DEF f, P
<1>8. operFdb \in [Switches -> [Hosts \cup Groups -> SUBSET Nodes]]
  BY DEF RelayInv, RelayShape
<1>9. /\ operFdb' \in [Switches -> [Hosts \cup Groups -> SUBSET Nodes]]
      /\ \A t \in Switches, a \in Hosts \cup Groups :
           operFdb'[t][a] = IF IsUnicast(f) /\ t = s /\ a = f.src THEN {x} ELSE operFdb[t][a]
  <2>1. x \in Nodes
    BY TopologyAssumption
  <2>. QED
    BY <1>5, <1>6, <1>8, <2>1
<1>10. RelayShape'
  <2>1. \A t \in Switches, g \in Groups : operFdb'[t][g] = operFdb[t][g]
    BY <1>5, <1>9, NameAssumption
  <2>2. \A t \in Switches, g \in Groups : operFdb'[t][g] \subseteq Interfaces[t]
    BY <2>1 DEF RelayInv, RelayShape
  <2>3. channel' \in [Channels -> Seq(Frame)]
    BY <1>1 DEF Moved
  <2>. QED
    BY <1>1, <1>9, <2>2, <2>3 DEF RelayInv, RelayShape
<1>11. HomeInv'
  BY <1>4, <1>9 DEF RelayInv, HomeInv
\* The next switch has the source on this side, or is a host that did not send it.
<1>12. \A y \in P : Away(<<s, y>>, f.src)
  <2>1. SUFFICES ASSUME NEW y \in P PROVE Away(<<s, y>>, f.src)
    OBVIOUS
  <2>2. y \in Interfaces[s] /\ y # x
    BY <1>2, <2>1
  <2>3. CASE y \in Switches
    BY <1>4, <1>5, <2>2, <2>3, TopologyAssumption DEF Away
  <2>4. CASE y \notin Switches
    BY <1>4, <1>5, <2>2, <2>4, TopologyAssumption DEF Away
  <2>. QED
    BY <2>3, <2>4
<1>13. (\A c \in Channels : \A i \in DOMAIN channel'[c] : channel'[c][i] \in sent') /\ AwayInv'
  <2>1. \A c \in Channels : c \in {<<s, y>> : y \in P} => Away(c, f.src)
    BY <1>12
  <2>. QED
    BY <1>1, <1>3, <2>1, MovedFrames
<1>14. OnlySentFrames'
  BY <1>1, <1>13 DEF RelayInv, OnlySentFrames
<1>15. ASSUME NEW t \in Switches, NEW z \in Interfaces[t], NEW i \in DOMAIN channel'[<<z, t>>]
       PROVE  \/ /\ Before(l, <<z, t>>, i) \in DOMAIN channel[<<z, t>>]
                 /\ channel'[<<z, t>>][i] = channel[<<z, t>>][Before(l, <<z, t>>, i)]
              \/ /\ z = s /\ t \in P /\ <<z, t>> # l
                 /\ i = Len(channel[<<z, t>>]) + 1 /\ channel'[<<z, t>>][i] = f
  <2>1. <<z, t>> \in Channels
    BY ChannelsAre
  <2>2. <<z, t>> \in {<<s, y>> : y \in P} => z = s /\ t \in P
    OBVIOUS
  <2>. HIDE DEF l
  <2>. QED
    BY <1>1, <1>15, <2>1, <2>2 DEF Moved
<1>16. KnowInv'
  <2>1. SUFFICES ASSUME NEW u \in Switches, NEW t \in Switches, NEW h \in Hosts,
                        t \in Interfaces[u], Toward[t][h] = u, operFdb'[u][h] = {}
                 PROVE  /\ operFdb'[t][h] = {}
                        /\ \A i \in DOMAIN channel'[<<u, t>>] :
                             channel'[<<u, t>>][i].src = h => ~IsUnicast(channel'[<<u, t>>][i])
    BY DEF KnowInv, IsUnicast
  <2>2. u \in Interfaces[t]
    BY <2>1, TopologyAssumption
  <2>3. operFdb[u][h] = {} /\ ~(IsUnicast(f) /\ u = s /\ h = f.src)
    BY <1>9, <2>1
  <2>4. /\ operFdb[t][h] = {}
        /\ \A i \in DOMAIN channel[<<u, t>>] :
             channel[<<u, t>>][i].src = h => ~IsUnicast(channel[<<u, t>>][i])
    BY <2>1, <2>3 DEF RelayInv, KnowInv
  <2>5. operFdb'[t][h] = {}
    <3>1. SUFFICES ASSUME IsUnicast(f), t = s, h = f.src PROVE FALSE
      BY <1>9, <2>4
    <3>2. u = x
      BY <1>4, <2>1, <3>1
    <3>. QED
      BY <1>1, <2>4, <3>1, <3>2 DEF f
  <2>6. ASSUME NEW i \in DOMAIN channel'[<<u, t>>], channel'[<<u, t>>][i].src = h
        PROVE  ~IsUnicast(channel'[<<u, t>>][i])
    BY <1>15, <2>2, <2>3, <2>4, <2>6
  <2>. QED
    BY <2>5, <2>6
<1>17. AstrayInv'
  <2>1. SUFFICES ASSUME NEW t \in Switches, NEW z \in Interfaces[t],
                        NEW i \in DOMAIN channel'[<<z, t>>],
                        IsUnicast(channel'[<<z, t>>][i]),
                        Toward[t][channel'[<<z, t>>][i].dst] = z
                 PROVE  /\ operFdb'[t][channel'[<<z, t>>][i].dst] = {}
                        /\ \A k \in 1 .. i - 1 :
                             channel'[<<z, t>>][k].src = channel'[<<z, t>>][i].dst =>
                               ~IsUnicast(channel'[<<z, t>>][k])
    BY DEF AstrayInv, IsUnicast
  <2>. DEFINE c == <<z, t>>  g == channel'[c][i]
  <2>2. c \in Channels /\ channel[c] \in Seq(Frame) /\ channel'[c] \in Seq(Frame)
    BY <1>10, ChannelsAre DEF RelayInv, RelayShape, c
  <2>3. \A k \in 1 .. i - 1 : k \in DOMAIN channel'[c] /\ k < i /\ k \in Nat
    BY <2>2
  <2>4. g.dst \in Hosts
    BY <2>1 DEF IsUnicast
  <2>5. CASE Before(l, c, i) \in DOMAIN channel[c] /\ g = channel[c][Before(l, c, i)]
    <3>1. /\ operFdb[t][g.dst] = {}
          /\ \A j \in 1 .. Before(l, c, i) - 1 :
               channel[c][j].src = g.dst => ~IsUnicast(channel[c][j])
      BY <2>1, <2>5 DEF RelayInv, AstrayInv
    <3>2. operFdb'[t][g.dst] = {}
      <4>1. SUFFICES ASSUME IsUnicast(f), t = s, g.dst = f.src PROVE FALSE
        BY <1>9, <2>4, <3>1
      <4>2. c = l
        BY <1>4, <2>1, <4>1
      <4>3. 1 \in 1 .. Before(l, c, i) - 1
        BY <2>2, <4>2 DEF Before
      <4>. QED
        BY <3>1, <4>1, <4>2, <4>3 DEF f
    <3>3. ASSUME NEW k \in 1 .. i - 1, channel'[c][k].src = g.dst
          PROVE  ~IsUnicast(channel'[c][k])
      <4>1. Before(l, c, k) \in 1 .. Before(l, c, i) - 1
        BY <2>2 DEF Before
      <4>2. channel'[c][k] = channel[c][Before(l, c, k)]
        <5>1. c # l => k # Len(channel[c]) + 1
          BY <2>2, <2>3, <2>5 DEF Before
        <5>2. k \in DOMAIN channel'[c]
          BY <2>3
        <5>. QED
          BY <1>15, <5>1, <5>2
      <4>. QED
        BY <3>1, <3>3, <4>1, <4>2
    <3>. QED
      BY <3>2, <3>3
  \* The frame is sent on astray: it was flooded, nobody behind knows its receiver.
  <2>6. CASE z = s /\ t \in P /\ c # l /\ i = Len(channel[c]) + 1 /\ g = f
    <3>1. t \in Interfaces[s] /\ t # s /\ z \notin P
      BY <1>2, <2>6, TopologyAssumption
    <3>2. Toward[s][f.dst] # t
      BY <2>1, <2>4, <2>6, <3>1, TopologyAssumption
    <3>3. operFdb[s][f.dst] = {}
      BY <1>2, <2>4, <2>6, <3>2
    <3>4. /\ operFdb[t][f.dst] = {}
          /\ \A j \in DOMAIN channel[c] :
               channel[c][j].src = f.dst => ~IsUnicast(channel[c][j])
      BY <2>1, <2>4, <2>6, <3>1, <3>3 DEF RelayInv, KnowInv
    <3>5. operFdb'[t][f.dst] = {}
      BY <1>9, <2>4, <2>6, <3>1, <3>4
    <3>6. \A k \in 1 .. i - 1 : k \in DOMAIN channel[c] /\ channel'[c][k] = channel[c][k]
      BY <1>15, <2>2, <2>3, <2>6 DEF Before
    <3>. QED
      BY <2>6, <3>4, <3>5, <3>6
  <2>. QED
    BY <1>15, <2>5, <2>6
<1>. QED
  BY <1>10, <1>11, <1>13, <1>14, <1>16, <1>17 DEF RelayInv

LEMMA InitRelayInv == Init => RelayInv
<1>. SUFFICES ASSUME Init PROVE RelayInv
  OBVIOUS
<1>1. \A s \in Switches, h \in Hosts :
        StaticEntries[s][h] \subseteq {Toward[s][h]} /\ Toward[s][h] \in Interfaces[s]
  BY DatabaseAssumption, TopologyAssumption
<1>2. \A s \in Switches, g \in Groups : StaticEntries[s][g] \subseteq Interfaces[s]
  <2>1. SUFFICES ASSUME NEW s \in Switches, NEW g \in Groups
                 PROVE  StaticEntries[s][g] \subseteq Interfaces[s]
    OBVIOUS
  <2>2. Members[g] \subseteq Hosts
    BY TopologyAssumption
  <2>3. \A h \in Members[g] : Toward[s][h] \in Interfaces[s]
    BY <2>2, TopologyAssumption
  <2>. QED
    BY <2>3, DatabaseAssumption
<1>3. \A s \in Switches : Interfaces[s] \subseteq Nodes
  BY TopologyAssumption
<1>4. /\ operFdb = [s \in Switches |-> [a \in Hosts \cup Groups |-> StaticEntries[s][a]]]
      /\ channel = [c \in Channels |-> <<>>]
      /\ sent = {}
      /\ received = [h \in Hosts |-> <<>>]
  BY DEF Init
<1>5. RelayShape
  <2>1. operFdb \in [Switches -> [Hosts \cup Groups -> SUBSET Nodes]]
    BY <1>1, <1>2, <1>3, <1>4
  <2>2. IsFiniteSet(sent)
    BY <1>4, FS_EmptySet
  <2>. QED
    BY <1>2, <1>4, <2>1, <2>2 DEF RelayShape
<1>6. \A c \in Channels : DOMAIN channel[c] = {}
  BY <1>4
<1>7. OnlySentFrames
  BY <1>4, <1>6 DEF OnlySentFrames
<1>8. HomeInv
  BY <1>1, <1>4 DEF HomeInv
<1>9. AwayInv
  BY <1>6 DEF AwayInv
<1>10. \A s \in Switches : \A x \in Interfaces[s] :
         DOMAIN channel[<<x, s>>] = {} /\ DOMAIN channel[<<s, x>>] = {}
  BY <1>6, ChannelsAre
\* A host is in the database of every switch or of none.
<1>11. KnowInv
  <2>1. \A s, t \in Switches, h \in Hosts : operFdb[s][h] = {} => operFdb[t][h] = {}
    BY <1>4, DatabaseAssumption
  <2>. QED
    BY <1>10, <2>1 DEF KnowInv
<1>12. AstrayInv
  BY <1>10 DEF AstrayInv
<1>. QED
  BY <1>5, <1>7, <1>8, <1>9, <1>11, <1>12 DEF RelayInv

LEMMA NextKeepsRelayInv == RelayInv /\ [Next]_vars => RelayInv'
<1>. SUFFICES ASSUME RelayInv, [Next]_vars PROVE RelayInv'
  OBVIOUS
<1>1. CASE Send
  BY <1>1, SendKeepsRelayInv DEF Send
<1>2. CASE \E s \in Switches : \E x \in Interfaces[s] : Relay(x, s, 1)
  BY <1>2, RelayKeepsRelayInv
<1>3. CASE \E h \in Hosts : Receive(h)
  BY <1>3, ReceiveKeepsRelayInv
<1>4. CASE UNCHANGED vars
  <2>1. UNCHANGED <<operFdb, channel, sent, received>>
    BY <1>4 DEF vars
  <2>2. RelayShape' /\ HomeInv' /\ AwayInv'
    BY <2>1 DEF RelayInv, RelayShape, HomeInv, AwayInv, Away
  <2>3. OnlySentFrames'
    BY <2>1 DEF RelayInv, OnlySentFrames
  <2>4. KnowInv' /\ AstrayInv'
    BY <2>1 DEF RelayInv, KnowInv, AstrayInv, IsUnicast
  <2>. QED
    BY <2>2, <2>3, <2>4 DEF RelayInv
<1>. QED
  BY <1>1, <1>2, <1>3, <1>4 DEF Next

LEMMA RelayInvariance == Spec => []RelayInv
BY InitRelayInv, NextKeepsRelayInv, PTL DEF Spec

\* In every state of every run every relay's entry for a host is the interface on the
\* way to the host, however frames were flooded, learned from and overtaken by what
\* was learned later.
THEOREM EntriesPointHomeAlways == Spec => []EntriesPointHome
<1>1. RelayInv => EntriesPointHome
  <2>1. SUFFICES ASSUME RelayInv PROVE EntriesPointHome
    OBVIOUS
  <2>2. HomeInv
    BY <2>1 DEF RelayInv
  <2>3. \A s \in Switches, h \in Hosts : operFdb[s][h] \subseteq Interfaces[s]
    BY <2>2, TopologyAssumption DEF HomeInv
  <2>4. TypeOK
    BY <2>1, <2>3 DEF TypeOK, RelayInv, RelayShape
  <2>. QED
    BY <2>2, <2>4 DEF EntriesPointHome, HomeInv
<1>. QED
  BY <1>1, RelayInvariance, PTL

-----------------------------------------------------------------------------
\* The hosts a frame can still come to from channel c.
Beyond(c) == {h \in Hosts : c[2] = h \/ (c[2] \in Switches /\ Toward[c[2]][h] # c[1])}

\* No two copies of a frame can come to the same host, and no frame on the way can
\* come to a host that has it.
OnceInv ==
  /\ \A c \in Channels : \A i \in DOMAIN channel[c] : \A h \in Beyond(c) :
       \A k \in DOMAIN received[h] : received[h][k] # channel[c][i]
  /\ \A c, d \in Channels : \A i \in DOMAIN channel[c] : \A j \in DOMAIN channel[d] :
       channel[c][i] = channel[d][j] =>
         (c = d /\ i = j) \/ Beyond(c) \cap Beyond(d) = {}
  /\ \A h \in Hosts : \A k, m \in DOMAIN received[h] : received[h][k] = received[h][m] => k = m
  /\ \A h \in Hosts : \A k \in DOMAIN received[h] : received[h][k].src # h

\* Beyond a switch's interface are the hosts that the interface is on the way to.
LEMMA BeyondInterface ==
  ASSUME NEW s \in Switches, NEW x \in Interfaces[s]
  PROVE  /\ Beyond(<<s, x>>) = {h \in Hosts : Toward[s][h] = x}
         /\ Beyond(<<x, s>>) = {h \in Hosts : Toward[s][h] # x}
<1>1. s \notin Hosts /\ x \in Nodes
  BY NameAssumption, TopologyAssumption
<1>2. Beyond(<<x, s>>) = {h \in Hosts : Toward[s][h] # x}
  BY <1>1 DEF Beyond
<1>3. CASE x \in Switches
  <2>1. x \notin Hosts
    BY <1>3, NameAssumption
  <2>2. \A h \in Hosts : Toward[s][h] = x <=> Toward[x][h] # s
    BY <1>3, TopologyAssumption
  <2>. QED
    BY <1>2, <1>3, <2>1, <2>2 DEF Beyond
<1>4. CASE x \in Hosts
  <2>1. x \notin Switches
    BY <1>4, NameAssumption
  <2>2. \A h \in Hosts : Toward[s][h] = x <=> h = x
    BY <1>4, TopologyAssumption
  <2>. QED
    BY <1>2, <1>4, <2>1, <2>2 DEF Beyond
<1>. QED
  BY <1>1, <1>3, <1>4 DEF Nodes

\* If every place of a new copy leads to hosts that the place of the old copy, now
\* gone, led to, and no two of them to the same host, OnceInv holds after the step.
LEMMA MovedOnce ==
  ASSUME RelayInv, OnceInv, NEW from, NEW to, NEW f, Moved(from, to, f), UNCHANGED received,
         \A c \in Channels : c \in to => \A h \in Beyond(c) :
           \A k \in DOMAIN received[h] : received[h][k] # f,
         \A c, d \in Channels : c \in to /\ d \in to /\ c # d => Beyond(c) \cap Beyond(d) = {},
         \A c, d \in Channels : \A i \in DOMAIN channel[d] :
           c \in to /\ channel[d][i] = f /\ ~(d = from /\ i = 1) =>
             Beyond(c) \cap Beyond(d) = {}
  PROVE  OnceInv'
<1>1. ASSUME NEW c \in Channels, NEW i \in DOMAIN channel'[c]
      PROVE  \/ /\ Before(from, c, i) \in DOMAIN channel[c]
                /\ channel'[c][i] = channel[c][Before(from, c, i)]
                /\ ~(c = from /\ Before(from, c, i) = 1)
             \/ c \in to /\ c # from /\ i = Len(channel[c]) + 1 /\ channel'[c][i] = f
  <2>1. channel'[c] \in Seq(Frame)
    BY DEF Moved
  <2>2. i \in Nat /\ i >= 1
    BY <2>1
  <2>. QED
    BY <1>1, <2>2 DEF Moved, Before
<1>2. ASSUME NEW c \in Channels, NEW i \in DOMAIN channel'[c], NEW h \in Beyond(c),
             NEW k \in DOMAIN received[h]
      PROVE  received[h][k] # channel'[c][i]
  BY <1>1, <1>2 DEF OnceInv
<1>3. ASSUME NEW c \in Channels, NEW d \in Channels, NEW i \in DOMAIN channel'[c],
             NEW j \in DOMAIN channel'[d], channel'[c][i] = channel'[d][j],
             ~(c = d /\ i = j)
      PROVE  Beyond(c) \cap Beyond(d) = {}
  <2>1. channel'[c] \in Seq(Frame) /\ channel'[d] \in Seq(Frame)
    BY DEF Moved
  <2>. DEFINE Old(e, n) == /\ Before(from, e, n) \in DOMAIN channel[e]
                           /\ channel'[e][n] = channel[e][Before(from, e, n)]
                           /\ ~(e = from /\ Before(from, e, n) = 1)
              New(e, n) == e \in to /\ e # from /\ n = Len(channel[e]) + 1 /\ channel'[e][n] = f
  <2>2. (Old(c, i) \/ New(c, i)) /\ (Old(d, j) \/ New(d, j))
    BY <1>1
  <2>3. CASE Old(c, i) /\ Old(d, j)
    <3>1. ~(c = d /\ Before(from, c, i) = Before(from, d, j))
      BY <1>3, <2>1 DEF Before
    <3>. QED
      BY <1>3, <2>3, <3>1 DEF OnceInv
  <2>4. CASE New(c, i) /\ Old(d, j)
    BY <1>3, <2>4
  <2>5. CASE Old(c, i) /\ New(d, j)
    <3>1. Beyond(d) \cap Beyond(c) = {}
      BY <1>3, <2>5
    <3>. QED
      BY <3>1
  <2>6. CASE New(c, i) /\ New(d, j)
    <3>1. c # d
      BY <1>3, <2>6
    <3>. QED
      BY <2>6, <3>1
  <2>. QED
    BY <2>2, <2>3, <2>4, <2>5, <2>6
<1>. QED
  BY <1>2, <1>3 DEF OnceInv, Beyond

LEMMA NextKeepsOnceInv == RelayInv /\ OnceInv /\ [Next]_vars => OnceInv'
<1>. SUFFICES ASSUME RelayInv, OnceInv, [Next]_vars PROVE OnceInv'
  OBVIOUS
<1>1. ASSUME NEW h \in Hosts, NEW dst \in Addresses, SendFrame(h, dst)
      PROVE  OnceInv'
  <2>1. PICK f : /\ f \in Frame \ sent /\ sent' = sent \cup {f}
                 /\ Moved(<<>>, {<<h, SwitchOf(h)>>}, f)
                 /\ UNCHANGED <<operFdb, received>>
    BY <1>1, SendMoves
  <2>2. /\ \A c \in Channels : \A i \in DOMAIN channel[c] : channel[c][i] # f
        /\ \A k \in Hosts : \A i \in DOMAIN received[k] : received[k][i] # f
    BY <2>1 DEF RelayInv, OnlySentFrames
  <2>. QED
    BY <2>1, <2>2, MovedOnce DEF Beyond
<1>2. ASSUME NEW s \in Switches, NEW x \in Interfaces[s], Relay(x, s, 1)
      PROVE  OnceInv'
  <2>. DEFINE l == <<x, s>>  f == channel[l][1]  P == PortsFor(s, x, f.dst)
  <2>1. /\ 1 \in DOMAIN channel[l]
        /\ Moved(l, {<<s, y>> : y \in P}, f)
        /\ UNCHANGED <<sent, received>>
    BY <1>2, RelayMoves
  <2>2. P \subseteq Interfaces[s] \ {x}
    BY <2>1, PortsOfFrame
  <2>3. l \in Channels
    BY ChannelsAre
  <2>4. \A h \in Beyond(l) : \A k \in DOMAIN received[h] : received[h][k] # f
    BY <2>1, <2>3 DEF OnceInv
  <2>5. \A d \in Channels : \A i \in DOMAIN channel[d] :
          channel[d][i] = f /\ ~(d = l /\ i = 1) => Beyond(l) \cap Beyond(d) = {}
    BY <2>1, <2>3 DEF OnceInv
  <2>. HIDE DEF f, P
  <2>6. ASSUME NEW y \in P
        PROVE  /\ Beyond(<<s, y>>) = {h \in Hosts : Toward[s][h] = y}
               /\ Beyond(<<s, y>>) \subseteq Beyond(l)
    <3>1. y \in Interfaces[s] /\ y # x
      BY <2>2, <2>6
    <3>2. /\ Beyond(<<s, y>>) = {h \in Hosts : Toward[s][h] = y}
          /\ Beyond(l) = {h \in Hosts : Toward[s][h] # x}
      BY <3>1, BeyondInterface
    <3>. QED
      BY <3>1, <3>2
  <2>7. \A y, z \in P : y # z => Beyond(<<s, y>>) \cap Beyond(<<s, z>>) = {}
    BY <2>6
  <2>. HIDE DEF l
  <2>8. \A c \in {<<s, y>> : y \in P} : \A h \in Beyond(c) :
          \A k \in DOMAIN received[h] : received[h][k] # f
    BY <2>4, <2>6
  <2>9. \A c, d \in {<<s, y>> : y \in P} : c # d => Beyond(c) \cap Beyond(d) = {}
    BY <2>7
  <2>10. \A c \in {<<s, y>> : y \in P} : \A d \in Channels : \A i \in DOMAIN channel[d] :
           channel[d][i] = f /\ ~(d = l /\ i = 1) => Beyond(c) \cap Beyond(d) = {}
    BY <2>5, <2>6
  <2>. QED
    BY <2>1, <2>8, <2>9, <2>10, MovedOnce
<1>3. ASSUME NEW h \in Hosts, Receive(h)
      PROVE  OnceInv'
  <2>. DEFINE l == <<SwitchOf(h), h>>  f == channel[l][1]
  <2>1. /\ l \in Channels /\ 1 \in DOMAIN channel[l]
        /\ Moved(l, {}, f)
        /\ \A i \in Hosts \ {h} : received'[i] = received[i]
        /\ received'[h] \in {received[h], Append(received[h], f)}
    BY <1>3, ReceiveMoves
  <2>2. received[h] \in Seq(Frame) /\ f \in Frame
    BY <1>3, ReceiveMoves DEF RelayInv, RelayShape
  <2>3. h \in Beyond(l)
    BY DEF Beyond
  <2>4. f.src # h
    BY <2>1, NameAssumption DEF RelayInv, AwayInv, Away
  <2>5. \A k \in DOMAIN received[h] : received[h][k] # f
    BY <2>1, <2>3 DEF OnceInv
  <2>. HIDE DEF f
  <2>6. \A k \in DOMAIN received'[h] :
          (k \in DOMAIN received[h] /\ received'[h][k] = received[h][k])
            \/ (k = Len(received[h]) + 1 /\ received'[h][k] = f)
    <3>1. CASE received'[h] = received[h]
      BY <3>1
    <3>2. CASE received'[h] = Append(received[h], f)
      BY <2>2, <3>2
    <3>. QED
      BY <2>1, <3>1, <3>2
  <2>7. ASSUME NEW c \in Channels, NEW i \in DOMAIN channel'[c]
        PROVE  /\ Before(l, c, i) \in DOMAIN channel[c]
               /\ channel'[c][i] = channel[c][Before(l, c, i)]
               /\ ~(c = l /\ Before(l, c, i) = 1)
    <3>1. channel'[c] \in Seq(Frame)
      BY <2>1 DEF Moved
    <3>2. i \in Nat /\ i >= 1
      BY <3>1
    <3>. QED
      BY <2>1, <2>7, <3>2 DEF Moved, Before
  <2>8. ASSUME NEW c \in Channels, NEW i \in DOMAIN channel'[c], NEW g \in Beyond(c),
               NEW k \in DOMAIN received'[g]
        PROVE  received'[g][k] # channel'[c][i]
    <3>1. CASE g # h \/ (k \in DOMAIN received[h] /\ received'[h][k] = received[h][k])
      <4>1. k \in DOMAIN received[g] /\ received'[g][k] = received[g][k]
        BY <2>1, <2>8, <3>1 DEF Beyond
      <4>. QED
        BY <2>7, <2>8, <4>1 DEF OnceInv
    <3>2. CASE g = h /\ received'[h][k] = f
      <4>1. h \in Beyond(l) \cap Beyond(c)
        BY <2>3, <2>8, <3>2
      <4>2. channel[c][Before(l, c, i)] # f
        BY <2>1, <2>7, <4>1 DEF OnceInv, f
      <4>. QED
        BY <2>7, <3>2, <4>2
    <3>. QED
      BY <2>6, <2>8, <3>1, <3>2
  <2>9. ASSUME NEW c \in Channels, NEW d \in Channels, NEW i \in DOMAIN channel'[c],
               NEW j \in DOMAIN channel'[d], channel'[c][i] = channel'[d][j],
               ~(c = d /\ i = j)
        PROVE  Beyond(c) \cap Beyond(d) = {}
    <3>1. channel'[c] \in Seq(Frame) /\ channel'[d] \in Seq(Frame)
      BY <2>1 DEF Moved
    <3>2. ~(c = d /\ Before(l, c, i) = Before(l, d, j))
      BY <2>9, <3>1 DEF Before
    <3>. QED
      BY <2>7, <2>9, <3>2 DEF OnceInv
  <2>10. \A k, m \in DOMAIN received'[h] : received'[h][k] = received'[h][m] => k = m
    BY <2>5, <2>6 DEF OnceInv
  <2>11. \A k \in DOMAIN received'[h] : received'[h][k].src # h
    BY <2>4, <2>6 DEF OnceInv
  <2>12. \A g \in Hosts \ {h} :
           /\ \A k, m \in DOMAIN received'[g] : received'[g][k] = received'[g][m] => k = m
           /\ \A k \in DOMAIN received'[g] : received'[g][k].src # g
    BY <2>1 DEF OnceInv
  <2>. QED
    BY <2>8, <2>9, <2>10, <2>11, <2>12 DEF OnceInv, Beyond
<1>4. CASE UNCHANGED vars
  BY <1>4 DEF vars, OnceInv, Beyond
<1>. QED
  BY <1>1, <1>2, <1>3, <1>4 DEF Next, Send

LEMMA InitOnceInv == Init => OnceInv
<1>. SUFFICES ASSUME Init PROVE OnceInv
  OBVIOUS
<1>1. /\ \A c \in Channels : DOMAIN channel[c] = {}
      /\ \A h \in Hosts : DOMAIN received[h] = {}
  BY DEF Init
<1>. QED
  BY <1>1 DEF OnceInv, Beyond

\* No host ever gets a frame twice or a frame of its own, in any tree, whether relays
\* flood it or know the way: the copies a relay makes go to disjoint parts of the tree.
THEOREM ReceivedOnceAlways == Spec => []ReceivedOnce
<1>1. RelayInv /\ OnceInv => ReceivedOnce
  BY DEF OnceInv, ReceivedOnce, IsInjective
<1>. QED
  BY <1>1, RelayInvariance, InitOnceInv, NextKeepsOnceInv, PTL DEF Spec
=============================================================================
