SPECIFICATION Spec
CONSTANTS
  Hosts = {"a", "b", "c"}
  Switches = {"left", "middle", "right"}
  Groups = {"group"}
  Members <- MCMembers
  Interfaces <- MCInterfaces
  Toward <- MCToward
  StaticEntries <- MCStatic
  BlockedPorts <- MCBlocked
  MaxFrames = 3
INVARIANTS
  EntriesPointHome
  ReceivedOnce
PROPERTIES
  FramesArrive
CHECK_DEADLOCK FALSE
