-------------------------- MODULE MCForwardingRelay --------------------------
(***************************************************************************)
(* Three switches in a line with a host each.  The database files know one *)
(* of the hosts and a group; the port of another host is blocked.          *)
(***************************************************************************)
EXTENDS ForwardingRelay

MCInterfaces ==
  [left |-> {"a", "middle"}, middle |-> {"left", "b", "right"}, right |-> {"middle", "c"}]
MCToward ==
  [left |-> [a |-> "a", b |-> "middle", c |-> "middle"],
   middle |-> [a |-> "left", b |-> "b", c |-> "right"],
   right |-> [a |-> "middle", b |-> "middle", c |-> "c"]]
MCMembers == [group |-> {"b", "c"}]
MCStatic ==
  [left |-> [a |-> {}, b |-> {}, c |-> {"middle"}, group |-> {"middle"}],
   middle |-> [a |-> {}, b |-> {}, c |-> {"right"}, group |-> {"b", "right"}],
   right |-> [a |-> {}, b |-> {}, c |-> {"c"}, group |-> {"middle", "c"}]]
MCBlocked == [left |-> {}, middle |-> {"b"}, right |-> {}]
=============================================================================
