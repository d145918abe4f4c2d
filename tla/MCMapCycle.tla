---- MODULE MCMapCycle ----
(* Three maps, two clients, and limits that keep a map to a crowd, to a    *)
(* lone player, to exactly one or two players, or to nobody at all.        *)
EXTENDS MapCycle

SmallLimits ==
  {Unlimited, [min |-> 2, max |-> 0], [min |-> 0, max |-> 1], [min |-> 1, max |-> 2],
   [min |-> 2, max |-> 1]}
====
