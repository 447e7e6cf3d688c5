-------------------------------- MODULE MCXhci --------------------------------
(***************************************************************************)
(* Bounds for TLC: ports with enough changes for each ring to wrap several *)
(* times, a port change, a timeout or a failure at every point of an       *)
(* enumeration on one or on two ports, and changes of a port that the      *)
(* driver does not see.                                                    *)
(***************************************************************************)
EXTENDS Xhci

Budget(ports, kinds, plugs, keys, bounces, odd) ==
  [ports |-> ports, devs |-> kinds, plugs |-> plugs, keys |-> keys,
   bounces |-> bounces, odd |-> odd]
Laps == Budget({1}, {"mouse"}, 16, 1, 0, 0)   \* the command and the event ring wrap
Typing == Budget({1}, {"kbd"}, 2, 18, 0, 0)   \* a keyboard's transfer ring wraps
Pairs == Budget({1, 2}, {"mouse"}, 5, 1, 0, 0)
Races == Budget({1, 2}, {"mouse"}, 2, 1, 0, 1)
Replug == Budget({1}, {"kbd", "mouse"}, 4, 0, 0, 1)
Disk == Budget({1}, {"disk"}, 2, 0, 0, 1)
Bounces == Budget({1}, {"mouse"}, 7, 0, 2, 0)   \* slots are lost
Crossed == Budget({1, 2}, {"mouse"}, 5, 0, 2, 0)
MCBudgets == {Laps, Typing, Pairs, Races, Replug, Disk, Bounces, Crossed}
===============================================================================
