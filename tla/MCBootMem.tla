------------------------------- MODULE MCBootMem -------------------------------
(* Instances of BootMem for TLC: pages of a few units with blocks aligned to *)
(* 2, so sizes fall on, before and behind every boundary.                    *)
EXTENDS BootMem

R(base, length, type) == [base |-> base, length |-> length, type |-> type]

(* A hole in the middle, a region cut by the 64GB limit, several types, and  *)
(* no map at all.                                                            *)
FirmwareMaps == {{R(0, 5, 1)},
                 {R(0, 3, 1), R(3, 1, 2), R(4, 1, 1)},
                 {R(0, 4, 1), R(4, 4, 1)},
                 {}}
HoleMaps == {{R(0, 3, 1), R(3, 1, 2), R(4, 2, 1)}}
SmallMaps == {{R(0, 4, 1)}}
===============================================================================
