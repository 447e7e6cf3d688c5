--------------------------- MODULE IrqVectorsProofs ---------------------------
(***************************************************************************)
(* Proofs about IrqVectors, for any number of CPUs and vectors and any mix *)
(* of devices: the bits of a vector bitmap that are set are always its     *)
(* lowest ones, so that the aligned block an MSI device gets is free even  *)
(* though only the unaligned region below it has been looked at.           *)
(***************************************************************************)
EXTENDS IrqVectors, FiniteSetTheorems, TLAPS

(* What makes the allocator safe: it has no way to leave a hole. *)
Prefixes == \A c \in CPU : \E k \in 0 .. NR : bitmap[c] = 0 .. k - 1

(* Where the probe of d is, what is on its irq_list and what is enabled. *)
Block(d, b) == {<<k, b + k>> : k \in 0 .. msi[d] - 1}
ListInv ==
    \A d \in Dev :
        /\ probe[d] = "no" => entries[d] = {}
        /\ probe[d] = "msix" => IsFiniteSet(entries[d])
        /\ probe[d] = "msi" => msi[d] > 0 /\ entries[d] = {}
        /\ probe[d] \in {"no", "msix", "msi"} => mode[d] = "none"
        /\ mode[d] = "msi" => /\ msi[d] > 0
                              /\ \E b \in 0 .. NR : b % msi[d] = 0 /\ entries[d] = Block(d, b)

(* The interrupts on a list are marked, and on no other device's list. *)
OwnedInv ==
    /\ \A d \in Dev : \A e \in entries[d] : e[2] >= 0 => e[2] \in bitmap[0]
    /\ \A d1, d2 \in Dev : \A e1 \in entries[d1], e2 \in entries[d2] :
           d1 # d2 /\ e1[2] = e2[2] => e1[2] = -1

(* Who has a handler for an interrupt: the probed devices that have it on    *)
(* their lists, and the timer of a CPU for one that is on no list.           *)
HandlerInv ==
    /\ \A i \in 0 .. NR - 1, d \in Dev :
           d \in action[0][i] <=> probe[d] = "done" /\ \E e \in entries[d] : e[2] = i
    /\ \A c \in CPU, i \in 0 .. NR - 1 : Timer \in action[c][i] => i \in bitmap[c]
    /\ \A i \in 0 .. NR - 1 : Timer \in action[0][i] => \A d \in Dev : \A e \in entries[d] : e[2] # i

IInv == TypeOK /\ Prefixes /\ ListInv /\ OwnedInv /\ HandlerInv
-------------------------------------------------------------------------------
(* round_up goes to the next multiple, div_round_up counts it. *)
LEMMA RoundUpFacts ==
    ASSUME NEW x \in Nat, NEW y \in Nat, y > 0
    PROVE  /\ round_up(x, y) \in Nat
           /\ x <= round_up(x, y) /\ round_up(x, y) < x + y
           /\ round_up(x, y) % y = 0
           /\ div_round_up(x, y) \in Nat /\ div_round_up(x, y) <= x
<1> DEFINE q == (x + (y - 1)) \div y
<1>1. q \in Nat /\ q * y <= x + (y - 1) /\ x + (y - 1) < q * y + y
  BY Z3
<1>2. round_up(x, y) = q * y /\ div_round_up(x, y) = q
  BY DEF round_up, div_round_up
<1>3. q <= x
  <2>1. CASE x = 0
    BY <1>1, <2>1, Z3
  <2>2. CASE x > 0
    <3>1. SUFFICES ASSUME q >= x + 1 PROVE FALSE
      BY <1>1
    <3>2. q * y >= (x + 1) * y
      BY <3>1, <1>1, Z3
    <3>3. (x + 1) * y = x * y + y /\ x * y >= x
      BY Z3
    <3> QED
      BY <3>2, <3>3, <1>1
  <2> QED
    BY <2>1, <2>2
<1> HIDE DEF q
<1>4. (q * y) % y = 0 /\ q * y \in Nat
  BY <1>1
<1> QED
  BY <1>1, <1>2, <1>3, <1>4

(* A multiple of y at or above x is at or above round_up(x, y). *)
LEMMA RoundUpLeast ==
    ASSUME NEW x \in Nat, NEW y \in Nat, y > 0, NEW z \in Nat, z % y = 0, x <= z
    PROVE  round_up(x, y) <= z
<1> DEFINE q == (x + (y - 1)) \div y
           r == z \div y
<1>1. q \in Nat /\ q * y <= x + (y - 1)
  BY Z3
<1>2. r \in Nat /\ z = r * y
  BY Z3
<1>3. round_up(x, y) = q * y
  BY DEF round_up
<1> HIDE DEF q, r
<1>4. SUFFICES ASSUME q >= r + 1 PROVE FALSE
  <2>1. q <= r => q * y <= r * y
    BY <1>1, <1>2
  <2> QED
    BY <1>1, <1>2, <1>3, <2>1
<1>5. q * y >= (r + 1) * y /\ (r + 1) * y = r * y + y
  BY <1>4, <1>1, <1>2, Z3
<1> QED
  BY <1>1, <1>2, <1>5
(* A multiple of m has the remainder 0. *)
LEMMA MultMod == ASSUME NEW p \in Int, NEW m \in Nat, m > 0 PROVE (p * m) % m = 0
  OBVIOUS

(* The lowest free region of a bitmap without holes is where its bits end. *)
LEMMA FreeAtEnd ==
    ASSUME NEW k \in 0 .. NR, NEW m \in Nat, m > 0,
           NEW f \in bitmap_find_free_region(0 .. k - 1, m)
    PROVE  f = k /\ f + m <= NR
<1>1. NR \in Nat
  BY IrqAssumption
<1>2. f \in 0 .. NR - m /\ \A j \in f .. f + m - 1 : j \notin 0 .. k - 1
  BY DEF bitmap_find_free_region, Regions
<1>3. f \in f .. f + m - 1
  BY <1>1, <1>2
<1>4. f >= k
  BY <1>1, <1>2, <1>3
<1>5. k \in 0 .. NR - m /\ \A j \in k .. k + m - 1 : j \notin 0 .. k - 1
  BY <1>1, <1>2, <1>4
<1>6. k \in Regions(0 .. k - 1, m)
  BY <1>5 DEF Regions
<1>7. f <= k
  BY <1>6 DEF bitmap_find_free_region
<1> QED
  BY <1>1, <1>2, <1>4, <1>7

(* The block of alloc_irqs(f, m, m): it starts on a multiple of m, ends      *)
(* within the bitmap, was free, and again leaves no hole.                    *)
LEMMA AllocFacts ==
    ASSUME TypeOK, Prefixes, NEW m \in Nat, m > 0, NR % m = 0,
           NEW f, alloc_irqs(f, m, m)
    PROVE  /\ round_up(f, m) \in Nat /\ round_up(f, m) + m <= NR /\ round_up(f, m) % m = 0
           /\ m = 1 => round_up(f, m) = f
           /\ \A j \in Nat : j >= round_up(f, m) => j \notin bitmap[0]
           /\ bitmap[0] \subseteq bitmap'[0]
           /\ \A j \in 0 .. round_up(f, m) + m - 1 : j \in bitmap'[0]
           /\ bitmap' \in [CPU -> SUBSET (0 .. NR - 1)]
           /\ \A c \in CPU : c # 0 => bitmap'[c] = bitmap[c]
           /\ Prefixes'
<1>1. NR \in Nat /\ N \in Nat /\ 0 \in CPU /\ bitmap \in [CPU -> SUBSET (0 .. NR - 1)]
  BY IrqAssumption DEF TypeOK, CPU
<1>2. PICK k \in 0 .. NR : bitmap[0] = 0 .. k - 1
  BY <1>1 DEF Prefixes
<1>3. round_up(m, m) = m
  <2>1. m % m = 0
    BY SMT
  <2>2. round_up(m, m) \in Nat /\ m <= round_up(m, m) /\ round_up(m, m) <= m
    BY <2>1, RoundUpFacts, RoundUpLeast
  <2> QED
    BY <2>2
<1>4. f = k /\ f + m <= NR
  BY <1>2, <1>3, FreeAtEnd DEF alloc_irqs
<1> DEFINE a == round_up(f, m)
           d == div_round_up(f, m)
<1>5. a \in Nat /\ k <= a /\ a < k + m /\ a % m = 0 /\ d \in Nat /\ d <= k
  BY <1>4, <1>1, RoundUpFacts
<1>6. a <= NR - m
  <2>1. NR - m \in Nat /\ k <= NR - m
    BY <1>1, <1>4
  <2>2. (NR - m) % m = 0
    <3>1. PICK q \in Nat : NR = q * m
      <4>1. NR = (NR \div m) * m /\ NR \div m \in Nat
        BY <1>1
      <4> QED
        BY <4>1
    <3>2. NR - m = (q - 1) * m /\ q - 1 \in Int
      BY <3>1, <1>1
    <3>3. ((q - 1) * m) % m = 0
      BY <3>2, MultMod
    <3> QED
      BY <3>2, <3>3
  <2> QED
    BY <2>1, <2>2, <1>4, RoundUpLeast
<1>7. bitmap' = [bitmap EXCEPT ![0] = (bitmap[0] \ f .. a - 1) \cup d .. a + m - 1]
  BY DEF alloc_irqs, bitmap_allocate_bits_aligned
<1> HIDE DEF a, d
<1>8. (0 .. k - 1) \ f .. a - 1 = 0 .. k - 1
  BY <1>4, <1>5
<1>9. (0 .. k - 1) \cup d .. a + m - 1 = 0 .. a + m - 1
  BY <1>5
<1>10. bitmap' = [bitmap EXCEPT ![0] = 0 .. a + m - 1]
  BY <1>2, <1>7, <1>8, <1>9
<1>11. bitmap'[0] = 0 .. a + m - 1 /\ \A c \in CPU : c # 0 => bitmap'[c] = bitmap[c]
  BY <1>1, <1>10
<1>12. bitmap' \in [CPU -> SUBSET (0 .. NR - 1)]
  BY <1>1, <1>5, <1>6, <1>10
<1>13. Prefixes'
  <2>1. a + m \in 0 .. NR /\ (a + m) - 1 = a + m - 1
    BY <1>1, <1>5, <1>6
  <2>2. \E n \in 0 .. NR : bitmap'[0] = 0 .. n - 1
    BY <2>1, <1>11
  <2>3. \A c \in CPU : c # 0 => \E n \in 0 .. NR : bitmap'[c] = 0 .. n - 1
    BY <1>11 DEF Prefixes
  <2> QED
    BY <2>2, <2>3 DEF Prefixes
<1>14. a \in Nat /\ a + m <= NR /\ a % m = 0 /\ (m = 1 => a = f)
  BY <1>1, <1>4, <1>5, <1>6
<1>15. \A j \in Nat : j >= a => j \notin bitmap[0]
  BY <1>2, <1>5
<1>16. bitmap[0] \subseteq bitmap'[0] /\ \A j \in 0 .. a + m - 1 : j \in bitmap'[0]
  BY <1>2, <1>5, <1>11
<1> QED
  BY <1>11, <1>12, <1>13, <1>14, <1>15, <1>16 DEF a
-------------------------------------------------------------------------------
(* Nothing is allocated, probed or handled at first. *)
LEMMA InitIInv == Init => IInv
<1> SUFFICES ASSUME Init PROVE IInv
  OBVIOUS
<1> USE DEF Init
<1>1. NR \in Nat /\ N \in Nat /\ 0 \in CPU /\ N > 0
  BY IrqAssumption DEF CPU
<1>2. TypeOK
  BY <1>1 DEF TypeOK
<1>3. Prefixes
  <2>1. 0 .. 0 - 1 = {} /\ 0 \in 0 .. NR /\ \A c \in CPU : bitmap[c] = {}
    BY <1>1
  <2> QED
    BY <2>1 DEF Prefixes
<1>4. ListInv
  BY FS_EmptySet DEF ListInv
<1>5. OwnedInv
  BY DEF OwnedInv
<1>6. HandlerInv
  <2>1. \A c \in CPU, i \in 0 .. NR - 1 : action[c][i] = {}
    BY <1>1
  <2> QED
    BY <2>1, <1>1 DEF HandlerInv
<1> QED
  BY <1>2, <1>3, <1>4, <1>5, <1>6 DEF IInv

(* A probe begins: pci_probe reads the device's capabilities. *)
LEMMA ProbeStep ==
    ASSUME IInv, NEW d \in Dev, pci_probe(d)
    PROVE  IInv'
<1> USE DEF IInv, pci_probe
<1>1. msi \in [Dev -> Nat] /\ msix \in [Dev -> Nat]
  BY IrqAssumption
<1>2. probe \in [Dev -> {"no", "msix", "msi", "request", "done"}]
  BY DEF TypeOK
<1>3. /\ probe' \in [Dev -> {"no", "msix", "msi", "request", "done"}]
      /\ \A x \in Dev : x # d => probe'[x] = probe[x]
      /\ probe'[d] \in {"msix", "msi", "request"} /\ (probe'[d] = "msi" => msi[d] > 0)
  BY <1>1, <1>2
<1>4. TypeOK'
  BY <1>3 DEF TypeOK
<1>5. ListInv'
  <2>1. entries[d] = {} /\ mode[d] = "none" /\ IsFiniteSet({})
    BY FS_EmptySet DEF ListInv
  <2>2. mode' = mode /\ entries' = entries
    OBVIOUS
  <2> QED
    BY <1>3, <2>1, <2>2 DEF ListInv
<1>6. Prefixes' /\ OwnedInv'
  BY DEF Prefixes, OwnedInv
<1>7. HandlerInv'
  BY <1>3 DEF HandlerInv
<1> QED
  BY <1>4, <1>5, <1>6, <1>7

(* A new interrupt, or -1, on the list of a device whose probe is at MSI-X. *)
LEMMA MsixEntryStep ==
    ASSUME IInv, NEW d \in Dev, MsixEntry(d)
    PROVE  IInv'
<1>1. TypeOK /\ Prefixes /\ ListInv /\ OwnedInv /\ HandlerInv /\ NR \in Nat /\ 0 \in CPU
  BY IrqAssumption DEF IInv, CPU
<1> DEFINE n == Cardinality(entries[d])
<1>2. probe[d] = "msix" /\ IsFiniteSet(entries[d]) /\ n \in Nat
  BY <1>1, FS_CardinalityType DEF MsixEntry, ListInv
<1>3. UNCHANGED <<nr_cpus, action, boot, probe, mode>>
  BY DEF MsixEntry
<1>4. PICK i \in -1 .. NR - 1 :
        /\ Register(d, n, i)
        /\ i >= 0 => i \notin bitmap[0] /\ i \in bitmap'[0]
        /\ bitmap[0] \subseteq bitmap'[0]
        /\ bitmap' \in [CPU -> SUBSET (0 .. NR - 1)]
        /\ \A c \in CPU : c # 0 => bitmap'[c] = bitmap[c]
        /\ Prefixes'
  <2>1. CASE NoRoom(1, 1) /\ Register(d, n, -1)
    <3>1. bitmap' = bitmap /\ bitmap \in [CPU -> SUBSET (0 .. NR - 1)]
      BY <2>1, <1>1 DEF NoRoom, TypeOK
    <3>2. Prefixes'
      BY <3>1, <1>1 DEF Prefixes
    <3>3. -1 \in -1 .. NR - 1 /\ ~(-1 >= 0)
      BY <1>1
    <3> QED
      BY <2>1, <3>1, <3>2, <3>3
  <2>2. ASSUME NEW f \in 0 .. NR, alloc_irqs(f, 1, 1), Register(d, n, f)
        PROVE  \E i \in -1 .. NR - 1 :
                 /\ Register(d, n, i)
                 /\ i >= 0 => i \notin bitmap[0] /\ i \in bitmap'[0]
                 /\ bitmap[0] \subseteq bitmap'[0]
                 /\ bitmap' \in [CPU -> SUBSET (0 .. NR - 1)]
                 /\ \A c \in CPU : c # 0 => bitmap'[c] = bitmap[c]
                 /\ Prefixes'
    <3>1. NR % 1 = 0
      BY <1>1
    <3>2. round_up(f, 1) = f /\ round_up(f, 1) + 1 <= NR
      BY <2>2, <3>1, <1>1, AllocFacts
    <3>3. f \in -1 .. NR - 1 /\ f \in Nat /\ f \in 0 .. f + 1 - 1 /\ f >= f
      BY <3>2, <1>1
    <3>4. f \notin bitmap[0] /\ f \in bitmap'[0]
      BY <2>2, <3>1, <3>2, <3>3, <1>1, AllocFacts
    <3>5. /\ bitmap[0] \subseteq bitmap'[0]
          /\ bitmap' \in [CPU -> SUBSET (0 .. NR - 1)]
          /\ \A c \in CPU : c # 0 => bitmap'[c] = bitmap[c]
          /\ Prefixes'
      BY <2>2, <3>1, <1>1, AllocFacts
    <3> QED
      BY <2>2, <3>3, <3>4, <3>5
  <2> QED
    BY <2>1, <2>2 DEF MsixEntry
<1> HIDE DEF n
<1>5. /\ entries' = [entries EXCEPT ![d] = entries[d] \cup {<<n, i>>}]
      /\ entries \in [Dev -> SUBSET (Nat \X (-1 .. NR - 1))]
  BY <1>1, <1>4 DEF Register, TypeOK
<1>6. /\ entries'[d] = entries[d] \cup {<<n, i>>}
      /\ \A x \in Dev : x # d => entries'[x] = entries[x]
      /\ entries' \in [Dev -> SUBSET (Nat \X (-1 .. NR - 1))]
  BY <1>2, <1>5
<1>7. TypeOK'
  BY <1>1, <1>3, <1>4, <1>6 DEF TypeOK
<1>8. ListInv'
  <2>1. IsFiniteSet(entries'[d])
    <3>1. IsFiniteSet(entries[d] \cup {<<n, i>>})
      BY <1>2, FS_AddElement, Zenon
    <3> QED
      BY <1>6, <3>1
  <2>2. probe[d] = "msix" /\ mode[d] = "none"
    BY <1>1, <1>2 DEF ListInv
  <2> QED
    BY <1>1, <1>3, <1>6, <2>1, <2>2 DEF ListInv, Block
<1>9. OwnedInv'
  <2>1. \A x \in Dev : \A e \in entries[x] : e[2] >= 0 => e[2] # i
    BY <1>1, <1>4 DEF OwnedInv
  <2>2. \A e \in entries'[d] : e \in entries[d] \/ e[2] = i
    BY <1>6
  <2>3. \A x \in Dev : \A e \in entries[x] : e[2] \in -1 .. NR - 1
    BY <1>5
  <2>4. \A x \in Dev : \A e \in entries[x] : e[2] = i => i = -1
    BY <1>1, <2>1, <2>3
  <2>5. \A x \in Dev : \A e \in entries'[x] : e[2] >= 0 => e[2] \in bitmap'[0]
    BY <1>1, <1>4, <1>6, <2>2 DEF OwnedInv
  <2>6. \A x, y \in Dev : \A e1 \in entries'[x], e2 \in entries'[y] :
            x # y /\ e1[2] = e2[2] => e1[2] = -1
    BY <1>1, <1>6, <2>2, <2>4 DEF OwnedInv
  <2> QED
    BY <2>5, <2>6 DEF OwnedInv
<1>10. HandlerInv'
  <2>1. probe[d] # "done"
    BY <1>2
  <2>2. \A j \in 0 .. NR - 1, x \in Dev :
            x \in action[0][j] <=> probe[x] = "done" /\ \E e \in entries'[x] : e[2] = j
    BY <1>1, <1>6, <2>1 DEF HandlerInv
  <2>3. \A c \in CPU, j \in 0 .. NR - 1 : Timer \in action[c][j] => j \in bitmap'[c]
    BY <1>1, <1>4 DEF HandlerInv
  <2>4. \A j \in 0 .. NR - 1 : Timer \in action[0][j] => j # i
    BY <1>1, <1>4 DEF HandlerInv
  <2>5. \A e \in entries'[d] : e \in entries[d] \/ e[2] = i
    BY <1>6
  <2> QED
    BY <1>1, <1>3, <1>6, <2>2, <2>3, <2>4, <2>5 DEF HandlerInv
<1> QED
  BY <1>4, <1>7, <1>8, <1>9, <1>10 DEF IInv
(* All entries are set up: MSI-X is enabled. *)
LEMMA MsixEnableStep ==
    ASSUME IInv, NEW d \in Dev, MsixEnable(d)
    PROVE  IInv'
<1>1. TypeOK /\ Prefixes /\ ListInv /\ OwnedInv /\ HandlerInv
  BY DEF IInv
<1>2. /\ probe \in [Dev -> {"no", "msix", "msi", "request", "done"}]
      /\ mode \in [Dev -> {"none", "msi", "msix"}]
  BY <1>1 DEF TypeOK
<1>3. /\ probe[d] = "msix" /\ UNCHANGED <<nr_cpus, bitmap, action, boot, entries>>
      /\ probe' = [probe EXCEPT ![d] = "request"] /\ mode' = [mode EXCEPT ![d] = "msix"]
  BY DEF MsixEnable
<1>4. /\ probe'[d] = "request" /\ mode'[d] = "msix"
      /\ \A x \in Dev : x # d => probe'[x] = probe[x] /\ mode'[x] = mode[x]
  BY <1>2, <1>3
<1>5. TypeOK'
  BY <1>1, <1>2, <1>3 DEF TypeOK
<1>6. Prefixes' /\ OwnedInv'
  BY <1>1, <1>3 DEF Prefixes, OwnedInv
<1>7. ListInv'
  BY <1>1, <1>3, <1>4 DEF ListInv
<1>8. HandlerInv'
  BY <1>1, <1>3, <1>4 DEF HandlerInv
<1> QED
  BY <1>5, <1>6, <1>7, <1>8 DEF IInv

(* An MSI device gets one aligned block, or nothing. *)
LEMMA MsiInitStep ==
    ASSUME IInv, NEW d \in Dev, MsiInit(d)
    PROVE  IInv'
<1>1. /\ TypeOK /\ Prefixes /\ ListInv /\ OwnedInv /\ HandlerInv /\ NR \in Nat /\ 0 \in CPU
      /\ msi \in [Dev -> Nat] /\ \A x \in Dev : msi[x] # 0 => NR % msi[x] = 0
  BY IrqAssumption DEF IInv, CPU
<1>2. /\ probe[d] = "msi" /\ probe' = [probe EXCEPT ![d] = "request"]
      /\ UNCHANGED <<nr_cpus, action, boot>>
  BY DEF MsiInit
<1>3. /\ probe \in [Dev -> {"no", "msix", "msi", "request", "done"}]
      /\ mode \in [Dev -> {"none", "msi", "msix"}]
      /\ entries \in [Dev -> SUBSET (Nat \X (-1 .. NR - 1))]
  BY <1>1 DEF TypeOK
<1>4. /\ probe'[d] = "request" /\ \A x \in Dev : x # d => probe'[x] = probe[x]
      /\ probe' \in [Dev -> {"no", "msix", "msi", "request", "done"}]
  BY <1>2, <1>3
<1>5. msi[d] \in Nat /\ msi[d] > 0 /\ NR % msi[d] = 0 /\ entries[d] = {} /\ mode[d] = "none"
  BY <1>1, <1>2 DEF ListInv
<1>6. CASE NoRoom(msi[d], msi[d]) /\ UNCHANGED <<entries, mode>>
  <2>1. bitmap' = bitmap
    BY <1>6 DEF NoRoom
  <2>2. TypeOK' /\ Prefixes' /\ OwnedInv'
    BY <1>1, <1>2, <1>4, <1>6, <2>1 DEF TypeOK, Prefixes, OwnedInv
  <2>3. ListInv'
    BY <1>1, <1>2, <1>4, <1>5, <1>6 DEF ListInv
  <2>4. HandlerInv'
    BY <1>1, <1>2, <1>4, <1>5, <1>6, <2>1 DEF HandlerInv
  <2> QED
    BY <2>2, <2>3, <2>4 DEF IInv
<1>7. ASSUME NEW f \in 0 .. NR, alloc_irqs(f, msi[d], msi[d]),
             RegisterBlock(d, round_up(f, msi[d])), mode' = [mode EXCEPT ![d] = "msi"]
      PROVE  IInv'
  <2> DEFINE a == round_up(f, msi[d])
  <2>1. /\ a \in Nat /\ a + msi[d] <= NR /\ a % msi[d] = 0
        /\ \A j \in Nat : j >= a => j \notin bitmap[0]
        /\ \A j \in 0 .. a + msi[d] - 1 : j \in bitmap'[0]
    BY <1>1, <1>5, <1>7, AllocFacts
  <2>2. /\ bitmap[0] \subseteq bitmap'[0]
        /\ bitmap' \in [CPU -> SUBSET (0 .. NR - 1)]
        /\ \A c \in CPU : c # 0 => bitmap'[c] = bitmap[c]
        /\ Prefixes'
    BY <1>1, <1>5, <1>7, AllocFacts
  <2>3. entries' = [entries EXCEPT ![d] = Block(d, a)]
    <3>1. Block(d, a) = {<<k, a + k>> : k \in 0 .. msi[d] - 1}
      BY DEF Block
    <3> QED
      BY <1>7, <3>1 DEF RegisterBlock
  <2> HIDE DEF a
  <2>4. \A e \in Block(d, a) : /\ e \in Nat \X (-1 .. NR - 1)
                               /\ e[2] \in Nat /\ e[2] >= a /\ e[2] <= a + msi[d] - 1
    BY <2>1, <1>1, <1>5 DEF Block
  <2>5. /\ entries'[d] = Block(d, a) /\ \A x \in Dev : x # d => entries'[x] = entries[x]
        /\ entries' \in [Dev -> SUBSET (Nat \X (-1 .. NR - 1))]
    BY <1>3, <2>3, <2>4
  <2>6. /\ mode'[d] = "msi" /\ \A x \in Dev : x # d => mode'[x] = mode[x]
        /\ mode' \in [Dev -> {"none", "msi", "msix"}]
    BY <1>3, <1>7
  <2>7. TypeOK'
    BY <1>1, <1>2, <1>4, <2>2, <2>5, <2>6 DEF TypeOK
  <2>8. ListInv'
    <3>1. \E b \in 0 .. NR : b % msi[d] = 0 /\ entries'[d] = Block(d, b)
      BY <2>1, <2>5, <1>1, <1>5
    <3> QED
      BY <1>1, <1>4, <1>5, <2>5, <2>6, <3>1 DEF ListInv
  <2>9. \A e \in entries'[d] : e[2] \in Nat /\ e[2] \notin bitmap[0] /\ e[2] \in bitmap'[0]
    BY <2>1, <2>4, <2>5, <1>5
  <2>10. \A x \in Dev : \A e \in entries[x] : e[2] \in -1 .. NR - 1
    BY <1>3
  <2>11. OwnedInv'
    <3>1. \A x \in Dev : \A e \in entries'[x] : e[2] >= 0 => e[2] \in bitmap'[0]
      BY <1>1, <2>2, <2>5, <2>9 DEF OwnedInv
    <3>2. \A x \in Dev : x # d => \A e \in entries[x] : \A e1 \in entries'[d] : e[2] # e1[2]
      BY <1>1, <2>9, <2>10 DEF OwnedInv
    <3>3. \A x, y \in Dev : \A e1 \in entries'[x], e2 \in entries'[y] :
              x # y /\ e1[2] = e2[2] => e1[2] = -1
      BY <1>1, <2>5, <3>2 DEF OwnedInv
    <3> QED
      BY <3>1, <3>3 DEF OwnedInv
  <2>12. HandlerInv'
    <3>1. \A j \in 0 .. NR - 1, x \in Dev :
              x \in action[0][j] <=> probe'[x] = "done" /\ \E e \in entries'[x] : e[2] = j
      BY <1>1, <1>2, <1>4, <2>5 DEF HandlerInv
    <3>2. \A c \in CPU, j \in 0 .. NR - 1 : Timer \in action[c][j] => j \in bitmap'[c]
      BY <1>1, <2>2 DEF HandlerInv
    <3>3. \A j \in 0 .. NR - 1 : Timer \in action[0][j] => \A e \in entries'[d] : e[2] # j
      BY <1>1, <2>9 DEF HandlerInv
    <3> QED
      BY <1>1, <1>2, <2>5, <3>1, <3>2, <3>3 DEF HandlerInv
  <2> QED
    BY <2>2, <2>7, <2>8, <2>11, <2>12 DEF IInv
<1> QED
  BY <1>6, <1>7 DEF MsiInit

(* The driver registers its handler for everything on its list. *)
LEMMA RequestStep ==
    ASSUME IInv, NEW d \in Dev, request_irqs(d)
    PROVE  IInv'
<1>1. /\ TypeOK /\ Prefixes /\ ListInv /\ OwnedInv /\ HandlerInv /\ NR \in Nat /\ 0 \in CPU
      /\ Timer \notin Dev
  BY IrqAssumption DEF IInv, CPU
<1>2. /\ probe[d] = "request" /\ probe' = [probe EXCEPT ![d] = "done"]
      /\ UNCHANGED <<nr_cpus, bitmap, boot, entries, mode>>
      /\ action' = [action EXCEPT ![0] = [i \in DOMAIN action[0] |->
             IF \E e \in entries[d] : e[2] = i THEN action[0][i] \cup {d} ELSE action[0][i]]]
  BY DEF request_irqs
<1>3. /\ probe \in [Dev -> {"no", "msix", "msi", "request", "done"}]
      /\ action \in [CPU -> [-1 .. NR - 1 -> SUBSET (Dev \cup {Timer})]]
  BY <1>1 DEF TypeOK
<1>4. /\ probe'[d] = "done" /\ \A x \in Dev : x # d => probe'[x] = probe[x]
      /\ probe' \in [Dev -> {"no", "msix", "msi", "request", "done"}]
  BY <1>2, <1>3
<1>5. /\ \A i \in -1 .. NR - 1 : action'[0][i] =
             IF \E e \in entries[d] : e[2] = i THEN action[0][i] \cup {d} ELSE action[0][i]
      /\ \A c \in CPU : c # 0 => action'[c] = action[c]
      /\ action' \in [CPU -> [-1 .. NR - 1 -> SUBSET (Dev \cup {Timer})]]
  BY <1>1, <1>2, <1>3
<1>6. TypeOK'
  BY <1>1, <1>2, <1>4, <1>5 DEF TypeOK
<1>7. Prefixes' /\ OwnedInv'
  BY <1>1, <1>2 DEF Prefixes, OwnedInv
<1>8. ListInv'
  BY <1>1, <1>2, <1>4 DEF ListInv
<1>9. HandlerInv'
  <2>1. \A i \in 0 .. NR - 1 : i \in -1 .. NR - 1
    BY <1>1
  <2>2. \A i \in 0 .. NR - 1, x \in Dev :
            x \in action'[0][i] <=> probe'[x] = "done" /\ \E e \in entries[x] : e[2] = i
    BY <1>1, <1>2, <1>4, <1>5, <2>1 DEF HandlerInv
  <2>3. \A c \in CPU, i \in 0 .. NR - 1 : Timer \in action'[c][i] => Timer \in action[c][i]
    <3>1. \A i \in 0 .. NR - 1 : Timer \in action'[0][i] => Timer \in action[0][i]
      <4> TAKE i \in 0 .. NR - 1
      <4>1. action'[0][i] = action[0][i] \cup {d} \/ action'[0][i] = action[0][i]
        BY <1>5, <2>1
      <4> QED
        BY <1>1, <4>1
    <3> QED
      BY <1>5, <3>1
  <2> QED
    BY <1>1, <1>2, <2>2, <2>3 DEF HandlerInv
<1> QED
  BY <1>6, <1>7, <1>8, <1>9 DEF IInv
(* An AP sets up its bitmap: nothing of it is in use. *)
LEMMA SetupStep ==
    ASSUME IInv, NEW c \in CPU, setup_irq(c)
    PROVE  IInv'
<1>1. /\ UNCHANGED <<nr_cpus, bitmap, action, probe, entries, mode>>
      /\ boot' = [boot EXCEPT ![c] = "irqs"]
  BY DEF setup_irq
<1>2. TypeOK'
  BY <1>1 DEF IInv, TypeOK
<1> QED
  BY <1>1, <1>2 DEF IInv, Prefixes, ListInv, OwnedInv, HandlerInv

(* The timer of a CPU takes the lowest free interrupt, or none. *)
LEMMA TimerStep ==
    ASSUME IInv, NEW c \in CPU, TimerIrq(c)
    PROVE  IInv'
<1>1. /\ TypeOK /\ Prefixes /\ ListInv /\ OwnedInv /\ HandlerInv /\ NR \in Nat /\ 0 \in CPU
      /\ Timer \notin Dev
  BY IrqAssumption DEF IInv, CPU
<1>2. /\ UNCHANGED <<nr_cpus, probe, entries, mode>>
      /\ boot' = [boot EXCEPT ![c] = "timer"]
  BY DEF TimerIrq
<1>3. /\ bitmap \in [CPU -> SUBSET (0 .. NR - 1)]
      /\ action \in [CPU -> [-1 .. NR - 1 -> SUBSET (Dev \cup {Timer})]]
      /\ entries \in [Dev -> SUBSET (Nat \X (-1 .. NR - 1))]
  BY <1>1 DEF TypeOK
<1>4. ListInv'
  BY <1>1, <1>2 DEF ListInv
<1>5. PICK k \in 0 .. NR : bitmap[c] = 0 .. k - 1
  BY <1>1 DEF Prefixes
<1>6. ASSUME NEW i \in bitmap_find_free_region(bitmap[c], 1),
             bitmap' = [bitmap EXCEPT ![c] = bitmap_allocate_bits(bitmap[c], i, 1)],
             action' = [action EXCEPT ![c][i] = action[c][i] \cup {Timer}]
      PROVE  IInv'
  <2>1. i = k /\ i + 1 <= NR
    BY <1>5, <1>6, FreeAtEnd
  <2>2. i \in 0 .. NR - 1 /\ i \in -1 .. NR - 1 /\ i \notin bitmap[c]
    BY <1>1, <1>5, <2>1
  <2>3. bitmap_allocate_bits(bitmap[c], i, 1) = 0 .. (k + 1) - 1
    BY <1>5, <2>1 DEF bitmap_allocate_bits
  <2>4. /\ bitmap'[c] = 0 .. (k + 1) - 1 /\ \A x \in CPU : x # c => bitmap'[x] = bitmap[x]
        /\ bitmap' \in [CPU -> SUBSET (0 .. NR - 1)]
    BY <1>1, <1>3, <1>6, <2>1, <2>3
  <2>5. \A x \in CPU : bitmap[x] \subseteq bitmap'[x]
    BY <1>5, <2>4
  <2>6. i \in bitmap'[c]
    BY <2>1, <2>4
  <2>7. /\ action'[c][i] = action[c][i] \cup {Timer}
        /\ \A x \in CPU, j \in -1 .. NR - 1 : x # c \/ j # i => action'[x][j] = action[x][j]
        /\ action' \in [CPU -> [-1 .. NR - 1 -> SUBSET (Dev \cup {Timer})]]
    BY <1>3, <1>6, <2>2
  <2>8. TypeOK'
    BY <1>1, <1>2, <2>4, <2>7 DEF TypeOK
  <2>9. Prefixes'
    <3>1. k + 1 \in 0 .. NR
      BY <1>1, <2>1
    <3>2. \E n \in 0 .. NR : bitmap'[c] = 0 .. n - 1
      BY <2>4, <3>1
    <3> QED
      BY <1>1, <2>4, <3>2 DEF Prefixes
  <2>10. OwnedInv'
    BY <1>1, <1>2, <2>5 DEF OwnedInv
  <2>11. HandlerInv'
    <3>1. \A j \in 0 .. NR - 1 : j \in -1 .. NR - 1
      BY <1>1
    <3>2. \A j \in 0 .. NR - 1, x \in Dev : x \in action'[0][j] <=> x \in action[0][j]
      BY <1>1, <2>7, <3>1
    <3>3. \A x \in CPU, j \in 0 .. NR - 1 :
              Timer \in action'[x][j] => Timer \in action[x][j] \/ (x = c /\ j = i)
      BY <2>7, <3>1
    <3>4. \A x \in CPU, j \in 0 .. NR - 1 : Timer \in action'[x][j] => j \in bitmap'[x]
      BY <1>1, <2>5, <2>6, <3>3 DEF HandlerInv
    <3>5. c = 0 => \A x \in Dev : \A e \in entries[x] : e[2] # i
      BY <1>1, <2>2 DEF OwnedInv
    <3>6. \A j \in 0 .. NR - 1 :
              Timer \in action'[0][j] => \A x \in Dev : \A e \in entries[x] : e[2] # j
      BY <1>1, <3>3, <3>5 DEF HandlerInv
    <3> QED
      BY <1>1, <1>2, <3>2, <3>4, <3>6 DEF HandlerInv
  <2> QED
    BY <1>4, <2>8, <2>9, <2>10, <2>11 DEF IInv
<1>7. CASE action' = [action EXCEPT ![c][-1] = action[c][-1] \cup {Timer}] /\ UNCHANGED bitmap
  <2>1. -1 \in -1 .. NR - 1 /\ \A j \in 0 .. NR - 1 : j \in -1 .. NR - 1 /\ j # -1
    BY <1>1
  <2>2. /\ \A x \in CPU, j \in 0 .. NR - 1 : action'[x][j] = action[x][j]
        /\ action' \in [CPU -> [-1 .. NR - 1 -> SUBSET (Dev \cup {Timer})]]
    BY <1>3, <1>7, <2>1
  <2>3. TypeOK'
    BY <1>1, <1>2, <1>7, <2>2 DEF TypeOK
  <2>4. Prefixes' /\ OwnedInv'
    BY <1>1, <1>2, <1>7 DEF Prefixes, OwnedInv
  <2>5. HandlerInv'
    BY <1>1, <1>2, <1>7, <2>2 DEF HandlerInv
  <2> QED
    BY <1>4, <2>3, <2>4, <2>5 DEF IInv
<1> QED
  BY <1>6, <1>7 DEF TimerIrq

(* Every step of the probes and of the timers' set-up keeps the invariant. *)
LEMMA NextIInv == IInv /\ [Next]_vars => IInv'
<1>1. ASSUME IInv, Next PROVE IInv'
  BY <1>1, ProbeStep, MsixEntryStep, MsixEnableStep, MsiInitStep, RequestStep, SetupStep,
     TimerStep DEF Next
<1>2. ASSUME IInv, UNCHANGED vars PROVE IInv'
  BY <1>2 DEF vars, IInv, TypeOK, Prefixes, ListInv, OwnedInv, HandlerInv
<1> QED
  BY <1>1, <1>2

(* The types, which say that no bit is ever set past the end of a bitmap and *)
(* no number past it is ever on a list.                                      *)
THEOREM TypeCorrect == Spec => []TypeOK
<1>1. IInv => TypeOK
  BY DEF IInv
<1> QED
  BY <1>1, InitIInv, NextIInv, PTL DEF Spec

(* No interrupt is ever given to two: what is on a device's list or a        *)
(* timer's stays marked, whatever blocks bitmap_allocate_bits_aligned sets   *)
(* and clears.                                                               *)
THEOREM MarkedTheorem == Spec => []InUseIsMarked
<1>1. IInv => InUseIsMarked
  BY DEF IInv, TypeOK, OwnedInv, HandlerInv, InUseIsMarked
<1> QED
  BY <1>1, InitIInv, NextIInv, PTL DEF Spec

(* An MSI device replaces the low bits of its base, a multiple of its block: *)
(* what it can raise is what is on its list.                                 *)
LEMMA RaisedOnList ==
    ASSUME IInv, NEW d \in Dev, NEW i \in CanRaise(d)
    PROVE  \E e \in entries[d] : e[2] = i
<1>1. TypeOK /\ ListInv /\ mode[d] \in {"none", "msi", "msix"} /\ msi \in [Dev -> Nat]
  BY IrqAssumption DEF IInv, TypeOK
<1>2. CASE mode[d] = "msix"
  BY <1>2 DEF CanRaise
<1>3. CASE mode[d] = "msi"
  <2>1. PICK b \in 0 .. NR : b % msi[d] = 0 /\ entries[d] = Block(d, b)
    BY <1>1, <1>3 DEF ListInv
  <2>2. msi[d] > 0 /\ msi[d] \in Nat
    BY <1>1, <1>3 DEF ListInv
  <2>3. <<0, b>> \in entries[d] /\ \A e \in entries[d] : e[1] = 0 => e = <<0, b>>
    BY <2>1, <2>2 DEF Block
  <2>4. (CHOOSE e \in entries[d] : e[1] = 0) = <<0, b>>
    BY <2>3
  <2>5. CanRaise(d) = {b - (b % msi[d]) + k : k \in 0 .. msi[d] - 1}
    <3>1. CanRaise(d) = LET base == (CHOOSE e \in entries[d] : e[1] = 0)[2]
                        IN {base - (base % msi[d]) + k : k \in 0 .. msi[d] - 1}
      BY <1>3 DEF CanRaise
    <3>2. <<0, b>>[2] = b
      OBVIOUS
    <3> QED
      BY <2>4, <3>1, <3>2
  <2>6. PICK k \in 0 .. msi[d] - 1 : i = b + k
    BY <2>1, <2>2, <2>5
  <2>7. <<k, b + k>> \in entries[d]
    BY <2>1, <2>6 DEF Block
  <2> QED
    BY <2>6, <2>7
<1>4. CASE mode[d] = "none"
  BY <1>4 DEF CanRaise
<1> QED
  BY <1>1, <1>2, <1>3, <1>4

(* Every interrupt a probed device can raise goes to the handler of its      *)
(* driver and to nobody else, whatever the mix of MSI-X tables and MSI       *)
(* blocks, also when the vectors run out.                                    *)
THEOREM HandledTheorem == Spec => []RaisedIsHandled
<1>1. IInv => RaisedIsHandled
  <2> SUFFICES ASSUME IInv, NEW d \in Dev, probe[d] = "done", NEW i \in CanRaise(d), i # -1
               PROVE  i \in 0 .. NR - 1 /\ action[0][i] = {d}
    BY DEF RaisedIsHandled
  <2>1. /\ TypeOK /\ OwnedInv /\ HandlerInv /\ NR \in Nat /\ Timer \notin Dev /\ 0 \in CPU
    BY IrqAssumption DEF IInv, CPU
  <2>2. PICK e \in entries[d] : e[2] = i
    BY RaisedOnList
  <2>3. i \in 0 .. NR - 1
    BY <2>1, <2>2 DEF TypeOK
  <2>4. action[0][i] \subseteq Dev \cup {Timer}
    BY <2>1, <2>3 DEF TypeOK
  <2>5. d \in action[0][i] /\ Timer \notin action[0][i]
    BY <2>1, <2>2, <2>3 DEF HandlerInv
  <2>6. \A x \in Dev : x \in action[0][i] => x = d
    BY <2>1, <2>2, <2>3 DEF HandlerInv, OwnedInv
  <2> QED
    BY <2>3, <2>4, <2>5, <2>6
<1> QED
  BY <1>1, InitIInv, NextIInv, PTL DEF Spec
===============================================================================
