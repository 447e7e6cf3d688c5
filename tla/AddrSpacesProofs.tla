--------------------------- MODULE AddrSpacesProofs ----------------------------
(***************************************************************************)
(* Proofs about AddrSpaces, for any tasks and any contents of the guest's  *)
(* tables.  The invariant gives every frame one role: the table of a level *)
(* of one address space, for one range of addresses, or the page of an     *)
(* address.  Since an entry leads to the frame whose role continues that   *)
(* of its table, no two address spaces meet in a frame, and a new entry    *)
(* changes the translation of its own addresses only.                      *)
(***************************************************************************)
EXTENDS AddrSpaces, SequenceTheorems, WellFoundedInduction, TLAPS

(* The address spaces: the tasks have theirs under their ids.                *)
EptSpace == 0
ShadowSpace == -1
KernelSpace == -2

(* The role of a frame: the level 5 is that of a page.                       *)
Role == [who : Int, level : 0 .. 5, at : Nat]
RoleOf(w, l, p) == [who |-> w, level |-> l, at |-> p]

(* What an address has in common with the others of a table of a level.      *)
Prefix(l, x) == x \div <<16, 8, 4, 2, 1>>[l]

Word == [a : Nat, bits : SUBSET Bits, big : BOOLEAN]
Frame == [0 .. 1 -> Word]
GuestFrame == [0 .. 1 -> GuestWord]

(* The entry of a table with the role r, and the role c of what it leads to: *)
(* the pages of the shadow are those of the guest.                           *)
Below(r, i, c) == IF r.who = ShadowSpace /\ r.level = 4
                  THEN c.who = EptSpace /\ c.level = 5
                  ELSE c = RoleOf(r.who, r.level + 1, 2 * r.at + i)
Linked(m, own, f, i) ==
    \/ m[f][i] = None
    \/ /\ m[f][i].a \in 1 .. Len(m) /\ {"r", "w"} \subseteq m[f][i].bits /\ ~ m[f][i].big
       /\ Below(own[f], i, own[m[f][i].a])

(* Every task's upper half is the kernel's.                                  *)
KernelLink == Entry(2, {"r", "w"}, FALSE)
KernelHalf(r, i) == r.who > 0 /\ r.level = 1 /\ i = 1

MemInv(m) == /\ m \in Seq(Frame) /\ Len(m) \in Nat \ {0, 1} /\ m \in [1 .. Len(m) -> Frame]
             /\ m[1] = map_kernel_memory[1] /\ m[2] = map_kernel_memory[2]
Owned(m, own) ==
    /\ own \in [1 .. Len(m) -> Role]
    /\ own[1] = RoleOf(KernelSpace, 0, 0) /\ own[2] = RoleOf(KernelSpace, 0, 0)
    /\ \A f \in 1 .. Len(m) :
         /\ own[f].level \in 1 .. 4 =>
              \A i \in 0 .. 1 : IF KernelHalf(own[f], i) THEN m[f][i] = KernelLink ELSE Linked(m, own, f, i)
         /\ own[f].who = EptSpace /\ own[f].level = 5 => m[f] \in GuestFrame /\ own[f].at \in Addr

(* The tables and the page of an address, by the entries alone: 0 is none.   *)
Down(m, f, i) == IF f = 0 THEN 0 ELSE m[f][i].a
Pdpt(m, r, x) == Down(m, r, Index(1, x))
Pdt(m, r, x) == Down(m, Pdpt(m, r, x), Index(2, x))
Pt(m, r, x) == Down(m, Pdt(m, r, x), Index(3, x))
PageOf(m, r, x) == Down(m, Pt(m, r, x), Index(4, x))

(* A task: its fault works on a table of its own, and an entry that it has   *)
(* seen empty still is.                                                      *)
TaskOk(m, own, t, root, ws, flt) ==
    /\ root # Unmapped =>
         /\ root \in 1 .. Len(m) /\ own[root] = RoleOf(t, 1, 0)
         /\ \A x \in ws : PageOf(m, root, x) # 0 /\ m[PageOf(m, root, x)][0] = Id(t)
    /\ root = Unmapped => ws = {}
    /\ flt.level > 0 =>
         /\ flt.table \in 1 .. Len(m)
         /\ own[flt.table] = RoleOf(t, flt.level, Prefix(flt.level, flt.addr))
         /\ flt.empty => m[flt.table][Index(flt.level, flt.addr)] = None
    /\ flt.empty => flt.level > 0

(* The virtual machine: the EPT gives the frames that were given.            *)
VmOk(m, own, v) ==
    /\ v.state = "off" <=> v.eptp = 0
    /\ v.state \in {"off", "boot"} => v.shadow = 0
    /\ v.state = "L2" => v.shadow # 0
    /\ v.eptp # 0 =>
         /\ v.eptp \in 1 .. Len(m) /\ own[v.eptp] = RoleOf(EptSpace, 1, 0)
         /\ \A x \in Addr : v.given[x] = IF PageOf(m, v.eptp, x) = 0 THEN Unmapped ELSE PageOf(m, v.eptp, x)
    /\ v.shadow # 0 => v.shadow \in 1 .. Len(m) /\ own[v.shadow] = RoleOf(ShadowSpace, 1, 0)

(* L2 reaches the page that the tables of L1 give: they begin at e, and tr is*)
(* L1's memory.                                                              *)
Through(m, e, tr, x) == LET g == Translate(m, e, x, tr, EPT_PRESENT)
                        IN  IF g = Unmapped THEN Unmapped ELSE tr[g]
ShadowOk(m, root, e, tr, old) ==
    \A x \in Addr : PageOf(m, root, x) # 0 =>
      /\ \E y \in Addr : tr[y] = PageOf(m, root, x)
      /\ \/ x \in old \/ 3 \in Leaf(m, e, x, tr, EPT_PRESENT)
         \/ PageOf(m, root, x) = Through(m, e, tr, x)

TypeOK ==
    /\ MemInv(mem) /\ kernel = 1
    /\ pgd \in [Task -> Nat \cup {Unmapped}]
    /\ fault \in [Task -> [addr : User, level : 0 .. 4, table : Nat, empty : BOOLEAN]]
    /\ wrote \in [Task -> SUBSET Touched]
    /\ vm \in [state : {"off", "boot", "L1", "L2", "stopped"}, eptp : Nat, shadow : Nat, ept12 : Addr,
               given : [Addr -> Nat \cup {Unmapped}]]
    /\ stale \subseteq Addr
    /\ left \in [vm : BOOLEAN, touch : Nat, l1 : Nat, write : Nat, l2 : Nat]

RoleInv(own) ==
    /\ Owned(mem, own)
    /\ \A t \in Task : TaskOk(mem, own, t, pgd[t], wrote[t], fault[t])
    /\ VmOk(mem, own, vm)
ShadowInv == vm.shadow # 0 => ShadowOk(mem, vm.shadow, vm.ept12, vm.given, stale)
SpacesInv == TypeOK /\ (\E own : RoleInv(own)) /\ ShadowInv

(* The indices of an address and its prefixes.                               *)
LEMMA Levels ==
    ASSUME NEW x \in Addr
    PROVE  /\ \A l \in 1 .. 4 : /\ Index(l, x) \in 0 .. 1 /\ Prefix(l, x) \in Nat
                                /\ Prefix(l + 1, x) = 2 * Prefix(l, x) + Index(l, x)
           /\ Prefix(1, x) = 0 /\ Prefix(5, x) = x
           /\ x \in User => Index(1, x) = 0
<1>1. /\ Index(1, x) = (x \div 8) % 2 /\ Index(2, x) = (x \div 4) % 2
      /\ Index(3, x) = (x \div 2) % 2 /\ Index(4, x) = x % 2
  BY DEF Index, Size, Addr
<1>2. /\ Prefix(1, x) = x \div 16 /\ Prefix(2, x) = x \div 8 /\ Prefix(3, x) = x \div 4
      /\ Prefix(4, x) = x \div 2 /\ Prefix(5, x) = x
  BY DEF Prefix, Addr
<1>3. x \in Int /\ 0 <= x /\ x <= 15
  BY DEF Addr
<1>4. /\ x \div 16 = 0 /\ x \div 8 \in 0 .. 1 /\ x \div 4 \in 0 .. 3 /\ x \div 2 \in 0 .. 7
      /\ (x \div 4) % 2 \in 0 .. 1 /\ (x \div 2) % 2 \in 0 .. 1 /\ x % 2 \in 0 .. 1
  BY <1>3
<1>5. /\ \A y \in Int : y % 2 = y - 2 * (y \div 2)
      /\ \A y \in Int : (y \div 2) \div 2 = y \div 4
      /\ \A y \in Int : (y \div 4) \div 2 = y \div 8
      /\ \A y \in 0 .. 1 : y \div 2 = 0
  OBVIOUS
<1>6. /\ x \div 4 \in Int /\ (x \div 4) % 2 = x \div 4 - 2 * (x \div 8)
      /\ x \div 2 \in Int /\ (x \div 2) % 2 = x \div 2 - 2 * (x \div 4)
      /\ x % 2 = x - 2 * (x \div 2)
  <2>1. x \in Int /\ x \div 2 \in Int /\ x \div 4 \in Int
    BY <1>3
  <2> QED BY <2>1, <1>5
<1>7. (x \div 8) % 2 = x \div 8
  BY <1>4, <1>5
<1>8. x \in User => x \div 8 = 0
  BY DEF User
<1>9. ASSUME NEW l \in 1 .. 4
      PROVE  /\ Index(l, x) \in 0 .. 1 /\ Prefix(l, x) \in Nat
             /\ Prefix(l + 1, x) = 2 * Prefix(l, x) + Index(l, x)
  <2>1. l = 1 \/ l = 2 \/ l = 3 \/ l = 4
    OBVIOUS
  <2> DEFINE a == x \div 8
             b == x \div 4
             c == x \div 2
  <2>2. /\ a \in Nat /\ b \in Nat /\ c \in Nat /\ x \in Nat
        /\ a % 2 = a /\ b % 2 = b - 2 * a /\ c % 2 = c - 2 * b /\ x % 2 = x - 2 * c
        /\ a % 2 \in 0 .. 1 /\ b % 2 \in 0 .. 1 /\ c % 2 \in 0 .. 1 /\ x % 2 \in 0 .. 1
    BY <1>3, <1>4, <1>6, <1>7
  <2>3. CASE l = 1
    BY <2>3, <1>1, <1>2, <1>4, <1>7
  <2>4. CASE l = 2
    <3>1. Index(l, x) = b % 2 /\ Prefix(l, x) = a /\ Prefix(l + 1, x) = b
      BY <2>4, <1>1, <1>2
    <3> HIDE DEF a, b, c
    <3> QED BY <3>1, <2>2
  <2>5. CASE l = 3
    <3>1. Index(l, x) = c % 2 /\ Prefix(l, x) = b /\ Prefix(l + 1, x) = c
      BY <2>5, <1>1, <1>2
    <3> HIDE DEF a, b, c
    <3> QED BY <3>1, <2>2
  <2>6. CASE l = 4
    BY <2>6, <1>1, <1>2, <1>3, <1>4, <1>6
  <2> QED BY <2>1, <2>3, <2>4, <2>5, <2>6
<1> QED BY <1>9, <1>1, <1>2, <1>4, <1>5, <1>8

(* A step down the tables: a frame of the next level, or none.               *)
LEMMA DownTyped ==
    ASSUME NEW m, NEW own, MemInv(m), Owned(m, own),
           NEW w \in Int, NEW l \in 1 .. 4, NEW x \in Addr,
           w > 0 => x \in User,
           NEW f \in Nat, f # 0 => f \in 1 .. Len(m) /\ own[f] = RoleOf(w, l, Prefix(l, x))
    PROVE  LET g == Down(m, f, Index(l, x)) IN
           /\ g \in Nat
           /\ g # 0 => /\ f # 0 /\ g \in 1 .. Len(m) /\ m[f][Index(l, x)].a = g
                       /\ {"r", "w"} \subseteq m[f][Index(l, x)].bits /\ ~ m[f][Index(l, x)].big
                       /\ IF w = ShadowSpace /\ l = 4
                          THEN own[g].who = EptSpace /\ own[g].level = 5
                          ELSE own[g] = RoleOf(w, l + 1, Prefix(l + 1, x))
           /\ f # 0 /\ g = 0 => m[f][Index(l, x)] = None
<1> DEFINE i == Index(l, x)
           g == Down(m, f, i)
<1>1. /\ i \in 0 .. 1 /\ Prefix(l, x) \in Nat /\ Prefix(l + 1, x) = 2 * Prefix(l, x) + i
      /\ w > 0 /\ l = 1 => i = 0
  BY Levels
<1>2. CASE f = 0
  BY <1>2 DEF Down
<1>3. CASE f # 0
  <2>1. f \in 1 .. Len(m) /\ own[f] = RoleOf(w, l, Prefix(l, x)) /\ g = m[f][i].a
    BY <1>3 DEF Down
  <2>2. own[f].who = w /\ own[f].level = l /\ own[f].at = Prefix(l, x)
    BY <2>1 DEF RoleOf
  <2>3. ~ KernelHalf(own[f], i)
    BY <2>2, <1>1 DEF KernelHalf
  <2>4. Linked(m, own, f, i)
    BY <2>1, <2>2, <2>3, <1>1, Zenon DEF Owned
  <2>5. m[f][i] \in Word
    BY <2>1, <1>1 DEF MemInv, Frame
  <2>6. CASE m[f][i] = None
    BY <2>1, <2>6 DEF None, Entry
  <2>7. CASE m[f][i] # None
    <3>1. /\ g \in 1 .. Len(m) /\ {"r", "w"} \subseteq m[f][i].bits /\ ~ m[f][i].big
          /\ Below(own[f], i, own[g])
      BY <2>4, <2>7, <2>1 DEF Linked
    <3>2. IF w = ShadowSpace /\ l = 4 THEN own[g].who = EptSpace /\ own[g].level = 5
          ELSE own[g] = RoleOf(w, l + 1, Prefix(l + 1, x))
      BY <3>1, <2>2, <1>1 DEF Below
    <3>3. g \in Nat /\ g # 0
      BY <3>1 DEF MemInv
    <3> QED BY <3>1, <3>2, <3>3, <2>1, <1>3, Zenon
  <2> QED BY <2>6, <2>7
<1> QED BY <1>2, <1>3
(* The tables and the page of an address in an address space.                *)
LEMMA PathTyped ==
    ASSUME NEW m, NEW own, MemInv(m), Owned(m, own),
           NEW w \in Int, NEW r \in 1 .. Len(m), own[r] = RoleOf(w, 1, 0),
           NEW x \in Addr, w > 0 => x \in User
    PROVE  LET a == Pdpt(m, r, x)
               b == Pdt(m, r, x)
               c == Pt(m, r, x)
               p == PageOf(m, r, x)
           IN  /\ a \in Nat /\ (a # 0 => a \in 1 .. Len(m) /\ own[a] = RoleOf(w, 2, Prefix(2, x)))
               /\ b \in Nat /\ (b # 0 => b \in 1 .. Len(m) /\ own[b] = RoleOf(w, 3, Prefix(3, x)))
               /\ c \in Nat /\ (c # 0 => c \in 1 .. Len(m) /\ own[c] = RoleOf(w, 4, Prefix(4, x)))
               /\ p \in Nat /\ (p # 0 => /\ p \in 1 .. Len(m)
                                         /\ IF w = ShadowSpace
                                            THEN own[p].who = EptSpace /\ own[p].level = 5
                                            ELSE own[p] = RoleOf(w, 5, x))
<1> DEFINE a == Pdpt(m, r, x)
           b == Pdt(m, r, x)
           c == Pt(m, r, x)
           p == PageOf(m, r, x)
<1>0. Prefix(1, x) = 0 /\ Prefix(5, x) = x
  BY Levels
<1>1. /\ a = Down(m, r, Index(1, x)) /\ b = Down(m, a, Index(2, x))
      /\ c = Down(m, b, Index(3, x)) /\ p = Down(m, c, Index(4, x))
  BY DEF Pdpt, Pdt, Pt, PageOf
<1> HIDE DEF a, b, c, p
<1>2. r \in Nat /\ own[r] = RoleOf(w, 1, Prefix(1, x))
  BY <1>0 DEF MemInv
<1>3. a \in Nat /\ (a # 0 => a \in 1 .. Len(m) /\ own[a] = RoleOf(w, 1 + 1, Prefix(1 + 1, x)))
  BY <1>1, <1>2, DownTyped
<1>4. b \in Nat /\ (b # 0 => b \in 1 .. Len(m) /\ own[b] = RoleOf(w, 2 + 1, Prefix(2 + 1, x)))
  BY <1>1, <1>3, DownTyped
<1>5. c \in Nat /\ (c # 0 => c \in 1 .. Len(m) /\ own[c] = RoleOf(w, 3 + 1, Prefix(3 + 1, x)))
  BY <1>1, <1>4, DownTyped
<1>6. p \in Nat /\ (p # 0 => /\ p \in 1 .. Len(m)
                             /\ IF w = ShadowSpace
                                THEN own[p].who = EptSpace /\ own[p].level = 5
                                ELSE own[p] = RoleOf(w, 4 + 1, Prefix(4 + 1, x)))
  BY <1>1, <1>5, DownTyped
<1> QED BY <1>0, <1>3, <1>4, <1>5, <1>6 DEF a, b, c, p

(* The processor and the software follow the same tables to the page.        *)
LEMMA HostWalk ==
    ASSUME NEW m, NEW own, MemInv(m), Owned(m, own),
           NEW w \in Int, NEW r \in 1 .. Len(m), own[r] = RoleOf(w, 1, 0),
           NEW x \in Addr, w > 0 => x \in User,
           NEW bits, bits \cap {"r", "w"} # {}
    PROVE  LET p == PageOf(m, r, x) IN
           /\ Translate(m, r, x, Here(m), bits) = IF p = 0 THEN Unmapped ELSE p
           /\ Walk(m, r, x, Here(m), bits) = IF p = 0 THEN Unmapped ELSE p
<1> DEFINE i(l) == Index(l, x)
           a == Pdpt(m, r, x)
           b == Pdt(m, r, x)
           c == Pt(m, r, x)
           p == PageOf(m, r, x)
           F(f) == IF f = 0 THEN Unmapped ELSE f
           e1 == m[r][i(1)]
           e2 == m[a][i(2)]
           e3 == m[b][i(3)]
           e4 == m[c][i(4)]
<1>0. Prefix(1, x) = 0 /\ Prefix(5, x) = x
  BY Levels
<1>1. /\ a = Down(m, r, i(1)) /\ b = Down(m, a, i(2))
      /\ c = Down(m, b, i(3)) /\ p = Down(m, c, i(4))
  BY DEF Pdpt, Pdt, Pt, PageOf
<1> HIDE DEF a, b, c, p
<1>2. r \in Nat /\ r # 0 /\ own[r] = RoleOf(w, 1, Prefix(1, x))
  BY <1>0 DEF MemInv
<1>3. /\ a \in Nat /\ (a # 0 => a \in 1 .. Len(m) /\ own[a] = RoleOf(w, 2, Prefix(2, x)))
      /\ b \in Nat /\ (b # 0 => b \in 1 .. Len(m) /\ own[b] = RoleOf(w, 3, Prefix(3, x)))
      /\ c \in Nat /\ (c # 0 => c \in 1 .. Len(m) /\ own[c] = RoleOf(w, 4, Prefix(4, x)))
      /\ p \in Nat /\ (p # 0 => p \in 1 .. Len(m))
  BY PathTyped DEF a, b, c, p
<1> DEFINE Leads(e, g) == IF g = 0 THEN e = None ELSE e.a = g /\ Present(e, bits) /\ ~ e.big
<1>4. Leads(e1, a)
  <2>1. a # 0 => e1.a = a /\ {"r", "w"} \subseteq e1.bits /\ ~ e1.big
    BY <1>1, <1>2, DownTyped
  <2>2. a = 0 => e1 = None
    BY <1>1, <1>2, DownTyped
  <2> QED BY <2>1, <2>2 DEF Present
<1>5. a # 0 => Leads(e2, b)
  <2>1. b # 0 => e2.a = b /\ {"r", "w"} \subseteq e2.bits /\ ~ e2.big
    BY <1>1, <1>3, DownTyped
  <2>2. a # 0 /\ b = 0 => e2 = None
    BY <1>1, <1>3, DownTyped
  <2> QED BY <2>1, <2>2 DEF Present
<1>6. b # 0 => Leads(e3, c)
  <2>1. c # 0 => e3.a = c /\ {"r", "w"} \subseteq e3.bits /\ ~ e3.big
    BY <1>1, <1>3, DownTyped
  <2>2. b # 0 /\ c = 0 => e3 = None
    BY <1>1, <1>3, DownTyped
  <2> QED BY <2>1, <2>2 DEF Present
<1>7. c # 0 => Leads(e4, p)
  <2>1. p # 0 => e4.a = p /\ {"r", "w"} \subseteq e4.bits /\ ~ e4.big
    BY <1>1, <1>3, DownTyped
  <2>2. c # 0 /\ p = 0 => e4 = None
    BY <1>1, <1>3, DownTyped
  <2> QED BY <2>1, <2>2 DEF Present
<1>8. (a = 0 => b = 0) /\ (b = 0 => c = 0) /\ (c = 0 => p = 0)
  BY <1>1 DEF Down
<1>9. ~ Present(None, bits) /\ None.big = FALSE
  BY DEF None, Entry, Present
<1>10. \A f \in 0 .. Len(m) : Here(m)[f] = f
  BY DEF Here
<1>11. Here(m)[r] = r /\ (a # 0 => Here(m)[a] = a) /\ (b # 0 => Here(m)[b] = b)
       /\ (c # 0 => Here(m)[c] = c) /\ (p # 0 => Here(m)[p] = p)
  BY <1>10, <1>2, <1>3 DEF MemInv
<1>12. Unmapped = -1 /\ r # Unmapped
       /\ \A f \in {a, b, c, p} : F(f) = Unmapped <=> f = 0
  BY <1>2, <1>3 DEF Unmapped
<1> DEFINE tr == Here(m)
           below(t, l) ==
             LET e == m[t][Index(l, x)]
             IN  IF t # Unmapped /\ Present(e, bits) /\ ~ (e.big /\ l \in 2 .. 3) THEN tr[e.a] ELSE Unmapped
<1>13. Tables(m, r, x, tr, bits) = <<r, F(a), F(b), F(c)>>
  <2>1. below(r, 1) = F(a)
    BY <1>4, <1>9, <1>11, <1>12
  <2>2. below(F(a), 2) = F(b)
    BY <1>5, <1>8, <1>9, <1>11, <1>12
  <2>3. below(F(b), 3) = F(c)
    BY <1>6, <1>8, <1>9, <1>11, <1>12
  <2> HIDE DEF F
  <2>4. Tables(m, r, x, tr, bits) =
          <<r, below(r, 1), below(below(r, 1), 2), below(below(below(r, 1), 2), 3)>>
    BY <1>11, Zenon DEF Tables
  <2> QED BY <2>1, <2>2, <2>3, <2>4, Zenon
<1> HIDE DEF below
<1> DEFINE t == Tables(m, r, x, tr, bits)
<1>14. t[2] = F(a) /\ t[3] = F(b) /\ t[4] = F(c)
  BY <1>13
<1> HIDE DEF t
<1>15. Leaf(m, r, x, tr, bits) = IF p = 0 THEN {} ELSE {4}
  <2> DEFINE At(l) == t[l] # Unmapped /\ LET e == m[t[l]][Index(l, x)]
                                          IN  Present(e, bits) /\ (l = 4 \/ e.big)
  <2>1. ~ At(2)
    BY <1>5, <1>9, <1>12, <1>14
  <2>2. ~ At(3)
    BY <1>6, <1>9, <1>12, <1>14
  <2>3. At(4) <=> p # 0
    BY <1>7, <1>8, <1>9, <1>12, <1>14
  <2>4. Leaf(m, r, x, tr, bits) = {l \in 2 .. 4 : At(l)}
    BY Zenon DEF Leaf, t
  <2> HIDE DEF At
  <2> QED BY <2>1, <2>2, <2>3, <2>4
<1>16. Translate(m, r, x, tr, bits) = F(p)
  <2>1. CASE p = 0
    BY <2>1, <1>15, Zenon DEF Translate
  <2>2. CASE p # 0
    <3>1. (CHOOSE k \in {4} : TRUE) = 4
      OBVIOUS
    <3>2. Translate(m, r, x, tr, bits) = PFN(m[t[4]][Index(4, x)].a, Size(4)) + OFFSET(x, Size(4))
      BY <2>2, <3>1, <1>15, Zenon DEF Translate, t
    <3>3. m[t[4]][Index(4, x)].a = p
      BY <2>2, <1>7, <1>8, <1>14
    <3>4. PFN(p, Size(4)) = p /\ OFFSET(x, Size(4)) = 0
      BY <1>3 DEF PFN, OFFSET, Size, Addr
    <3> QED BY <2>2, <3>2, <3>3, <3>4, <1>3
  <2> QED BY <2>1, <2>2
<1>17. Walk(m, r, x, tr, bits) = F(p)
  <2> DEFINE ent(f, l) == IF f = Unmapped THEN None ELSE m[f][Index(l, x)]
             next(e) == IF Present(e, bits) THEN tr[e.a] ELSE Unmapped
             pml4e == ent(tr[r], 1)
             pdpte == ent(next(pml4e), 2)
             pde == ent(IF pdpte.big THEN Unmapped ELSE next(pdpte), 3)
             pte == ent(IF pde.big THEN Unmapped ELSE next(pde), 4)
  <2>1. next(pml4e) = F(a)
    BY <1>4, <1>9, <1>11, <1>12
  <2>2. pdpte = (IF a = 0 THEN None ELSE e2)
    <3> HIDE DEF pml4e, next
    <3> QED BY <2>1, <1>12
  <2>3. (IF pdpte.big THEN Unmapped ELSE next(pdpte)) = F(b) /\ ~ (Present(pdpte, bits) /\ pdpte.big)
    <3> HIDE DEF pdpte, F
    <3>1. CASE a = 0
      BY <3>1, <2>2, <1>8, <1>9 DEF F
    <3>2. CASE a # 0
      BY <3>2, <2>2, <1>5, <1>9, <1>11 DEF F
    <3> QED BY <3>1, <3>2
  <2>4. pde = IF b = 0 THEN None ELSE e3
    <3> HIDE DEF pdpte, next
    <3> QED BY <2>3, <1>12
  <2>5. (IF pde.big THEN Unmapped ELSE next(pde)) = F(c) /\ ~ (Present(pde, bits) /\ pde.big)
    <3> HIDE DEF pde, F
    <3>1. CASE b = 0
      BY <3>1, <2>4, <1>8, <1>9 DEF F
    <3>2. CASE b # 0
      BY <3>2, <2>4, <1>6, <1>9, <1>11 DEF F
    <3> QED BY <3>1, <3>2
  <2>6. pte = IF c = 0 THEN None ELSE e4
    <3> HIDE DEF pde, next
    <3> QED BY <2>5, <1>12
  <2>7. Walk(m, r, x, tr, bits) =
          CASE Present(pdpte, bits) /\ pdpte.big -> PFN(pdpte.a, Size(2)) + OFFSET(x, Size(2))
            [] Present(pde, bits) /\ pde.big -> PFN(pdpte.a, Size(3)) + OFFSET(x, Size(3))
            [] Present(pte, bits) -> pte.a
            [] OTHER -> Unmapped
    BY Zenon DEF Walk
  <2>8. IF p = 0 THEN ~ Present(pte, bits) ELSE Present(pte, bits) /\ pte.a = p
    <3> HIDE DEF pte
    <3> QED BY <2>6, <1>7, <1>8, <1>9
  <2> HIDE DEF pdpte, pde, pte
  <2>9. Walk(m, r, x, tr, bits) = IF Present(pte, bits) THEN pte.a ELSE Unmapped
    BY <2>3, <2>5, <2>7
  <2> QED BY <2>8, <2>9
<1> QED BY <1>16, <1>17 DEF p

(* Memory holds the kernel's two tables at least.                            *)
LEMMA TwoOrMore ==
    ASSUME NEW n \in Nat \ {0, 1}
    PROVE  /\ n \in Nat /\ 1 \in 1 .. n /\ 2 \in 1 .. n
           /\ \A j \in Nat : n + j \in Nat \ {0, 1}
  OBVIOUS

(* A memory with some frames replaced, or with more of them, is a memory.    *)
LEMMA Memory ==
    ASSUME NEW m, MemInv(m), NEW n \in Nat, n >= Len(m), NEW k \in [1 .. n -> Frame],
           k[1] = m[1], k[2] = m[2]
    PROVE  MemInv(k) /\ Len(k) = n /\ DOMAIN k = 1 .. n
<1>1. k \in Seq(Frame) /\ Len(k) = n
  OBVIOUS
<1>2. Len(m) \in Nat \ {0, 1}
  BY DEF MemInv
<1> QED BY <1>1, <1>2 DEF MemInv

(* kmalloc adds frames of zeroes.                                            *)
LEMMA Kmalloc ==
    ASSUME NEW m, MemInv(m), NEW n \in Nat
    PROVE  LET k == kmalloc(m, n) IN
           /\ MemInv(k) /\ Len(k) = Len(m) + n /\ DOMAIN k = 1 .. Len(m) + n
           /\ \A f \in 1 .. Len(m) : k[f] = m[f]
           /\ \A f \in Len(m) + 1 .. Len(m) + n : k[f] = ZeroPage
<1> DEFINE z == [i \in 1 .. n |-> ZeroPage]
           k == kmalloc(m, n)
<1>1. ZeroPage \in Frame
  BY DEF ZeroPage, Frame, Word, None, Entry, Bits
<1>2. z \in Seq(Frame) /\ Len(z) = n
  <2> HIDE DEF Frame
  <2> QED BY <1>1
<1>3. m \in Seq(Frame) /\ Len(m) \in Nat \ {0, 1}
  BY DEF MemInv
<1>4. k = m \o z
  BY DEF kmalloc
<1>5. /\ k \in Seq(Frame) /\ Len(k) = Len(m) + n
      /\ \A f \in 1 .. Len(m) + n : k[f] = IF f <= Len(m) THEN m[f] ELSE z[f - Len(m)]
  <2> HIDE DEF z, k
  <2> QED BY <1>2, <1>3, <1>4, ConcatProperties
<1>6. \A f \in 1 .. Len(m) : k[f] = m[f]
  <2> HIDE DEF k, z
  <2> QED BY <1>3, <1>5
<1>7. \A f \in Len(m) + 1 .. Len(m) + n : k[f] = ZeroPage
  <2> TAKE f \in Len(m) + 1 .. Len(m) + n
  <2>1. f - Len(m) \in 1 .. n /\ f \in 1 .. Len(m) + n /\ ~ f <= Len(m)
    BY <1>3
  <2> HIDE DEF k
  <2> QED BY <2>1, <1>5
<1>8. k \in [1 .. Len(k) -> Frame] /\ DOMAIN k = 1 .. Len(m) + n
  <2> HIDE DEF k
  <2> QED BY <1>5, LenProperties
<1> HIDE DEF k
<1>9. 1 \in 1 .. Len(m) /\ 2 \in 1 .. Len(m) /\ Len(k) \in Nat \ {0, 1}
  BY <1>3, <1>5, TwoOrMore
<1>10. k[1] = m[1] /\ k[2] = m[2]
  BY <1>9, <1>6
<1>11. MemInv(k)
  BY <1>5, <1>8, <1>9, <1>10 DEF MemInv
<1> QED BY <1>5, <1>6, <1>7, <1>8, <1>11 DEF k

(* Append adds one.                                                          *)
LEMMA Appended ==
    ASSUME NEW m, MemInv(m), NEW page \in Frame
    PROVE  LET k == Append(m, page) IN
           /\ MemInv(k) /\ Len(k) = Len(m) + 1 /\ DOMAIN k = 1 .. Len(m) + 1
           /\ \A f \in 1 .. Len(m) : k[f] = m[f]
           /\ k[Len(m) + 1] = page
<1> DEFINE k == Append(m, page)
<1>1. m \in Seq(Frame) /\ Len(m) \in Nat \ {0, 1}
  BY DEF MemInv
<1>2. /\ k \in Seq(Frame) /\ Len(k) = Len(m) + 1 /\ k[Len(m) + 1] = page
      /\ \A f \in 1 .. Len(m) : k[f] = m[f]
  <2> HIDE DEF Frame
  <2> QED BY <1>1
<1>3. k \in [1 .. Len(k) -> Frame] /\ DOMAIN k = 1 .. Len(m) + 1
  <2> HIDE DEF k
  <2> QED BY <1>2, LenProperties
<1> HIDE DEF k
<1>4. 1 \in 1 .. Len(m) /\ 2 \in 1 .. Len(m) /\ Len(k) \in Nat \ {0, 1}
  <2>1. 1 \in Nat
    OBVIOUS
  <2> QED BY <2>1, <1>1, <1>2, TwoOrMore
<1>5. k[1] = m[1] /\ k[2] = m[2]
  BY <1>4, <1>2
<1>6. MemInv(k)
  BY <1>2, <1>3, <1>4, <1>5 DEF MemInv
<1> QED BY <1>2, <1>3, <1>6 DEF k

(* A write of one entry.                                                     *)
LEMMA Written ==
    ASSUME NEW m, MemInv(m), NEW f \in 3 .. Len(m), NEW i \in 0 .. 1, NEW e \in Word
    PROVE  LET k == [m EXCEPT ![f][i] = e] IN
           /\ MemInv(k) /\ Len(k) = Len(m) /\ DOMAIN k = 1 .. Len(m)
           /\ \A h \in 1 .. Len(m) : h # f => k[h] = m[h]
           /\ k[f] \in Frame /\ \A j \in 0 .. 1 : k[f][j] = IF j = i THEN e ELSE m[f][j]
<1> DEFINE k == [m EXCEPT ![f][i] = e]
<1>1. Len(m) \in Nat \ {0, 1} /\ m \in [1 .. Len(m) -> Frame] /\ f \in 1 .. Len(m)
  BY DEF MemInv
<1>2. m[f] \in [0 .. 1 -> Word]
  BY <1>1 DEF Frame
<1> DEFINE page == [m[f] EXCEPT ![i] = e]
<1>3. page \in Frame /\ \A j \in 0 .. 1 : page[j] = IF j = i THEN e ELSE m[f][j]
  BY <1>2 DEF Frame
<1>4. k = [m EXCEPT ![f] = page]
  OBVIOUS
<1> HIDE DEF page
<1>5. k \in [1 .. Len(m) -> Frame] /\ k[f] = page /\ \A h \in 1 .. Len(m) : h # f => k[h] = m[h]
  BY <1>1, <1>3, <1>4
<1>6. k[1] = m[1] /\ k[2] = m[2]
  BY <1>1, <1>5
<1> HIDE DEF k
<1>7. MemInv(k) /\ Len(k) = Len(m) /\ DOMAIN k = 1 .. Len(m)
  BY <1>1, <1>5, <1>6, Memory
<1> QED BY <1>3, <1>5, <1>7 DEF k
(* The tables of an address space decide its paths.                          *)
LEMMA SamePath ==
    ASSUME NEW m, NEW own, MemInv(m), Owned(m, own),
           NEW w \in Int, NEW r \in 1 .. Len(m), own[r] = RoleOf(w, 1, 0),
           NEW x \in Addr, w > 0 => x \in User,
           NEW k, \A f \in 1 .. Len(m) : own[f].who = w /\ own[f].level \in 1 .. 4 => k[f] = m[f]
    PROVE  PageOf(k, r, x) = PageOf(m, r, x)
<1> DEFINE a == Pdpt(m, r, x)
           b == Pdt(m, r, x)
           c == Pt(m, r, x)
<1>1. /\ a \in Nat /\ (a # 0 => a \in 1 .. Len(m) /\ own[a] = RoleOf(w, 2, Prefix(2, x)))
      /\ b \in Nat /\ (b # 0 => b \in 1 .. Len(m) /\ own[b] = RoleOf(w, 3, Prefix(3, x)))
      /\ c \in Nat /\ (c # 0 => c \in 1 .. Len(m) /\ own[c] = RoleOf(w, 4, Prefix(4, x)))
  BY PathTyped
<1> HIDE DEF a, b, c
<1>2. k[r] = m[r] /\ (a # 0 => k[a] = m[a]) /\ (b # 0 => k[b] = m[b]) /\ (c # 0 => k[c] = m[c])
  BY <1>1 DEF RoleOf
<1>3. Pdpt(k, r, x) = a
  BY <1>2, Zenon DEF a, Pdpt, Down
<1>4. Pdt(k, r, x) = b
  BY <1>2, <1>3, Zenon DEF a, b, Pdt, Down
<1>5. Pt(k, r, x) = c
  BY <1>2, <1>4, Zenon DEF b, c, Pt, Down
<1> QED BY <1>2, <1>5, Zenon DEF c, PageOf, Down

(* New roles beside the old ones.                                            *)
Extends(m, own, o) == \A h \in 1 .. Len(m) : o[h] = own[h]

(* More frames, with roles of their own: their tables are empty.             *)
Grown(m, own, k, o) ==
    /\ MemInv(k) /\ Len(k) >= Len(m) /\ \A f \in 1 .. Len(m) : k[f] = m[f]
    /\ o \in [1 .. Len(k) -> Role] /\ Extends(m, own, o)
    /\ \A f \in 1 .. Len(k) : f > Len(m) =>
         /\ o[f].level \in 1 .. 4 =>
              \A i \in 0 .. 1 : k[f][i] = IF KernelHalf(o[f], i) THEN KernelLink ELSE None
         /\ o[f].who = EptSpace /\ o[f].level = 5 => k[f] \in GuestFrame /\ o[f].at \in Addr
LEMMA Grow ==
    ASSUME NEW m, NEW own, NEW k, NEW o, MemInv(m), Owned(m, own), Grown(m, own, k, o)
    PROVE  Owned(k, o)
<1>0. /\ MemInv(k) /\ Len(k) >= Len(m) /\ \A f \in 1 .. Len(m) : k[f] = m[f]
      /\ o \in [1 .. Len(k) -> Role] /\ \A f \in 1 .. Len(m) : o[f] = own[f]
      /\ \A f \in 1 .. Len(k) : f > Len(m) =>
           /\ o[f].level \in 1 .. 4 =>
                \A i \in 0 .. 1 : k[f][i] = IF KernelHalf(o[f], i) THEN KernelLink ELSE None
           /\ o[f].who = EptSpace /\ o[f].level = 5 => k[f] \in GuestFrame /\ o[f].at \in Addr
  BY Zenon DEF Grown, Extends
<1>1. Len(m) \in Nat \ {0, 1} /\ Len(k) \in Nat \ {0, 1}
  BY <1>0 DEF MemInv
<1>2. 1 \in 1 .. Len(m) /\ 2 \in 1 .. Len(m)
  BY <1>1, TwoOrMore
<1>3. o[1] = RoleOf(KernelSpace, 0, 0) /\ o[2] = RoleOf(KernelSpace, 0, 0)
  BY <1>0, <1>2 DEF Owned
<1>4. ASSUME NEW f \in 1 .. Len(k), o[f].level \in 1 .. 4, NEW i \in 0 .. 1
      PROVE  IF KernelHalf(o[f], i) THEN k[f][i] = KernelLink ELSE Linked(k, o, f, i)
  <2>1. CASE f > Len(m)
    BY <2>1, <1>0, <1>4 DEF Linked
  <2>2. CASE f \in 1 .. Len(m)
    <3>1. o[f] = own[f] /\ k[f] = m[f]
      BY <2>2, <1>0
    <3>2. IF KernelHalf(own[f], i) THEN m[f][i] = KernelLink ELSE Linked(m, own, f, i)
      BY <2>2, <3>1, <1>4 DEF Owned
    <3>3. ASSUME Linked(m, own, f, i)
          PROVE  Linked(k, o, f, i)
      <4>1. CASE m[f][i] = None
        BY <4>1, <3>1 DEF Linked
      <4>2. CASE m[f][i] # None
        <5>1. m[f][i].a \in 1 .. Len(m) /\ Below(own[f], i, own[m[f][i].a])
          BY <4>2, <3>3 DEF Linked
        <5>2. m[f][i].a \in 1 .. Len(k) /\ o[m[f][i].a] = own[m[f][i].a]
          BY <5>1, <1>0, <1>1
        <5> QED BY <5>1, <5>2, <4>2, <3>1, <3>3 DEF Linked
      <4> QED BY <4>1, <4>2
    <3> QED BY <3>1, <3>2, <3>3
  <2> QED BY <2>1, <2>2, <1>0, <1>1
<1>5. ASSUME NEW f \in 1 .. Len(k), o[f].who = EptSpace, o[f].level = 5
      PROVE  k[f] \in GuestFrame /\ o[f].at \in Addr
  <2>1. CASE f > Len(m)
    BY <2>1, <1>0, <1>5
  <2>2. CASE f \in 1 .. Len(m)
    BY <2>2, <1>0, <1>5 DEF Owned
  <2> QED BY <2>1, <2>2, <1>0, <1>1
<1> QED BY <1>0, <1>3, <1>4, <1>5, Zenon DEF Owned

(* A new entry of a table, which leads from f to g.                          *)
NewLink(m, own, k, f, i, g) ==
    /\ f \in 1 .. Len(m) /\ own[f].level \in 1 .. 4 /\ i \in 0 .. 1 /\ ~ KernelHalf(own[f], i)
    /\ m[f][i] = None /\ g \in 1 .. Len(m) /\ Below(own[f], i, own[g])
    /\ \E bits \in SUBSET Bits : {"r", "w"} \subseteq bits /\ k = [m EXCEPT ![f][i] = Entry(g, bits, FALSE)]
LEMMA LinkOwned ==
    ASSUME NEW m, NEW own, NEW k, NEW f, NEW i, NEW g,
           MemInv(m), Owned(m, own), NewLink(m, own, k, f, i, g)
    PROVE  /\ MemInv(k) /\ Len(k) = Len(m) /\ DOMAIN k = 1 .. Len(m) /\ Owned(k, own)
           /\ \A h \in 1 .. Len(m) : h # f => k[h] = m[h]
           /\ \A j \in 0 .. 1 : j # i => k[f][j] = m[f][j]
           /\ k[f][i].a = g
<1>0. /\ f \in 1 .. Len(m) /\ own[f].level \in 1 .. 4 /\ i \in 0 .. 1 /\ ~ KernelHalf(own[f], i)
      /\ g \in 1 .. Len(m) /\ Below(own[f], i, own[g])
  BY DEF NewLink
<1>a. PICK bits \in SUBSET Bits : {"r", "w"} \subseteq bits /\ k = [m EXCEPT ![f][i] = Entry(g, bits, FALSE)]
  BY DEF NewLink
<1> DEFINE e == Entry(g, bits, FALSE)
<1>1. f # 1 /\ f # 2
  BY <1>0 DEF Owned, RoleOf
<1>2. Len(m) \in Nat
  BY DEF MemInv
<1>3. f \in 3 .. Len(m) /\ e \in Word
  BY <1>0, <1>1, <1>2, <1>a DEF Entry, Word
<1>b. k = [m EXCEPT ![f][i] = e]
  BY <1>a
<1> HIDE DEF e
<1>4. /\ MemInv(k) /\ Len(k) = Len(m) /\ DOMAIN k = 1 .. Len(m)
      /\ \A h \in 1 .. Len(m) : h # f => k[h] = m[h]
      /\ \A j \in 0 .. 1 : k[f][j] = IF j = i THEN e ELSE m[f][j]
  <2> DEFINE K == [m EXCEPT ![f][i] = e]
  <2>1. /\ MemInv(K) /\ Len(K) = Len(m) /\ DOMAIN K = 1 .. Len(m)
        /\ \A h \in 1 .. Len(m) : h # f => K[h] = m[h]
        /\ K[f] \in Frame /\ \A j \in 0 .. 1 : K[f][j] = IF j = i THEN e ELSE m[f][j]
    BY <1>0, <1>3, Written
  <2> HIDE DEF K
  <2> QED BY <2>1, <1>b DEF K
<1>5. ASSUME NEW h \in 1 .. Len(k), own[h].level \in 1 .. 4, NEW j \in 0 .. 1
      PROVE  IF KernelHalf(own[h], j) THEN k[h][j] = KernelLink ELSE Linked(k, own, h, j)
  <2>1. CASE h = f /\ j = i
    <3>1. k[h][j] = e /\ e.a = g /\ e.bits = bits /\ e.big = FALSE
      BY <2>1, <1>4 DEF e, Entry
    <3>2. Linked(k, own, h, j)
      BY <3>1, <2>1, <1>0, <1>4, <1>a DEF Linked
    <3> QED BY <3>2, <2>1, <1>0
  <2>2. CASE ~ (h = f /\ j = i)
    <3>1. k[h][j] = m[h][j]
      BY <2>2, <1>4
    <3>2. IF KernelHalf(own[h], j) THEN m[h][j] = KernelLink ELSE Linked(m, own, h, j)
      BY <1>4, <1>5, Zenon DEF Owned
    <3> QED BY <3>1, <3>2, <1>4 DEF Linked
  <2> QED BY <2>1, <2>2
<1>6. ASSUME NEW h \in 1 .. Len(k), own[h].who = EptSpace, own[h].level = 5
      PROVE  k[h] \in GuestFrame /\ own[h].at \in Addr
  <2>1. h # f
    BY <1>0, <1>6
  <2> QED BY <2>1, <1>4, <1>6 DEF Owned
<1>7. Owned(k, own)
  <2>1. own \in [1 .. Len(k) -> Role] /\ own[1] = RoleOf(KernelSpace, 0, 0) /\ own[2] = RoleOf(KernelSpace, 0, 0)
    BY <1>4 DEF Owned
  <2> QED BY <2>1, <1>5, <1>6, Zenon DEF Owned
<1> QED BY <1>0, <1>4, <1>7 DEF e, Entry
(* It is found by the addresses of its table, and it moves no other.         *)
LEMMA LinkPath ==
    ASSUME NEW m, NEW own, MemInv(m), Owned(m, own),
           NEW k, NEW f, NEW i, NEW g, NewLink(m, own, k, f, i, g),
           own[f].level < 4 => m[g] = ZeroPage,
           NEW w \in Int, NEW r \in 1 .. Len(m), own[r] = RoleOf(w, 1, 0),
           NEW x \in Addr, w > 0 => x \in User
    PROVE  /\ Pdpt(m, r, x) # 0 => Pdpt(k, r, x) = Pdpt(m, r, x)
           /\ Pdt(m, r, x) # 0 => Pdt(k, r, x) = Pdt(m, r, x)
           /\ Pt(m, r, x) # 0 => Pt(k, r, x) = Pt(m, r, x)
           /\ PageOf(k, r, x) = IF own[f].level = 4 /\ Pt(m, r, x) = f /\ Index(4, x) = i
                                THEN g ELSE PageOf(m, r, x)
<1> DEFINE a == Pdpt(m, r, x)
           b == Pdt(m, r, x)
           c == Pt(m, r, x)
           p == PageOf(m, r, x)
           aa == Pdpt(k, r, x)
           bb == Pdt(k, r, x)
           cc == Pt(k, r, x)
           pp == PageOf(k, r, x)
           L == own[f].level
<1>0. /\ f \in 1 .. Len(m) /\ L \in 1 .. 4 /\ i \in 0 .. 1 /\ m[f][i] = None /\ g \in 1 .. Len(m)
      /\ own[g].level = L + 1
      /\ \A h \in 1 .. Len(m) : h # f => k[h] = m[h]
      /\ \A j \in 0 .. 1 : k[f][j].a = IF j = i THEN g ELSE m[f][j].a
  <2>1. /\ f \in 1 .. Len(m) /\ L \in 1 .. 4 /\ i \in 0 .. 1 /\ m[f][i] = None /\ g \in 1 .. Len(m)
        /\ Below(own[f], i, own[g])
    BY DEF NewLink
  <2>2. own[g].level = L + 1
    BY <2>1 DEF Below, RoleOf
  <2>3. /\ \A h \in 1 .. Len(m) : h # f => k[h] = m[h]
        /\ \A j \in 0 .. 1 : j # i => k[f][j] = m[f][j]
        /\ k[f][i].a = g
    BY LinkOwned
  <2> QED BY <2>1, <2>2, <2>3
<1>1. /\ a = Down(m, r, Index(1, x)) /\ b = Down(m, a, Index(2, x))
      /\ c = Down(m, b, Index(3, x)) /\ p = Down(m, c, Index(4, x))
      /\ aa = Down(k, r, Index(1, x)) /\ bb = Down(k, aa, Index(2, x))
      /\ cc = Down(k, bb, Index(3, x)) /\ pp = Down(k, cc, Index(4, x))
  BY DEF Pdpt, Pdt, Pt, PageOf
<1>2. /\ a \in Nat /\ (a # 0 => a \in 1 .. Len(m) /\ own[a].level = 2)
      /\ b \in Nat /\ (b # 0 => b \in 1 .. Len(m) /\ own[b].level = 3)
      /\ c \in Nat /\ (c # 0 => c \in 1 .. Len(m) /\ own[c].level = 4)
  <2>1. /\ a \in Nat /\ (a # 0 => a \in 1 .. Len(m) /\ own[a] = RoleOf(w, 2, Prefix(2, x)))
        /\ b \in Nat /\ (b # 0 => b \in 1 .. Len(m) /\ own[b] = RoleOf(w, 3, Prefix(3, x)))
        /\ c \in Nat /\ (c # 0 => c \in 1 .. Len(m) /\ own[c] = RoleOf(w, 4, Prefix(4, x)))
    BY PathTyped
  <2> HIDE DEF a, b, c
  <2> QED BY <2>1 DEF RoleOf
<1> HIDE DEF a, b, c, p, aa, bb, cc, pp
<1>3. /\ Index(1, x) \in 0 .. 1 /\ Index(2, x) \in 0 .. 1 /\ Index(3, x) \in 0 .. 1 /\ Index(4, x) \in 0 .. 1
  BY Levels
<1>4. /\ f # 0 /\ g # 0 /\ r # 0 /\ 0 \notin 1 .. Len(m) /\ own[r].level = 1
      /\ None.a = 0 /\ \A j \in 0 .. 1 : ZeroPage[j] = None
  BY <1>0 DEF None, Entry, ZeroPage, RoleOf, MemInv
<1>5. ASSUME NEW h \in {0} \cup 1 .. Len(m), NEW j \in 0 .. 1
      PROVE  Down(k, h, j) = IF h = f /\ j = i THEN g ELSE Down(m, h, j)
  BY <1>0, <1>4 DEF Down
<1>6. Down(m, f, i) = 0
  BY <1>0, <1>4 DEF Down
<1>7. L < 4 => \A j \in 0 .. 1 : Down(k, g, j) = 0
  <2> SUFFICES ASSUME L < 4, NEW j \in 0 .. 1 PROVE Down(k, g, j) = 0
    OBVIOUS
  <2>1. g # f
    BY <1>0
  <2>2. k[g] = ZeroPage
    BY <2>1, <1>0
  <2> QED BY <2>2, <1>4 DEF Down
<1>8. \A j \in 0 .. 1 : Down(m, 0, j) = 0 /\ Down(k, 0, j) = 0
  BY DEF Down
<1>9. a \in {0} \cup 1 .. Len(m) /\ b \in {0} \cup 1 .. Len(m) /\ c \in {0} \cup 1 .. Len(m) /\ r \in {0} \cup 1 .. Len(m)
  BY <1>2
<1>10. L = 1 \/ L = 2 \/ L = 3 \/ L = 4
  BY <1>0
<1>11. CASE L = 1
  <2>1. (a = 0 /\ aa = g) \/ aa = a
    BY <1>1, <1>3, <1>5, <1>6, <1>9
  <2>2. bb = b
    <3>1. CASE a = 0 /\ aa = g
      BY <3>1, <1>1, <1>3, <1>7, <1>8, <1>11
    <3>2. CASE aa = a
      <4>1. a # f
        BY <1>0, <1>2, <1>4, <1>11
      <4> QED BY <3>2, <4>1, <1>1, <1>3, <1>5, <1>9
    <3> QED BY <2>1, <3>1, <3>2
  <2>3. cc = c
    <3>1. b # f
      BY <1>0, <1>2, <1>4, <1>11
    <3> QED BY <2>2, <3>1, <1>1, <1>3, <1>5, <1>9
  <2>4. pp = p
    <3>1. c # f
      BY <1>0, <1>2, <1>4, <1>11
    <3> QED BY <2>3, <3>1, <1>1, <1>3, <1>5, <1>9
  <2> QED BY <2>1, <2>2, <2>3, <2>4, <1>11 DEF a, b, c, p, aa, bb, cc, pp
<1>12. CASE L = 2
  <2>1. aa = a
    <3>1. r # f
      BY <1>4, <1>12
    <3> QED BY <3>1, <1>1, <1>3, <1>5, <1>9
  <2>2. (b = 0 /\ bb = g) \/ bb = b
    BY <1>1, <1>3, <1>5, <1>6, <1>9, <2>1
  <2>3. cc = c
    <3>1. CASE b = 0 /\ bb = g
      BY <3>1, <1>1, <1>3, <1>7, <1>8, <1>12
    <3>2. CASE bb = b
      <4>1. b # f
        BY <1>0, <1>2, <1>4, <1>12
      <4> QED BY <3>2, <4>1, <1>1, <1>3, <1>5, <1>9
    <3> QED BY <2>2, <3>1, <3>2
  <2>4. pp = p
    <3>1. c # f
      BY <1>0, <1>2, <1>4, <1>12
    <3> QED BY <2>3, <3>1, <1>1, <1>3, <1>5, <1>9
  <2> QED BY <2>1, <2>2, <2>3, <2>4, <1>12 DEF a, b, c, p, aa, bb, cc, pp
<1>13. CASE L = 3
  <2>1. aa = a
    <3>1. r # f
      BY <1>4, <1>13
    <3> QED BY <3>1, <1>1, <1>3, <1>5, <1>9
  <2>2. bb = b
    <3>1. a # f
      BY <1>0, <1>2, <1>4, <1>13
    <3> QED BY <2>1, <3>1, <1>1, <1>3, <1>5, <1>9
  <2>3. (c = 0 /\ cc = g) \/ cc = c
    BY <1>1, <1>3, <1>5, <1>6, <1>9, <2>2
  <2>4. pp = p
    <3>1. CASE c = 0 /\ cc = g
      BY <3>1, <1>1, <1>3, <1>7, <1>8, <1>13
    <3>2. CASE cc = c
      <4>1. c # f
        BY <1>0, <1>2, <1>4, <1>13
      <4> QED BY <3>2, <4>1, <1>1, <1>3, <1>5, <1>9
    <3> QED BY <2>3, <3>1, <3>2
  <2> QED BY <2>1, <2>2, <2>3, <2>4, <1>13 DEF a, b, c, p, aa, bb, cc, pp
<1>14. CASE L = 4
  <2>1. aa = a
    <3>1. r # f
      BY <1>4, <1>14
    <3> QED BY <3>1, <1>1, <1>3, <1>5, <1>9
  <2>2. bb = b
    <3>1. a # f
      BY <1>0, <1>2, <1>4, <1>14
    <3> QED BY <2>1, <3>1, <1>1, <1>3, <1>5, <1>9
  <2>3. cc = c
    <3>1. b # f
      BY <1>0, <1>2, <1>4, <1>14
    <3> QED BY <2>2, <3>1, <1>1, <1>3, <1>5, <1>9
  <2>4. pp = IF c = f /\ Index(4, x) = i THEN g ELSE p
    BY <1>1, <1>3, <1>5, <1>9, <2>3
  <2> QED BY <2>1, <2>2, <2>3, <2>4, <1>14 DEF a, b, c, p, aa, bb, cc, pp
<1> QED BY <1>10, <1>11, <1>12, <1>13, <1>14
(* What a change of memory keeps: every table on the path of an address, and *)
(* every page.                                                               *)
Kept(m, k, r, x) ==
    /\ Pdpt(m, r, x) # 0 => Pdpt(k, r, x) = Pdpt(m, r, x)
    /\ Pdt(m, r, x) # 0 => Pdt(k, r, x) = Pdt(m, r, x)
    /\ Pt(m, r, x) # 0 => Pt(k, r, x) = Pt(m, r, x)
    /\ PageOf(k, r, x) = PageOf(m, r, x)

(* WithTable finds the table below that of a level, or makes it.             *)
TableAt(m, own, w, r, x, l, f) ==
    /\ w \in {EptSpace, ShadowSpace} /\ r \in 1 .. Len(m) /\ own[r] = RoleOf(w, 1, 0)
    /\ x \in Addr /\ l \in 1 .. 3 /\ f \in 1 .. Len(m) /\ own[f] = RoleOf(w, l, Prefix(l, x))
TableMade(m, own, k, o, w, r, x, l, f, g) ==
    /\ MemInv(k) /\ Owned(k, o) /\ Len(k) >= Len(m) /\ Extends(m, own, o)
    /\ g \in 1 .. Len(k) /\ o[g] = RoleOf(w, l + 1, Prefix(l + 1, x))
    /\ \A h \in 1 .. Len(m) : h # f => k[h] = m[h]
    /\ \A y \in Addr : Kept(m, k, r, y)
LEMMA TableBelow ==
    ASSUME NEW m, NEW own, NEW w, NEW r, NEW x, NEW l, NEW f,
           MemInv(m), Owned(m, own), TableAt(m, own, w, r, x, l, f)
    PROVE  LET k == WithTable(m, f, Index(l, x))
           IN  \E o : TableMade(m, own, k, o, w, r, x, l, f, k[f][Index(l, x)].a)
<1> DEFINE n == Len(m)
           p == Prefix(l, x)
           i == Index(l, x)
           k == WithTable(m, f, i)
<1>0. /\ w \in {EptSpace, ShadowSpace} /\ r \in 1 .. n /\ own[r] = RoleOf(w, 1, 0)
      /\ x \in Addr /\ l \in 1 .. 3 /\ f \in 1 .. n /\ own[f] = RoleOf(w, l, p)
      /\ p \in Nat /\ i \in 0 .. 1 /\ Prefix(l + 1, x) = 2 * p + i
  BY Levels DEF TableAt
<1> HIDE DEF p, i
<1>1. w \in Int /\ ~ w > 0 /\ own[f].who = w /\ own[f].level = l /\ own[f].at = p
  BY <1>0 DEF EptSpace, ShadowSpace, RoleOf
<1>2. ~ KernelHalf(own[f], i) /\ own[f].level \in 1 .. 4
  BY <1>0, <1>1 DEF KernelHalf
<1>3. n \in Nat /\ f # 0
  BY <1>0 DEF MemInv
<1>4. CASE m[f][i] # None
  <2>1. k = m
    BY <1>4 DEF WithTable
  <2>2. Linked(m, own, f, i)
    BY <1>0, <1>2, Zenon DEF Owned
  <2>3. m[f][i].a \in 1 .. n /\ own[m[f][i].a] = RoleOf(w, l + 1, 2 * p + i)
    BY <2>2, <1>4, <1>0, <1>1 DEF Linked, Below
  <2>4. Extends(m, own, own) /\ \A y \in Addr : Kept(m, m, r, y)
    BY DEF Extends, Kept
  <2>5. TableMade(m, own, k, own, w, r, x, l, f, k[f][i].a)
    BY <2>1, <2>3, <2>4, <1>0, <1>3 DEF TableMade
  <2> QED BY <2>5 DEF i
<1>5. CASE m[f][i] = None
  <2> DEFINE z == kmalloc(m, 1)
             g == n + 1
             o == [h \in 1 .. g |-> IF h <= n THEN own[h] ELSE RoleOf(w, l + 1, 2 * p + i)]
  <2>1. /\ MemInv(z) /\ Len(z) = g /\ DOMAIN z = 1 .. g
        /\ \A h \in 1 .. n : z[h] = m[h]
        /\ \A h \in n + 1 .. n + 1 : z[h] = ZeroPage
    BY Kmalloc
  <2>2. z[g] = ZeroPage /\ g \in 1 .. g /\ ~ g <= n /\ f \in 1 .. g /\ r \in 1 .. g
    BY <2>1, <1>0, <1>3
  <2>3. own \in [1 .. n -> Role]
    BY DEF Owned
  <2>4. RoleOf(w, l + 1, 2 * p + i) \in Role
    BY <1>0, <1>1 DEF RoleOf, Role
  <2>5. o \in [1 .. g -> Role]
    BY <2>3, <2>4, <1>3
  <2>6. Extends(m, own, o) /\ o[g] = RoleOf(w, l + 1, 2 * p + i) /\ o[f] = own[f] /\ o[r] = own[r]
    BY <2>2, <1>0, <1>3 DEF Extends
  <2>7. o[g].who = w /\ o[g].level = l + 1
    BY <2>6 DEF RoleOf
  <2> HIDE DEF o, z, k
  <2>8. Owned(z, o)
    <3>1. ASSUME NEW h \in 1 .. Len(z), h > n
          PROVE  /\ o[h].level \in 1 .. 4 =>
                      \A j \in 0 .. 1 : z[h][j] = IF KernelHalf(o[h], j) THEN KernelLink ELSE None
                 /\ o[h].who = EptSpace /\ o[h].level = 5 => z[h] \in GuestFrame /\ o[h].at \in Addr
      <4>1. h = g
        BY <3>1, <2>1, <1>3
      <4>2. z[h] = ZeroPage /\ o[h].who = w /\ o[h].level = l + 1
        BY <4>1, <2>2, <2>7
      <4>3. \A j \in 0 .. 1 : ZeroPage[j] = None /\ ~ KernelHalf(o[h], j)
        BY <4>2, <1>1 DEF ZeroPage, KernelHalf
      <4> QED BY <4>2, <4>3, <1>0
    <3>2. Len(z) >= Len(m) /\ o \in [1 .. Len(z) -> Role]
      BY <2>1, <2>5, <1>3
    <3>3. Grown(m, own, z, o)
      BY <3>1, <3>2, <2>1, <2>6 DEF Grown
    <3> QED BY <3>3, Grow
  <2>9. k = [z EXCEPT ![f][i] = Entry(g, Bits, FALSE)]
    BY <1>5 DEF k, z, WithTable
  <2>10. NewLink(z, o, k, f, i, g)
    <3>1. Below(o[f], i, o[g]) /\ ~ KernelHalf(o[f], i) /\ o[f].level \in 1 .. 4
          /\ Bits \in SUBSET Bits /\ {"r", "w"} \subseteq Bits
      BY <2>6, <1>0, <1>1, <1>2 DEF Below, Bits
    <3>2. f \in 1 .. Len(z) /\ g \in 1 .. Len(z) /\ z[f][i] = None
      BY <2>1, <2>2, <1>0, <1>5
    <3> HIDE DEF g
    <3> QED BY <3>1, <3>2, <2>9, <1>0 DEF NewLink
  <2>11. /\ MemInv(k) /\ Len(k) = g /\ Owned(k, o)
         /\ \A h \in 1 .. g : h # f => k[h] = z[h]
         /\ k[f][i].a = g
    <3>1. /\ MemInv(k) /\ Len(k) = Len(z) /\ Owned(k, o)
          /\ \A h \in 1 .. Len(z) : h # f => k[h] = z[h]
          /\ k[f][i].a = g
      <4> HIDE DEF g
      <4> QED BY <2>1, <2>8, <2>10, LinkOwned
    <3> QED BY <3>1, <2>1
  <2>13. ASSUME NEW y \in Addr
         PROVE  Kept(m, k, r, y)
    <3>2. o[f].level < 4
      BY <2>6, <2>7, <1>0, <1>1
    <3>3. /\ Pdpt(z, r, y) # 0 => Pdpt(k, r, y) = Pdpt(z, r, y)
          /\ Pdt(z, r, y) # 0 => Pdt(k, r, y) = Pdt(z, r, y)
          /\ Pt(z, r, y) # 0 => Pt(k, r, y) = Pt(z, r, y)
          /\ PageOf(k, r, y) = IF o[f].level = 4 /\ Pt(z, r, y) = f /\ Index(4, y) = i
                               THEN g ELSE PageOf(z, r, y)
      <4>1. r \in 1 .. Len(z) /\ o[r] = RoleOf(w, 1, 0)
        BY <2>1, <2>2, <2>6, <1>0
      <4> HIDE DEF g
      <4> QED BY <4>1, <3>2, <2>1, <2>2, <2>8, <2>10, <1>1, LinkPath
    <3>4. Pdpt(z, r, y) = Pdpt(m, r, y) /\ Pdt(z, r, y) = Pdt(m, r, y) /\ Pt(z, r, y) = Pt(m, r, y)
          /\ PageOf(z, r, y) = PageOf(m, r, y)
      <4> DEFINE a == Pdpt(m, r, y)
                 b == Pdt(m, r, y)
                 c == Pt(m, r, y)
      <4>1. a \in Nat /\ b \in Nat /\ c \in Nat /\ (a # 0 => a \in 1 .. n) /\ (b # 0 => b \in 1 .. n)
            /\ (c # 0 => c \in 1 .. n)
        BY <1>0, <1>1, PathTyped
      <4> HIDE DEF a, b, c
      <4>2. z[r] = m[r] /\ (a # 0 => z[a] = m[a]) /\ (b # 0 => z[b] = m[b]) /\ (c # 0 => z[c] = m[c])
        BY <4>1, <2>1, <1>0
      <4>3. Pdpt(z, r, y) = a
        BY <4>2, Zenon DEF a, Pdpt, Down
      <4>4. Pdt(z, r, y) = b
        BY <4>2, <4>3, Zenon DEF a, b, Pdt, Down
      <4>5. Pt(z, r, y) = c
        BY <4>2, <4>4, Zenon DEF b, c, Pt, Down
      <4>6. PageOf(z, r, y) = PageOf(m, r, y)
        BY <4>2, <4>5, Zenon DEF c, PageOf, Down
      <4> QED BY <4>3, <4>4, <4>5, <4>6 DEF a, b, c
    <3> QED BY <3>2, <3>3, <3>4 DEF Kept
  <2>14. k[f][i].a = g /\ \A h \in 1 .. n : h # f => k[h] = m[h]
    BY <2>1, <2>2, <2>11, <1>0, <1>3
  <2>15. TableMade(m, own, k, o, w, r, x, l, f, k[f][i].a)
    BY <2>2, <2>6, <2>11, <2>13, <2>14, <1>0, <1>3 DEF TableMade
  <2> QED BY <2>15 DEF k, i
<1> QED BY <1>4, <1>5
(* ept_map_page maps the page of an address that has none, and changes no    *)
(* other address and no frame of another address space.                      *)
EptMapped(m, own, k, o, w, r, x, hpa) ==
    /\ MemInv(k) /\ Owned(k, o) /\ Len(k) >= Len(m) /\ Extends(m, own, o)
    /\ \A h \in 1 .. Len(m) : own[h].who # w \/ own[h].level = 5 => k[h] = m[h]
    /\ \A y \in Addr : PageOf(k, r, y) = IF y = x THEN hpa ELSE PageOf(m, r, y)
LEMMA EptMap ==
    ASSUME NEW m, NEW own, MemInv(m), Owned(m, own),
           NEW w \in {EptSpace, ShadowSpace}, NEW r \in 1 .. Len(m), own[r] = RoleOf(w, 1, 0),
           NEW x \in Addr, PageOf(m, r, x) = 0,
           NEW hpa \in 1 .. Len(m), own[hpa].who = EptSpace, own[hpa].level = 5,
           w = EptSpace => own[hpa] = RoleOf(w, 5, x)
    PROVE  \E o : EptMapped(m, own, ept_map_page(m, r, x, hpa), o, w, r, x, hpa)
<1> DEFINE i(l) == Index(l, x)
           m1 == WithTable(m, r, i(1))
           pdpt == m1[r][i(1)].a
           m2 == WithTable(m1, pdpt, i(2))
           pdt == m2[pdpt][i(2)].a
           m3 == WithTable(m2, pdt, i(3))
           pt == m3[pdt][i(3)].a
           k == [m3 EXCEPT ![pt][i(4)] = Entry(hpa, Bits, FALSE)]
<1>1. /\ i(1) \in 0 .. 1 /\ i(2) \in 0 .. 1 /\ i(3) \in 0 .. 1 /\ i(4) \in 0 .. 1
      /\ Prefix(1, x) = 0 /\ x = 2 * Prefix(4, x) + i(4)
  <2>1. /\ \A l \in 1 .. 4 : /\ Index(l, x) \in 0 .. 1 /\ Prefix(l, x) \in Nat
                             /\ Prefix(l + 1, x) = 2 * Prefix(l, x) + Index(l, x)
        /\ Prefix(1, x) = 0 /\ Prefix(5, x) = x
    BY Levels
  <2>2. Prefix(4 + 1, x) = 2 * Prefix(4, x) + i(4)
    BY <2>1
  <2> QED BY <2>1, <2>2
<1>2. w \in Int /\ ~ w > 0
  BY DEF EptSpace, ShadowSpace
<1>3. PICK o1 : /\ MemInv(m1) /\ Owned(m1, o1) /\ Len(m1) >= Len(m) /\ Extends(m, own, o1)
                /\ pdpt \in 1 .. Len(m1) /\ o1[pdpt] = RoleOf(w, 2, Prefix(2, x))
                /\ \A h \in 1 .. Len(m) : h # r => m1[h] = m[h]
                /\ \A y \in Addr : Kept(m, m1, r, y)
  <2>1. TableAt(m, own, w, r, x, 1, r)
    BY <1>1 DEF TableAt
  <2>2. PICK o : TableMade(m, own, m1, o, w, r, x, 1, r, pdpt)
    BY <2>1, TableBelow
  <2> HIDE DEF m1, pdpt
  <2> QED BY <2>2 DEF TableMade
<1> HIDE DEF i, m1, pdpt
<1>4. /\ Len(m) \in Nat /\ Len(m1) \in Nat /\ r \in 1 .. Len(m1) /\ o1[r] = RoleOf(w, 1, 0)
      /\ hpa \in 1 .. Len(m1) /\ o1[hpa] = own[hpa]
  BY <1>3 DEF MemInv, Extends
<1>5. PICK o2 : /\ MemInv(m2) /\ Owned(m2, o2) /\ Len(m2) >= Len(m1) /\ Extends(m1, o1, o2)
                /\ pdt \in 1 .. Len(m2) /\ o2[pdt] = RoleOf(w, 3, Prefix(3, x))
                /\ \A h \in 1 .. Len(m1) : h # pdpt => m2[h] = m1[h]
                /\ \A y \in Addr : Kept(m1, m2, r, y)
  <2>1. TableAt(m1, o1, w, r, x, 2, pdpt)
    BY <1>3, <1>4 DEF TableAt
  <2>2. PICK o : TableMade(m1, o1, m2, o, w, r, x, 2, pdpt, pdt)
    BY <2>1, <1>3, TableBelow DEF i
  <2> HIDE DEF m2, pdt
  <2> QED BY <2>2 DEF TableMade
<1> HIDE DEF m2, pdt
<1>6. /\ Len(m2) \in Nat /\ r \in 1 .. Len(m2) /\ o2[r] = RoleOf(w, 1, 0)
      /\ hpa \in 1 .. Len(m2) /\ o2[hpa] = own[hpa]
      /\ pdpt \in 1 .. Len(m2) /\ o2[pdpt] = RoleOf(w, 2, Prefix(2, x))
  BY <1>3, <1>4, <1>5 DEF MemInv, Extends
<1>7. PICK o3 : /\ MemInv(m3) /\ Owned(m3, o3) /\ Len(m3) >= Len(m2) /\ Extends(m2, o2, o3)
                /\ pt \in 1 .. Len(m3) /\ o3[pt] = RoleOf(w, 4, Prefix(4, x))
                /\ \A h \in 1 .. Len(m2) : h # pdt => m3[h] = m2[h]
                /\ \A y \in Addr : Kept(m2, m3, r, y)
  <2>1. TableAt(m2, o2, w, r, x, 3, pdt)
    BY <1>5, <1>6 DEF TableAt
  <2>2. PICK o : TableMade(m2, o2, m3, o, w, r, x, 3, pdt, pt)
    BY <2>1, <1>5, TableBelow DEF i
  <2> HIDE DEF m3, pt
  <2> QED BY <2>2 DEF TableMade
<1>8. /\ Len(m3) \in Nat /\ r \in 1 .. Len(m3) /\ o3[r] = RoleOf(w, 1, 0)
      /\ hpa \in 1 .. Len(m3) /\ o3[hpa] = own[hpa]
      /\ o3[pdt] = RoleOf(w, 3, Prefix(3, x)) /\ pdt \in 1 .. Len(m3)
  BY <1>5, <1>6, <1>7, SMTT(30) DEF MemInv, Extends
<1>9. /\ Pdpt(m1, r, x) = pdpt /\ Pdt(m2, r, x) = pdt /\ Pt(m3, r, x) = pt
      /\ pdpt # 0 /\ pdt # 0 /\ pt # 0
  <2>1. pdpt # 0 /\ pdt # 0 /\ pt # 0 /\ r # 0
    BY <1>3, <1>5, <1>7, <1>4, SMTT(30) DEF MemInv
  <2>2. Pdpt(m1, r, x) = pdpt
    BY <2>1 DEF Pdpt, Down, pdpt, i
  <2>3. Pdpt(m2, r, x) = pdpt
    BY <1>5, <2>1, <2>2 DEF Kept
  <2>4. Pdt(m2, r, x) = pdt
    BY <2>1, <2>3 DEF Pdt, Down, pdt, i
  <2>5. Pdt(m3, r, x) = pdt
    BY <1>7, <2>1, <2>4 DEF Kept
  <2>6. Pt(m3, r, x) = pt
    BY <2>1, <2>5 DEF Pt, Down, i
  <2> QED BY <2>1, <2>2, <2>4, <2>6
<1> HIDE DEF m3, pt
<1>10. \A y \in Addr : PageOf(m3, r, y) = PageOf(m, r, y)
  BY <1>3, <1>5, <1>7 DEF Kept
<1>11. m3[pt][i(4)] = None
  <2>1. Down(m3, pt, Index(4, x)) = 0
    BY <1>9, <1>10 DEF PageOf
  <2>2. pt \in Nat
    BY <1>7, <1>8
  <2> QED BY <2>1, <2>2, <1>2, <1>7, <1>8, <1>9, DownTyped DEF i
<1>12. NewLink(m3, o3, k, pt, i(4), hpa)
  <2>1. o3[pt].who = w /\ o3[pt].level = 4 /\ o3[pt].at = Prefix(4, x)
    BY <1>7 DEF RoleOf
  <2>2. Below(o3[pt], i(4), o3[hpa])
    BY <2>1, <1>1, <1>8 DEF Below, RoleOf, EptSpace, ShadowSpace
  <2>3. ~ KernelHalf(o3[pt], i(4))
    BY <2>1, <1>2 DEF KernelHalf
  <2>4. Bits \in SUBSET Bits /\ {"r", "w"} \subseteq Bits
    BY DEF Bits
  <2>5. i(4) \in 0 .. 1
    BY <1>1
  <2> HIDE DEF i
  <2>6. \E bits \in SUBSET Bits : {"r", "w"} \subseteq bits /\ k = [m3 EXCEPT ![pt][i(4)] = Entry(hpa, bits, FALSE)]
    BY <2>4
  <2> HIDE DEF k
  <2>7. /\ pt \in 1 .. Len(m3) /\ o3[pt].level \in 1 .. 4 /\ hpa \in 1 .. Len(m3)
    BY <2>1, <1>7, <1>8
  <2> QED BY <2>2, <2>3, <2>5, <2>6, <2>7, <1>11, Zenon DEF NewLink
<1> HIDE DEF k
<1>13. /\ MemInv(k) /\ Len(k) = Len(m3) /\ Owned(k, o3)
       /\ \A h \in 1 .. Len(m3) : h # pt => k[h] = m3[h]
  BY <1>7, <1>12, LinkOwned
<1>14. ASSUME NEW y \in Addr
       PROVE  PageOf(k, r, y) = IF y = x THEN hpa ELSE PageOf(m, r, y)
  <2>1. o3[pt].level = 4 /\ o3[pt].at = Prefix(4, x)
    BY <1>7 DEF RoleOf
  <2>2. PageOf(k, r, y) = IF o3[pt].level = 4 /\ Pt(m3, r, y) = pt /\ Index(4, y) = i(4)
                          THEN hpa ELSE PageOf(m3, r, y)
    BY <2>1, <1>2, <1>7, <1>8, <1>12, LinkPath
  <2>3. CASE y = x
    BY <2>1, <2>2, <2>3, <1>9 DEF i
  <2>4. CASE y # x
    <3>1. ASSUME Pt(m3, r, y) = pt, Index(4, y) = i(4)
          PROVE  FALSE
      <4>1. o3[pt] = RoleOf(w, 4, Prefix(4, y))
        BY <3>1, <1>2, <1>7, <1>8, <1>9, PathTyped, SMTT(30)
      <4>2. Prefix(4, y) = Prefix(4, x)
        BY <4>1, <2>1 DEF RoleOf
      <4>3. Prefix(4 + 1, y) = 2 * Prefix(4, y) + Index(4, y) /\ Prefix(5, y) = y
        BY Levels
      <4> QED BY <4>2, <4>3, <3>1, <1>1, <2>4
    <3> QED BY <3>1, <2>2, <2>4, <1>10
  <2> QED BY <2>3, <2>4
<1>15. ASSUME NEW h \in 1 .. Len(m), own[h].who # w \/ own[h].level = 5
       PROVE  k[h] = m[h]
  <2>1. h \in 1 .. Len(m1) /\ h \in 1 .. Len(m2) /\ h \in 1 .. Len(m3)
    BY <1>3, <1>4, <1>5, <1>6, <1>7, <1>8
  <2>2. o1[h] = own[h] /\ o2[h] = own[h] /\ o3[h] = own[h]
    BY <2>1, <1>3, <1>5, <1>7 DEF Extends
  <2>3. h # r /\ h # pdpt /\ h # pdt /\ h # pt
    BY <2>2, <1>15, <1>3, <1>5, <1>7 DEF RoleOf
  <2> QED BY <2>1, <2>3, <1>3, <1>5, <1>7, <1>13
<1>16. Len(k) >= Len(m) /\ Extends(m, own, o3)
  BY <1>3, <1>4, <1>5, <1>6, <1>7, <1>8, <1>13 DEF Extends
<1>17. EptMapped(m, own, k, o3, w, r, x, hpa)
  BY <1>13, <1>14, <1>15, <1>16 DEF EptMapped
<1>18. k = ept_map_page(m, r, x, hpa)
  BY Zenon DEF k, pt, m3, pdt, m2, pdpt, m1, i, ept_map_page
<1> QED BY <1>17, <1>18
Less == {p \in Nat \X Nat : p[1] < p[2]}

(* The order of the natural numbers, as a relation, is well founded. *)
LEMMA LessWellFounded == IsWellFoundedOn(Less, Nat)
BY NatLessThanWellFounded, Zenon DEF OpToRel, Less

(* Less is the order of the naturals.                                        *)
LEMMA LessIs == \A x, y \in Nat : <<x, y>> \in Less <=> x < y
BY DEF Less

(* Induction up to a bound, over a set of numbers. *)
LEMMA UpTo ==
    ASSUME NEW N \in Nat, NEW T, 0 \in T,
           \A n \in 0 .. N - 1 : n \in T => n + 1 \in T
    PROVE  \A n \in 0 .. N : n \in T
<1>1. SUFFICES ASSUME NEW n \in 0 .. N, n \notin T
               PROVE  FALSE
  OBVIOUS
<1> DEFINE Bad == {k \in Nat : k \in 0 .. N /\ k \notin T}
<1>2. Bad \subseteq Nat /\ Bad # {}
  BY <1>1
<1>3. PICK m \in Bad : \A k \in Bad : ~(<<k, m>> \in Less)
  <2> HIDE DEF Bad
  <2> QED BY <1>2, LessWellFounded, WFMin
<1>4. m # 0 /\ m - 1 \in 0 .. N - 1 /\ m \in Nat /\ m - 1 \in Nat /\ m \notin T
  OBVIOUS
<1>5. m - 1 \in Bad
  BY <1>4
<1>6. <<m - 1, m>> \in Less
  BY <1>4, LessIs
<1> QED BY <1>3, <1>5, <1>6

(* The recursion of map_guest_memory, page by page.                          *)
MapRun(u, m, r, hpa, n) ==
    /\ u[0] = m /\ map_guest_memory(m, r, 0, hpa, n) = u[n]
    /\ \A k \in 1 .. n : u[k] = ept_map_page(u[k - 1], r, 0 + k - 1, hpa + k - 1)
LEMMA MapSteps ==
    ASSUME NEW m, NEW r, NEW hpa, NEW n \in Nat
    PROVE  \E u : MapRun(u, m, r, hpa, n)
<1> DEFINE Step(f, k) == IF k = 0 THEN m ELSE ept_map_page(f[k - 1], r, 0 + k - 1, hpa + k - 1)
           E(j) == \E f : f = [k \in 0 .. j |-> Step(f, k)]
           T == {j \in Nat : E(j)}
<1>1. 0 \in T
  <2> DEFINE g == [k \in 0 .. 0 |-> m]
  <2>1. g = [k \in 0 .. 0 |-> Step(g, k)]
    OBVIOUS
  <2> QED BY <2>1
<1>2. ASSUME NEW j \in 0 .. n - 1, j \in T
      PROVE  j + 1 \in T
  <2>1. PICK f : f = [k \in 0 .. j |-> Step(f, k)]
    BY <1>2
  <2> DEFINE g == [k \in 0 .. j + 1 |-> Step(f, k)]
  <2>2. \A k \in 0 .. j : g[k] = f[k]
    <3> TAKE k \in 0 .. j
    <3>1. f[k] = Step(f, k)
      <4> HIDE DEF Step
      <4> QED BY <2>1
    <3> HIDE DEF Step
    <3> QED BY <3>1
  <2>3. \A k \in 0 .. j + 1 : k # 0 => g[k - 1] = f[k - 1]
    <3> HIDE DEF g
    <3> QED BY <2>2
  <2>4. g = [k \in 0 .. j + 1 |-> Step(g, k)]
    BY <2>3
  <2>5. E(j + 1)
    <3> HIDE DEF g
    <3> QED BY <2>4
  <2>6. j + 1 \in Nat
    OBVIOUS
  <2> HIDE DEF E
  <2> QED BY <2>5, <2>6
<1>3. n \in T
  <2> HIDE DEF T
  <2>1. \A j \in 0 .. n : j \in T
    BY <1>1, <1>2, UpTo
  <2> QED BY <2>1
<1> DEFINE u == CHOOSE f : f = [k \in 0 .. n |-> Step(f, k)]
<1>4. u = [k \in 0 .. n |-> Step(u, k)]
  BY <1>3, Zenon
<1>5. map_guest_memory(m, r, 0, hpa, n) = u[n]
  BY Zenon DEF map_guest_memory
<1> HIDE DEF u
<1> QED BY <1>4, <1>5 DEF MapRun

(* The block of the guest's memory is mapped from address 0.                 *)
GuestMapped(m, own, k, o, r, hpa, n) ==
    /\ MemInv(k) /\ Owned(k, o) /\ Len(k) >= Len(m) /\ Extends(m, own, o)
    /\ \A h \in 1 .. Len(m) : own[h].who # EptSpace \/ own[h].level = 5 => k[h] = m[h]
    /\ \A y \in Addr : PageOf(k, r, y) = IF y < n THEN hpa + y ELSE 0
LEMMA MapGuest ==
    ASSUME NEW m, NEW own, MemInv(m), Owned(m, own),
           NEW r \in 1 .. Len(m), own[r] = RoleOf(EptSpace, 1, 0),
           \A y \in Addr : PageOf(m, r, y) = 0,
           NEW n \in 0 .. 16, NEW hpa \in Nat,
           \A y \in 0 .. n - 1 : hpa + y \in 1 .. Len(m) /\ own[hpa + y] = RoleOf(EptSpace, 5, y)
    PROVE  \E o : GuestMapped(m, own, map_guest_memory(m, r, 0, hpa, n), o, r, hpa, n)
<1>1. PICK u : MapRun(u, m, r, hpa, n)
  <2>1. n \in Nat
    OBVIOUS
  <2> QED BY <2>1, MapSteps, Zenon
<1>2. /\ u[0] = m /\ map_guest_memory(m, r, 0, hpa, n) = u[n]
      /\ \A k \in 1 .. n : u[k] = ept_map_page(u[k - 1], r, 0 + k - 1, hpa + k - 1)
  BY <1>1, Zenon DEF MapRun
<1> DEFINE P(j) == \E o : GuestMapped(m, own, u[j], o, r, hpa, j)
           T == {j \in Nat : P(j)}
<1>3. 0 \in T
  <2>1. \A y \in Addr : ~ y < 0
    BY DEF Addr
  <2>2. Len(m) \in Nat
    BY DEF MemInv
  <2>3. GuestMapped(m, own, m, own, r, hpa, 0)
    BY <2>1, <2>2 DEF GuestMapped, Extends
  <2>4. P(0)
    BY <2>3, <1>2
  <2> HIDE DEF P
  <2> QED BY <2>4
<1>4. ASSUME NEW j \in 0 .. n - 1, j \in T
      PROVE  j + 1 \in T
  <2>1. PICK o : GuestMapped(m, own, u[j], o, r, hpa, j)
    BY <1>4
  <2>2. /\ j \in Addr /\ j \in Nat /\ j + 1 \in Nat /\ j + 1 \in 1 .. n /\ 0 + (j + 1) - 1 = j
        /\ hpa + (j + 1) - 1 = hpa + j /\ (j + 1) - 1 = j
    <3>1. j \in Nat /\ j <= 15 /\ j + 1 <= n
      OBVIOUS
    <3>2. j \in Addr /\ j + 1 \in 1 .. n
      BY <3>1 DEF Addr
    <3> QED BY <3>1, <3>2
  <2>3. u[j + 1] = ept_map_page(u[j], r, j, hpa + j)
    BY <2>2, <1>2
  <2> DEFINE k == u[j]
             l == u[j + 1]
  <2> HIDE DEF k, l
  <2>4. /\ MemInv(k) /\ Owned(k, o) /\ Len(k) >= Len(m) /\ Extends(m, own, o)
        /\ \A h \in 1 .. Len(m) : own[h].who # EptSpace \/ own[h].level = 5 => k[h] = m[h]
        /\ \A y \in Addr : PageOf(k, r, y) = IF y < j THEN hpa + y ELSE 0
    BY <2>1, Zenon DEF GuestMapped, k
  <2>5. Len(m) \in Nat /\ Len(k) \in Nat
    BY <2>4 DEF MemInv
  <2>6. r \in 1 .. Len(k) /\ o[r] = RoleOf(EptSpace, 1, 0) /\ PageOf(k, r, j) = 0
    BY <2>2, <2>4, <2>5 DEF Extends
  <2>7. hpa + j \in 1 .. Len(k) /\ o[hpa + j] = RoleOf(EptSpace, 5, j)
    <3>1. hpa + j \in 1 .. Len(m) /\ own[hpa + j] = RoleOf(EptSpace, 5, j)
      OBVIOUS
    <3> QED BY <3>1, <2>4, <2>5 DEF Extends
  <2>8. PICK o1 : EptMapped(k, o, l, o1, EptSpace, r, j, hpa + j)
    <3>1. o[hpa + j].who = EptSpace /\ o[hpa + j].level = 5
      BY <2>7 DEF RoleOf
    <3>2. EptSpace \in {EptSpace, ShadowSpace}
      OBVIOUS
    <3>3. \E o1 : EptMapped(k, o, ept_map_page(k, r, j, hpa + j), o1, EptSpace, r, j, hpa + j)
      BY <3>1, <3>2, <2>2, <2>4, <2>6, <2>7, EptMap
    <3> QED BY <3>3, <2>3 DEF k, l
  <2>9. /\ MemInv(l) /\ Owned(l, o1) /\ Len(l) >= Len(k) /\ Extends(k, o, o1)
        /\ \A h \in 1 .. Len(k) : o[h].who # EptSpace \/ o[h].level = 5 => l[h] = k[h]
        /\ \A y \in Addr : PageOf(l, r, y) = IF y = j THEN hpa + j ELSE PageOf(k, r, y)
    BY <2>8, Zenon DEF EptMapped
  <2>10. Len(l) >= Len(m) /\ Extends(m, own, o1)
    BY <2>4, <2>5, <2>9, SMTT(30) DEF Extends, MemInv
  <2>11. ASSUME NEW h \in 1 .. Len(m), own[h].who # EptSpace \/ own[h].level = 5
         PROVE  l[h] = m[h]
    <3>1. h \in 1 .. Len(k) /\ o[h] = own[h]
      BY <2>4, <2>5 DEF Extends
    <3> QED BY <3>1, <2>4, <2>9, <2>11
  <2>12. ASSUME NEW y \in Addr
         PROVE  PageOf(l, r, y) = IF y < j + 1 THEN hpa + y ELSE 0
    <3>1. y < j + 1 <=> y = j \/ y < j
      BY <2>2 DEF Addr
    <3> QED BY <3>1, <2>4, <2>9
  <2>13. GuestMapped(m, own, l, o1, r, hpa, j + 1)
    BY <2>9, <2>10, <2>11, <2>12, Zenon DEF GuestMapped
  <2>14. P(j + 1)
    BY <2>13 DEF l
  <2> HIDE DEF P
  <2> QED BY <2>2, <2>14
<1>5. n \in T
  <2> HIDE DEF T
  <2>1. n \in Nat
    OBVIOUS
  <2>2. \A j \in 0 .. n : j \in T
    BY <2>1, <1>3, <1>4, UpTo
  <2> QED BY <2>2
<1>6. P(n)
  BY <1>5, Zenon
<1> QED BY <1>6, <1>2
(* The guest's memory: tr gives the frame of each of its addresses.          *)
GuestMem(m, tr) ==
    /\ tr \in [Addr -> Nat \cup {Unmapped}]
    /\ \A x \in Addr : tr[x] # Unmapped => m[tr[x]] \in GuestFrame

(* The entries of the processor's walk, None where there is no table.        *)
EntryAt(m, t, l, x) == IF t = Unmapped THEN None ELSE m[t][Index(l, x)]
Follow(tr, e, bits) == IF Present(e, bits) THEN tr[e.a] ELSE Unmapped

(* The walk of the processor through any tables of the guest.                *)
LEMMA GuestTablesAre ==
    ASSUME NEW m, NEW tr, GuestMem(m, tr), NEW root \in Addr, NEW x \in Addr, NEW bits
    PROVE  LET t == Tables(m, root, x, tr, bits)
               e(l) == EntryAt(m, t[l], l, x)
           IN  /\ t[1] = tr[root]
               /\ t[2] = Follow(tr, e(1), bits)
               /\ t[3] = IF e(2).big THEN Unmapped ELSE Follow(tr, e(2), bits)
               /\ t[4] = IF e(3).big THEN Unmapped ELSE Follow(tr, e(3), bits)
               /\ \A l \in 1 .. 4 : /\ e(l) \in GuestWord
                                    /\ t[l] # Unmapped => \E a \in Addr : t[l] = tr[a]
               /\ Leaf(m, root, x, tr, bits) =
                    {l \in 2 .. 4 : Present(e(l), bits) /\ (l = 4 \/ e(l).big)}
<1> DEFINE t == Tables(m, root, x, tr, bits)
           below(f, l) ==
             LET e == m[f][Index(l, x)]
             IN  IF f # Unmapped /\ Present(e, bits) /\ ~ (e.big /\ l \in 2 .. 3) THEN tr[e.a] ELSE Unmapped
           t1 == tr[root]
           t2 == below(t1, 1)
           t3 == below(t2, 2)
           t4 == below(t3, 3)
           e(l) == EntryAt(m, t[l], l, x)
<1>1. t = <<t1, t2, t3, t4>>
  BY Zenon DEF Tables
<1>2. t[1] = t1 /\ t[2] = t2 /\ t[3] = t3 /\ t[4] = t4
  <2> HIDE DEF t, t1, t2, t3, t4
  <2> QED BY <1>1
<1> HIDE DEF t
<1>3. None \in GuestWord /\ ~ Present(None, bits) /\ None.big = FALSE
  BY DEF None, Entry, GuestWord, Addr, Bits, Present
<1>4. /\ tr \in [Addr -> Nat \cup {Unmapped}]
      /\ \A a \in Addr : tr[a] # Unmapped => m[tr[a]] \in GuestFrame
  BY DEF GuestMem
<1>5. \A l \in 1 .. 4 : Index(l, x) \in 0 .. 1
  BY Levels
<1>6. \A a \in Addr, l \in 1 .. 4 : tr[a] # Unmapped => m[tr[a]][Index(l, x)] \in GuestWord
  BY <1>4, <1>5 DEF GuestFrame
<1>7. \A w \in GuestWord : w.a \in Addr /\ w.big \in BOOLEAN
  BY DEF GuestWord
<1> DEFINE At(f) == f = Unmapped \/ \E a \in Addr : f = tr[a]
<1>8. At(t1)
  OBVIOUS
<1>9. ASSUME NEW f, At(f), NEW l \in 1 .. 3
      PROVE  EntryAt(m, f, l, x) \in GuestWord /\ At(below(f, l))
  <2>1. CASE f = Unmapped
    BY <2>1, <1>3 DEF EntryAt
  <2>2. CASE f # Unmapped
    <3>1. m[f][Index(l, x)] \in GuestWord
      BY <2>2, <1>6, <1>9
    <3>2. m[f][Index(l, x)].a \in Addr
      BY <3>1, <1>7
    <3> QED BY <3>1, <3>2, <2>2, Zenon DEF EntryAt
  <2> QED BY <2>1, <2>2
<1> HIDE DEF below
<1>10. At(t2)
  BY <1>8, <1>9
<1> HIDE DEF t2
<1>11. At(t3)
  BY <1>9, <1>10
<1> HIDE DEF t3
<1>12. At(t4)
  BY <1>9, <1>11
<1> HIDE DEF t4, t1
<1>13. e(1) \in GuestWord /\ e(2) \in GuestWord /\ e(3) \in GuestWord
  BY <1>2, <1>8, <1>9, <1>10, <1>11
<1>14. e(4) \in GuestWord
  <2>1. CASE t4 = Unmapped
    BY <2>1, <1>2, <1>3 DEF EntryAt
  <2>2. CASE t4 # Unmapped
    <3>1. PICK a \in Addr : t4 = tr[a]
      BY <2>2, <1>12
    <3>2. m[tr[a]][Index(4, x)] \in GuestWord
      BY <2>2, <3>1, <1>6
    <3> QED BY <2>2, <3>1, <3>2, <1>2 DEF EntryAt
  <2> QED BY <2>1, <2>2
<1>15. \A l \in 1 .. 4 : l = 1 \/ l = 2 \/ l = 3 \/ l = 4
  OBVIOUS
<1>16. \A l \in 1 .. 4 : e(l) \in GuestWord /\ (t[l] # Unmapped => \E a \in Addr : t[l] = tr[a])
  <2> HIDE DEF e
  <2> QED BY <1>2, <1>8, <1>10, <1>11, <1>12, <1>13, <1>14, <1>15
<1>17. t[2] = Follow(tr, e(1), bits)
  BY <1>2, <1>3 DEF Follow, EntryAt, below, t2
<1>18. t[3] = IF e(2).big THEN Unmapped ELSE Follow(tr, e(2), bits)
  <2>1. CASE t2 = Unmapped
    BY <2>1, <1>2, <1>3 DEF Follow, EntryAt, below, t3
  <2>2. CASE t2 # Unmapped
    BY <2>2, <1>2 DEF Follow, EntryAt, below, t3
  <2> QED BY <2>1, <2>2
<1>19. t[4] = IF e(3).big THEN Unmapped ELSE Follow(tr, e(3), bits)
  <2>1. CASE t3 = Unmapped
    BY <2>1, <1>2, <1>3 DEF Follow, EntryAt, below, t4
  <2>2. CASE t3 # Unmapped
    BY <2>2, <1>2 DEF Follow, EntryAt, below, t4
  <2> QED BY <2>1, <2>2
<1>20. Leaf(m, root, x, tr, bits) = {l \in 2 .. 4 : Present(e(l), bits) /\ (l = 4 \/ e(l).big)}
  <2>1. Leaf(m, root, x, tr, bits) =
          {l \in 2 .. 4 : t[l] # Unmapped /\ Present(m[t[l]][Index(l, x)], bits)
                                          /\ (l = 4 \/ m[t[l]][Index(l, x)].big)}
    BY Zenon DEF Leaf, t
  <2>2. ASSUME NEW l \in 2 .. 4
        PROVE  (t[l] # Unmapped /\ Present(m[t[l]][Index(l, x)], bits) /\ (l = 4 \/ m[t[l]][Index(l, x)].big))
               <=> Present(e(l), bits) /\ (l = 4 \/ e(l).big)
    <3>1. CASE t[l] = Unmapped
      BY <3>1, <1>3 DEF EntryAt
    <3>2. CASE t[l] # Unmapped
      BY <3>2 DEF EntryAt
    <3> QED BY <3>1, <3>2
  <2> HIDE DEF e
  <2> QED BY <2>1, <2>2
<1> QED BY <1>2, <1>16, <1>17, <1>18, <1>19, <1>20 DEF t, t1

(* The entry of a level, and the address that a leaf gives.                  *)
GuestEntry(m, root, x, tr, bits, l) == EntryAt(m, Tables(m, root, x, tr, bits)[l], l, x)
Onto(w, x, l) == PFN(w.a, Size(l)) + OFFSET(x, Size(l))

(* The walk ends at the first large page or at the page, and at one only.    *)
LEMMA GuestTranslate ==
    ASSUME NEW m, NEW tr, GuestMem(m, tr), NEW root \in Addr, NEW x \in Addr, NEW bits
    PROVE  LET e2 == GuestEntry(m, root, x, tr, bits, 2)
               e3 == GuestEntry(m, root, x, tr, bits, 3)
               e4 == GuestEntry(m, root, x, tr, bits, 4)
           IN  /\ e2 \in GuestWord /\ e3 \in GuestWord /\ e4 \in GuestWord
               /\ Present(e2, bits) /\ e2.big => ~ Present(e3, bits) /\ ~ Present(e4, bits)
               /\ Present(e3, bits) /\ e3.big => ~ Present(e4, bits)
               /\ Leaf(m, root, x, tr, bits) =
                    {l \in {2} : Present(e2, bits) /\ e2.big} \cup {l \in {3} : Present(e3, bits) /\ e3.big}
                      \cup {l \in {4} : Present(e4, bits)}
               /\ Translate(m, root, x, tr, bits) =
                    IF Present(e2, bits) /\ e2.big THEN Onto(e2, x, 2)
                    ELSE IF Present(e3, bits) /\ e3.big THEN Onto(e3, x, 3)
                    ELSE IF Present(e4, bits) THEN e4.a ELSE Unmapped
               /\ \A w \in GuestWord : Onto(w, x, 2) \in Addr /\ Onto(w, x, 3) \in Addr /\ w.a \in Addr
<1> DEFINE t == Tables(m, root, x, tr, bits)
           e(l) == EntryAt(m, t[l], l, x)
           e1 == e(1)
           e2 == e(2)
           e3 == e(3)
           e4 == e(4)
           leaf == Leaf(m, root, x, tr, bits)
<1>1. /\ t[1] = tr[root]
      /\ t[2] = Follow(tr, e1, bits)
      /\ t[3] = IF e2.big THEN Unmapped ELSE Follow(tr, e2, bits)
      /\ t[4] = IF e3.big THEN Unmapped ELSE Follow(tr, e3, bits)
      /\ \A l \in 1 .. 4 : e(l) \in GuestWord
      /\ leaf = {l \in 2 .. 4 : Present(e(l), bits) /\ (l = 4 \/ e(l).big)}
  BY GuestTablesAre
<1>2. e1 \in GuestWord /\ e2 \in GuestWord /\ e3 \in GuestWord /\ e4 \in GuestWord
  <2> HIDE DEF e
  <2> QED BY <1>1
<1>3. ~ Present(None, bits) /\ None.big = FALSE
  BY DEF None, Entry, Present
<1>4. leaf = {l \in {2} : Present(e2, bits) /\ e2.big} \cup {l \in {3} : Present(e3, bits) /\ e3.big}
               \cup {l \in {4} : Present(e4, bits)}
  <2>1. \A l \in 2 .. 4 : l = 2 \/ l = 3 \/ l = 4
    OBVIOUS
  <2> HIDE DEF e
  <2> QED BY <1>1, <2>1
<1>5. (Present(e2, bits) /\ e2.big => ~ Present(e3, bits)) /\ (Present(e2, bits) /\ e2.big => ~ Present(e4, bits))
      /\ (Present(e3, bits) /\ e3.big => ~ Present(e4, bits))
  <2>1. Present(e2, bits) /\ e2.big => t[3] = Unmapped
    BY <1>1
  <2>2. t[3] = Unmapped => e3 = None
    BY DEF EntryAt
  <2>3. e3 = None => t[4] = Unmapped
    BY <1>1, <1>3 DEF Follow
  <2>4. e3.big => t[4] = Unmapped
    BY <1>1
  <2>5. t[4] = Unmapped => e4 = None
    BY DEF EntryAt
  <2> HIDE DEF e, e2, e3, e4
  <2> QED BY <2>1, <2>2, <2>3, <2>4, <2>5, <1>3
<1>6. \A a \in Addr : /\ PFN(a, Size(2)) + OFFSET(x, Size(2)) \in Addr
                      /\ PFN(a, Size(3)) + OFFSET(x, Size(3)) \in Addr
                      /\ PFN(a, Size(4)) + OFFSET(x, Size(4)) = a
  <2> TAKE a \in Addr
  <2>1. a \in Int /\ 0 <= a /\ a <= 15 /\ x \in Int
    BY DEF Addr
  <2>2. Size(2) = 4 /\ Size(3) = 2 /\ Size(4) = 1
    BY DEF Size
  <2>6. /\ \A y \in Int : 0 <= y % 4 /\ y % 4 <= 3
        /\ \A y \in Int : 0 <= y % 2 /\ y % 2 <= 1
        /\ \A y \in Int : y \div 1 = y
        /\ \A y \in Int : y % 1 = 0
        /\ \A y \in Int : 0 <= y /\ y <= 15 => y \div 4 \in 0 .. 3
        /\ \A y \in Int : 0 <= y /\ y <= 15 => y \div 2 \in 0 .. 7
    OBVIOUS
  <2>7. /\ \A q \in 0 .. 3, r \in Int : 0 <= r /\ r <= 3 => q * 4 + r \in 0 .. 15
        /\ \A q \in 0 .. 7, r \in Int : 0 <= r /\ r <= 1 => q * 2 + r \in 0 .. 15
    OBVIOUS
  <2>8. x % 4 \in Int /\ x % 2 \in Int
    BY <2>1
  <2>9. 0 <= x % 4 /\ x % 4 <= 3 /\ 0 <= x % 2 /\ x % 2 <= 1 /\ a \div 4 \in 0 .. 3 /\ a \div 2 \in 0 .. 7
    BY <2>1, <2>6
  <2>3. (a \div 4) * 4 + (x % 4) \in 0 .. 15
    <3> DEFINE q == a \div 4
               r == x % 4
    <3>1. q \in 0 .. 3 /\ r \in Int /\ 0 <= r /\ r <= 3
      BY <2>8, <2>9
    <3> HIDE DEF q, r
    <3>2. q * 4 + r \in 0 .. 15
      BY <3>1, <2>7
    <3> QED BY <3>2 DEF q, r
  <2>4. (a \div 2) * 2 + (x % 2) \in 0 .. 15
    <3> DEFINE q == a \div 2
               r == x % 2
    <3>1. q \in 0 .. 7 /\ r \in Int /\ 0 <= r /\ r <= 1
      BY <2>8, <2>9
    <3> HIDE DEF q, r
    <3>2. q * 2 + r \in 0 .. 15
      BY <3>1, <2>7
    <3> QED BY <3>2 DEF q, r
  <2>5. (a \div 1) * 1 + (x % 1) = a
    <3>1. a \div 1 = a /\ x % 1 = 0
      BY <2>1, <2>6
    <3>2. a * 1 + 0 = a
      BY <2>1
    <3> QED BY <3>1, <3>2
  <2> QED BY <2>2, <2>3, <2>4, <2>5 DEF PFN, OFFSET, Addr
<1> DEFINE Big(w, l) == PFN(w.a, Size(l)) + OFFSET(x, Size(l))
<1>7. \A w \in GuestWord : Big(w, 2) \in Addr /\ Big(w, 3) \in Addr /\ Big(w, 4) = w.a /\ w.a \in Addr
  BY <1>6 DEF GuestWord
<1>8. Translate(m, root, x, tr, bits) =
        IF Present(e2, bits) /\ e2.big THEN Big(e2, 2)
        ELSE IF Present(e3, bits) /\ e3.big THEN Big(e3, 3)
        ELSE IF Present(e4, bits) THEN e4.a ELSE Unmapped
  <2> DEFINE l == CHOOSE k \in leaf : TRUE
  <2>1. Translate(m, root, x, tr, bits) =
          IF leaf = {} THEN Unmapped ELSE Big(m[t[l]][Index(l, x)], l)
    BY Zenon DEF Translate
  <2>2. \A k \in 2 .. 4 : k \in leaf => m[t[k]][Index(k, x)] = e(k)
    <3> SUFFICES ASSUME NEW k \in 2 .. 4, k \in leaf PROVE m[t[k]][Index(k, x)] = e(k)
      OBVIOUS
    <3>1. Present(e(k), bits)
      BY <1>1
    <3>2. t[k] # Unmapped
      BY <3>1, <1>3 DEF EntryAt
    <3> QED BY <3>2 DEF EntryAt
  <2> HIDE DEF leaf, t, Big, e
  <2>3. CASE Present(e2, bits) /\ e2.big
    <3>1. leaf = {2}
      BY <2>3, <1>4, <1>5
    <3>2. l = 2
      BY <3>1
    <3>3. m[t[2]][Index(2, x)] = e2
      BY <3>1, <2>2
    <3> QED BY <2>1, <2>3, <3>1, <3>2, <3>3
  <2>4. CASE ~ (Present(e2, bits) /\ e2.big) /\ Present(e3, bits) /\ e3.big
    <3>1. leaf = {3}
      BY <2>4, <1>4, <1>5
    <3>2. l = 3
      BY <3>1
    <3>3. m[t[3]][Index(3, x)] = e3
      BY <3>1, <2>2
    <3> QED BY <2>1, <2>4, <3>1, <3>2, <3>3
  <2>5. CASE /\ ~ (Present(e2, bits) /\ e2.big) /\ ~ (Present(e3, bits) /\ e3.big) /\ Present(e4, bits)
    <3>1. leaf = {4}
      BY <2>5, <1>4, <1>5
    <3>2. l = 4
      BY <3>1
    <3>3. m[t[4]][Index(4, x)] = e4
      BY <3>1, <2>2
    <3>4. Big(e4, 4) = e4.a
      BY <1>2, <1>7 DEF Big
    <3> QED BY <2>1, <2>5, <3>1, <3>2, <3>3, <3>4
  <2>6. CASE /\ ~ (Present(e2, bits) /\ e2.big) /\ ~ (Present(e3, bits) /\ e3.big) /\ ~ Present(e4, bits)
    <3>1. leaf = {}
      BY <2>6, <1>4
    <3> QED BY <2>1, <2>6, <3>1
  <2> QED BY <2>3, <2>4, <2>5, <2>6
<1> QED BY <1>2, <1>4, <1>5, <1>7, <1>8 DEF GuestEntry, Onto

(* The software's walk gives the processor's translation, except below a 2MB *)
(* page of the guest; and both give addresses of the guest.                  *)
LEMMA GuestWalk ==
    ASSUME NEW m, NEW tr, GuestMem(m, tr), NEW root \in Addr, NEW x \in Addr, NEW bits
    PROVE  /\ 3 \notin Leaf(m, root, x, tr, bits) =>
                Walk(m, root, x, tr, bits) = Translate(m, root, x, tr, bits)
           /\ Walk(m, root, x, tr, bits) \in Addr \cup {Unmapped}
           /\ Translate(m, root, x, tr, bits) \in Addr \cup {Unmapped}
<1> DEFINE t == Tables(m, root, x, tr, bits)
           e1 == EntryAt(m, t[1], 1, x)
           e2 == GuestEntry(m, root, x, tr, bits, 2)
           e3 == GuestEntry(m, root, x, tr, bits, 3)
           e4 == GuestEntry(m, root, x, tr, bits, 4)
           leaf == Leaf(m, root, x, tr, bits)
<1>1. /\ t[1] = tr[root]
      /\ t[2] = Follow(tr, e1, bits)
      /\ t[3] = IF e2.big THEN Unmapped ELSE Follow(tr, e2, bits)
      /\ t[4] = IF e3.big THEN Unmapped ELSE Follow(tr, e3, bits)
  BY GuestTablesAre DEF GuestEntry
<1>2. /\ e2 \in GuestWord /\ e3 \in GuestWord /\ e4 \in GuestWord
      /\ Present(e2, bits) /\ e2.big => ~ Present(e3, bits) /\ ~ Present(e4, bits)
      /\ Present(e3, bits) /\ e3.big => ~ Present(e4, bits)
      /\ leaf = {l \in {2} : Present(e2, bits) /\ e2.big} \cup {l \in {3} : Present(e3, bits) /\ e3.big}
                  \cup {l \in {4} : Present(e4, bits)}
      /\ Translate(m, root, x, tr, bits) =
           IF Present(e2, bits) /\ e2.big THEN Onto(e2, x, 2)
           ELSE IF Present(e3, bits) /\ e3.big THEN Onto(e3, x, 3)
           ELSE IF Present(e4, bits) THEN e4.a ELSE Unmapped
      /\ \A w \in GuestWord : Onto(w, x, 2) \in Addr /\ Onto(w, x, 3) \in Addr /\ w.a \in Addr
  BY GuestTranslate
<1>3. ~ Present(None, bits) /\ None.big = FALSE
  BY DEF None, Entry, Present
<1> DEFINE ent(f, l) == IF f = Unmapped THEN None ELSE m[f][Index(l, x)]
           next(w) == IF Present(w, bits) THEN tr[w.a] ELSE Unmapped
           pml4e == ent(tr[root], 1)
           pdpte == ent(next(pml4e), 2)
           pde == ent(IF pdpte.big THEN Unmapped ELSE next(pdpte), 3)
           pte == ent(IF pde.big THEN Unmapped ELSE next(pde), 4)
<1>9. pml4e = e1
  BY <1>1 DEF EntryAt
<1>10. pdpte = e2
  <2> HIDE DEF pml4e
  <2> QED BY <1>1, <1>9 DEF EntryAt, Follow, GuestEntry
<1>11. pde = e3
  <2> HIDE DEF pdpte
  <2> QED BY <1>1, <1>10 DEF EntryAt, Follow, GuestEntry
<1>12. pte = e4
  <2> HIDE DEF pde
  <2> QED BY <1>1, <1>11 DEF EntryAt, Follow, GuestEntry
<1>13. Walk(m, root, x, tr, bits) =
         CASE Present(pdpte, bits) /\ pdpte.big -> PFN(pdpte.a, Size(2)) + OFFSET(x, Size(2))
           [] Present(pde, bits) /\ pde.big -> PFN(pdpte.a, Size(3)) + OFFSET(x, Size(3))
           [] Present(pte, bits) -> pte.a
           [] OTHER -> Unmapped
  BY Zenon DEF Walk
<1> HIDE DEF pml4e, pdpte, pde, pte, e1, e2, e3, e4
<1>14. Walk(m, root, x, tr, bits) =
         IF Present(e2, bits) /\ e2.big THEN Onto(e2, x, 2)
         ELSE IF Present(e3, bits) /\ e3.big THEN Onto(e2, x, 3)
         ELSE IF Present(e4, bits) THEN e4.a ELSE Unmapped
  BY <1>2, <1>10, <1>11, <1>12, <1>13 DEF Onto
<1>15. 3 \notin leaf => ~ (Present(e3, bits) /\ e3.big)
  BY <1>2
<1>16. /\ Onto(e2, x, 2) \in Addr /\ Onto(e2, x, 3) \in Addr /\ Onto(e3, x, 3) \in Addr /\ e4.a \in Addr
  BY <1>2
<1> DEFINE W == Walk(m, root, x, tr, bits)
           T == Translate(m, root, x, tr, bits)
<1> HIDE DEF leaf, W, T
<1>17. 3 \notin leaf => W = T
  BY <1>2, <1>14, <1>15 DEF W, T
<1>18. W \in Addr \cup {Unmapped} /\ T \in Addr \cup {Unmapped}
  BY <1>2, <1>14, <1>16 DEF W, T
<1> QED BY <1>17, <1>18 DEF leaf, W, T

(* More memory of the guest, with the old as it was, keeps every translation *)
(* that there is.                                                            *)
Keeps(m, tr, k, tr2) ==
    /\ GuestMem(m, tr) /\ GuestMem(k, tr2)
    /\ \A a \in Addr : tr[a] # Unmapped => tr2[a] = tr[a] /\ k[tr[a]] = m[tr[a]]
LEMMA GuestKept ==
    ASSUME NEW m, NEW tr, NEW k, NEW tr2, Keeps(m, tr, k, tr2),
           NEW root \in Addr, NEW x \in Addr, NEW bits
    PROVE  /\ Leaf(m, root, x, tr, bits) \subseteq Leaf(k, root, x, tr2, bits)
           /\ Translate(m, root, x, tr, bits) # Unmapped =>
                Translate(k, root, x, tr2, bits) = Translate(m, root, x, tr, bits)
<1> DEFINE t == Tables(m, root, x, tr, bits)
           u == Tables(k, root, x, tr2, bits)
           e(l) == EntryAt(m, t[l], l, x)
           d(l) == EntryAt(k, u[l], l, x)
<1>0. /\ GuestMem(m, tr) /\ GuestMem(k, tr2)
      /\ \A a \in Addr : tr[a] # Unmapped => tr2[a] = tr[a] /\ k[tr[a]] = m[tr[a]]
  BY DEF Keeps
<1>1. /\ t[1] = tr[root]
      /\ t[2] = Follow(tr, e(1), bits)
      /\ t[3] = IF e(2).big THEN Unmapped ELSE Follow(tr, e(2), bits)
      /\ t[4] = IF e(3).big THEN Unmapped ELSE Follow(tr, e(3), bits)
      /\ \A l \in 1 .. 4 : /\ e(l) \in GuestWord
                           /\ t[l] # Unmapped => \E a \in Addr : t[l] = tr[a]
  BY <1>0, GuestTablesAre
<1>2. /\ u[1] = tr2[root]
      /\ u[2] = Follow(tr2, d(1), bits)
      /\ u[3] = IF d(2).big THEN Unmapped ELSE Follow(tr2, d(2), bits)
      /\ u[4] = IF d(3).big THEN Unmapped ELSE Follow(tr2, d(3), bits)
  BY <1>0, GuestTablesAre
<1> DEFINE e1 == e(1)
           e2 == e(2)
           e3 == e(3)
           e4 == e(4)
           d1 == d(1)
           d2 == d(2)
           d3 == d(3)
           d4 == d(4)
<1>3. ~ Present(None, bits)
  BY DEF None, Entry, Present
<1>4. ASSUME NEW l \in 1 .. 4, t[l] # Unmapped => u[l] = t[l], Present(e(l), bits)
      PROVE  d(l) = e(l)
  <2>1. t[l] # Unmapped
    BY <1>3, <1>4 DEF EntryAt
  <2>2. PICK a \in Addr : t[l] = tr[a]
    BY <2>1, <1>1
  <2>3. k[t[l]] = m[t[l]] /\ u[l] = t[l]
    BY <2>1, <2>2, <1>0, <1>4
  <2> HIDE DEF t, u
  <2> QED BY <2>1, <2>3 DEF EntryAt
<1>5. ASSUME NEW f \in GuestWord, NEW g, Follow(tr, f, bits) # Unmapped, Present(f, bits) => g = f
      PROVE  Follow(tr2, g, bits) = Follow(tr, f, bits)
  <2>1. Present(f, bits) /\ g = f /\ f.a \in Addr
    BY <1>5 DEF Follow, GuestWord
  <2> QED BY <2>1, <1>0, <1>5 DEF Follow
<1>6. e1 \in GuestWord /\ e2 \in GuestWord /\ e3 \in GuestWord /\ e4 \in GuestWord
  <2> HIDE DEF e
  <2> QED BY <1>1
<1>7. Present(e1, bits) => d1 = e1
  <2>1. t[1] # Unmapped => u[1] = t[1]
    BY <1>0, <1>1, <1>2
  <2> HIDE DEF t, u, e, d
  <2> QED BY <2>1, <1>4 DEF e1, d1
<1>8. Present(e2, bits) => d2 = e2
  <2>1. t[2] # Unmapped => u[2] = t[2]
    <3> HIDE DEF t, u, e, d
    <3> HIDE DEF e1, d1
    <3>1. t[2] = Follow(tr, e1, bits) /\ u[2] = Follow(tr2, d1, bits)
      BY <1>1, <1>2 DEF e1, d1
    <3> QED BY <3>1, <1>5, <1>6, <1>7
  <2> HIDE DEF t, u, e, d
  <2> QED BY <2>1, <1>4 DEF e2, d2
<1>9. Present(e3, bits) => d3 = e3
  <2>1. t[3] # Unmapped => u[3] = t[3]
    <3> HIDE DEF t, u, e, d
    <3> HIDE DEF e2, d2
    <3>1. t[3] = (IF e2.big THEN Unmapped ELSE Follow(tr, e2, bits))
          /\ u[3] = (IF d2.big THEN Unmapped ELSE Follow(tr2, d2, bits))
      BY <1>1, <1>2 DEF e2, d2
    <3>2. SUFFICES ASSUME t[3] # Unmapped PROVE u[3] = t[3]
      OBVIOUS
    <3>3. ~ e2.big /\ Follow(tr, e2, bits) # Unmapped
      BY <3>1, <3>2
    <3>4. d2 = e2
      BY <3>3, <1>8 DEF Follow
    <3> QED BY <3>1, <3>3, <3>4, <1>5, <1>6
  <2> HIDE DEF t, u, e, d
  <2> QED BY <2>1, <1>4 DEF e3, d3
<1>10. Present(e4, bits) => d4 = e4
  <2>1. t[4] # Unmapped => u[4] = t[4]
    <3> HIDE DEF t, u, e, d
    <3> HIDE DEF e3, d3
    <3>1. t[4] = (IF e3.big THEN Unmapped ELSE Follow(tr, e3, bits))
          /\ u[4] = (IF d3.big THEN Unmapped ELSE Follow(tr2, d3, bits))
      BY <1>1, <1>2 DEF e3, d3
    <3>2. SUFFICES ASSUME t[4] # Unmapped PROVE u[4] = t[4]
      OBVIOUS
    <3>3. ~ e3.big /\ Follow(tr, e3, bits) # Unmapped
      BY <3>1, <3>2
    <3>4. d3 = e3
      BY <3>3, <1>9 DEF Follow
    <3> QED BY <3>1, <3>3, <3>4, <1>5, <1>6
  <2> HIDE DEF t, u, e, d
  <2> QED BY <2>1, <1>4 DEF e4, d4
<1> DEFINE leaf == Leaf(m, root, x, tr, bits)
           leaf2 == Leaf(k, root, x, tr2, bits)
           T == Translate(m, root, x, tr, bits)
           T2 == Translate(k, root, x, tr2, bits)
<1>11. /\ leaf = {l \in {2} : Present(e2, bits) /\ e2.big} \cup {l \in {3} : Present(e3, bits) /\ e3.big}
                   \cup {l \in {4} : Present(e4, bits)}
       /\ T = IF Present(e2, bits) /\ e2.big THEN Onto(e2, x, 2)
              ELSE IF Present(e3, bits) /\ e3.big THEN Onto(e3, x, 3)
              ELSE IF Present(e4, bits) THEN e4.a ELSE Unmapped
  BY <1>0, GuestTranslate DEF GuestEntry
<1>12. /\ leaf2 = {l \in {2} : Present(d2, bits) /\ d2.big} \cup {l \in {3} : Present(d3, bits) /\ d3.big}
                    \cup {l \in {4} : Present(d4, bits)}
       /\ T2 = IF Present(d2, bits) /\ d2.big THEN Onto(d2, x, 2)
               ELSE IF Present(d3, bits) /\ d3.big THEN Onto(d3, x, 3)
               ELSE IF Present(d4, bits) THEN d4.a ELSE Unmapped
       /\ Present(d2, bits) /\ d2.big => ~ Present(d3, bits) /\ ~ Present(d4, bits)
       /\ Present(d3, bits) /\ d3.big => ~ Present(d4, bits)
  BY <1>0, GuestTranslate DEF GuestEntry
<1> HIDE DEF leaf, leaf2, T, T2, e1, e2, e3, e4, d1, d2, d3, d4
<1>13. leaf \subseteq leaf2
  BY <1>8, <1>9, <1>10, <1>11, <1>12
<1>14. T # Unmapped => T2 = T
  <2>1. CASE Present(e2, bits) /\ e2.big
    BY <2>1, <1>8, <1>11, <1>12
  <2>2. CASE ~ (Present(e2, bits) /\ e2.big) /\ Present(e3, bits) /\ e3.big
    BY <2>2, <1>9, <1>11, <1>12
  <2>3. CASE ~ (Present(e2, bits) /\ e2.big) /\ ~ (Present(e3, bits) /\ e3.big)
    BY <2>3, <1>10, <1>11, <1>12
  <2> QED BY <2>1, <2>2, <2>3
<1> QED BY <1>13, <1>14 DEF leaf, leaf2, T, T2

(* One more frame, with a role of its own.                                   *)
NewFrame(m, k, c) ==
    /\ MemInv(k) /\ Len(k) = Len(m) + 1 /\ \A f \in 1 .. Len(m) : k[f] = m[f]
    /\ c \in Role
    /\ c.level \in 1 .. 4 => \A i \in 0 .. 1 : k[Len(m) + 1][i] = IF KernelHalf(c, i) THEN KernelLink ELSE None
    /\ c.who = EptSpace /\ c.level = 5 => k[Len(m) + 1] \in GuestFrame /\ c.at \in Addr
LEMMA GrowOne ==
    ASSUME NEW m, NEW own, NEW k, NEW c, MemInv(m), Owned(m, own), NewFrame(m, k, c)
    PROVE  \E o : Owned(k, o) /\ Extends(m, own, o) /\ o[Len(m) + 1] = c
<1> DEFINE n == Len(m)
           o == [h \in 1 .. n + 1 |-> IF h <= n THEN own[h] ELSE c]
<1>0. /\ MemInv(k) /\ Len(k) = n + 1 /\ \A f \in 1 .. n : k[f] = m[f]
      /\ c \in Role
      /\ c.level \in 1 .. 4 => \A i \in 0 .. 1 : k[n + 1][i] = IF KernelHalf(c, i) THEN KernelLink ELSE None
      /\ c.who = EptSpace /\ c.level = 5 => k[n + 1] \in GuestFrame /\ c.at \in Addr
  BY DEF NewFrame
<1>1. n \in Nat
  BY DEF MemInv
<1>2. own \in [1 .. n -> Role]
  BY DEF Owned
<1>3. o \in [1 .. n + 1 -> Role]
  BY <1>0, <1>1, <1>2
<1>4. Extends(m, own, o) /\ o[n + 1] = c
  BY <1>1 DEF Extends
<1> HIDE DEF o
<1>5. \A f \in 1 .. n + 1 : f > n => f = n + 1
  BY <1>1
<1>6. Grown(m, own, k, o)
  <2>1. Len(k) >= Len(m) /\ o \in [1 .. Len(k) -> Role]
    BY <1>0, <1>1, <1>3
  <2>2. ASSUME NEW f \in 1 .. Len(k), f > Len(m)
        PROVE  /\ o[f].level \in 1 .. 4 =>
                    \A i \in 0 .. 1 : k[f][i] = IF KernelHalf(o[f], i) THEN KernelLink ELSE None
               /\ o[f].who = EptSpace /\ o[f].level = 5 => k[f] \in GuestFrame /\ o[f].at \in Addr
    <3>1. f = n + 1
      BY <2>2, <1>0, <1>5
    <3> QED BY <3>1, <1>0, <1>4, Zenon
  <2> QED BY <2>1, <2>2, <1>0, <1>4, Zenon DEF Grown
<1>7. Owned(k, o)
  BY <1>6, Grow
<1> QED BY <1>4, <1>7

(* An empty root maps nothing.                                               *)
LEMMA EmptyRoot ==
    ASSUME NEW k, NEW r, k[r] = ZeroPage, NEW x \in Addr
    PROVE  PageOf(k, r, x) = 0
<1>1. Index(1, x) \in 0 .. 1
  BY Levels
<1>2. ZeroPage[Index(1, x)].a = 0
  BY <1>1 DEF ZeroPage, None, Entry
<1>3. Pdpt(k, r, x) = 0
  BY <1>2 DEF Pdpt, Down
<1>4. Pdt(k, r, x) = 0
  BY <1>3 DEF Pdt, Down
<1>5. Pt(k, r, x) = 0
  BY <1>4 DEF Pt, Down
<1> QED BY <1>5 DEF PageOf, Down

(* The EPT gives the frames that were given, to all who walk it.             *)
EptGives(m, own, v) ==
    /\ [x \in Addr |-> Translate(m, v.eptp, x, Here(m), EPT_PRESENT)] = v.given
    /\ Frames(m, v.eptp) = v.given
    /\ \A x \in Addr : ept_gpa_to_hpa(m, v.eptp, x) = v.given[x]
    /\ \A x \in Addr : v.given[x] # Unmapped =>
         /\ v.given[x] \in 1 .. Len(m) /\ own[v.given[x]] = RoleOf(EptSpace, 5, x)
         /\ v.given[x] = PageOf(m, v.eptp, x)
    /\ GuestMem(m, v.given)
LEMMA EptFrames ==
    ASSUME NEW m, NEW own, NEW v, MemInv(m), Owned(m, own), VmOk(m, own, v), v.eptp # 0,
           v.given \in [Addr -> Nat \cup {Unmapped}]
    PROVE  EptGives(m, own, v)
<1> DEFINE r == v.eptp
<1>0. /\ r \in 1 .. Len(m) /\ own[r] = RoleOf(EptSpace, 1, 0)
      /\ \A x \in Addr : v.given[x] = IF PageOf(m, r, x) = 0 THEN Unmapped ELSE PageOf(m, r, x)
  BY DEF VmOk
<1>1. EptSpace \in Int /\ ~ EptSpace > 0 /\ EptSpace # ShadowSpace /\ EPT_PRESENT \cap {"r", "w"} # {}
  BY DEF EptSpace, ShadowSpace, EPT_PRESENT, Bits
<1> HIDE DEF r
<1>2. ASSUME NEW x \in Addr
      PROVE  /\ Translate(m, r, x, Here(m), EPT_PRESENT) = v.given[x]
             /\ ept_gpa_to_hpa(m, r, x) = v.given[x]
             /\ v.given[x] # Unmapped => /\ v.given[x] \in 1 .. Len(m) /\ own[v.given[x]] = RoleOf(EptSpace, 5, x)
                                         /\ v.given[x] = PageOf(m, r, x)
  <2> DEFINE p == PageOf(m, r, x)
  <2>1. /\ Translate(m, r, x, Here(m), EPT_PRESENT) = IF p = 0 THEN Unmapped ELSE p
        /\ Walk(m, r, x, Here(m), EPT_PRESENT) = IF p = 0 THEN Unmapped ELSE p
    BY <1>0, <1>1, HostWalk
  <2>2. p \in Nat /\ (p # 0 => /\ p \in 1 .. Len(m)
                               /\ IF EptSpace = ShadowSpace
                                  THEN own[p].who = EptSpace /\ own[p].level = 5
                                  ELSE own[p] = RoleOf(EptSpace, 5, x))
    BY <1>0, <1>1, PathTyped
  <2> HIDE DEF p
  <2>3. v.given[x] = IF p = 0 THEN Unmapped ELSE p
    BY <1>0 DEF p
  <2>4. ept_gpa_to_hpa(m, r, x) = v.given[x]
    BY <2>1, <2>3 DEF ept_gpa_to_hpa, ept_gpa_to_hpa_any
  <2> QED BY <2>1, <2>2, <2>3, <2>4, <1>1 DEF p
<1>3. [x \in Addr |-> Translate(m, r, x, Here(m), EPT_PRESENT)] = v.given
  BY <1>2
<1>4. Frames(m, r) = v.given
  BY <1>2 DEF Frames
<1>5. ASSUME NEW x \in Addr, v.given[x] # Unmapped
      PROVE  m[v.given[x]] \in GuestFrame
  <2>1. v.given[x] \in 1 .. Len(m) /\ own[v.given[x]] = RoleOf(EptSpace, 5, x)
    BY <1>2, <1>5
  <2> QED BY <2>1 DEF Owned, RoleOf
<1>6. GuestMem(m, v.given)
  BY <1>5 DEF GuestMem
<1> QED BY <1>2, <1>3, <1>4, <1>6 DEF r, EptGives

(* A step that leaves the frames of a space, and the roles of the others,    *)
(* leaves what is said of it.                                                *)
Same(m, own, k, o, w) ==
    /\ MemInv(m) /\ Owned(m, own) /\ MemInv(k) /\ Len(k) >= Len(m) /\ Extends(m, own, o)
    /\ \A h \in 1 .. Len(m) : own[h].who = w => k[h] = m[h]
LEMMA TaskKept ==
    ASSUME NEW m, NEW own, NEW k, NEW o, NEW t \in Nat \ {0}, Same(m, own, k, o, t),
           NEW root, NEW ws, ws \subseteq User,
           NEW flt \in [addr : User, level : 0 .. 4, table : Nat, empty : BOOLEAN],
           TaskOk(m, own, t, root, ws, flt)
    PROVE  TaskOk(k, o, t, root, ws, flt)
<1>0. /\ MemInv(m) /\ Owned(m, own) /\ Len(m) \in Nat /\ Len(k) \in Nat
      /\ \A h \in 1 .. Len(m) : h \in 1 .. Len(k) /\ o[h] = own[h]
      /\ \A h \in 1 .. Len(m) : own[h].who = t => k[h] = m[h]
  BY DEF Same, MemInv, Extends
<1>1. ASSUME root # Unmapped
      PROVE  /\ root \in 1 .. Len(k) /\ o[root] = RoleOf(t, 1, 0)
             /\ \A x \in ws : PageOf(k, root, x) # 0 /\ k[PageOf(k, root, x)][0] = Id(t)
  <2>1. root \in 1 .. Len(m) /\ own[root] = RoleOf(t, 1, 0)
    BY <1>1 DEF TaskOk
  <2>2. ASSUME NEW x \in ws
        PROVE  PageOf(k, root, x) # 0 /\ k[PageOf(k, root, x)][0] = Id(t)
    <3>1. x \in Addr /\ x \in User /\ t \in Int
      BY <2>2 DEF User, Addr
    <3>2. PageOf(k, root, x) = PageOf(m, root, x)
      BY <2>1, <3>1, <1>0, SamePath
    <3> DEFINE p == PageOf(m, root, x)
    <3>3. p # 0 => p \in 1 .. Len(m) /\ IF t = ShadowSpace THEN own[p].who = EptSpace /\ own[p].level = 5
                                        ELSE own[p] = RoleOf(t, 5, x)
      BY <2>1, <3>1, <1>0, PathTyped
    <3>4. p # 0 /\ m[p][0] = Id(t)
      BY <1>1 DEF TaskOk
    <3> HIDE DEF p
    <3>5. k[p] = m[p]
      BY <3>3, <3>4, <1>0 DEF ShadowSpace, RoleOf
    <3> QED BY <3>2, <3>4, <3>5 DEF p
  <2> QED BY <2>1, <2>2, <1>0
<1>2. ASSUME flt.level > 0
      PROVE  /\ flt.table \in 1 .. Len(k)
             /\ o[flt.table] = RoleOf(t, flt.level, Prefix(flt.level, flt.addr))
             /\ flt.empty => k[flt.table][Index(flt.level, flt.addr)] = None
  <2>1. /\ flt.table \in 1 .. Len(m)
        /\ own[flt.table] = RoleOf(t, flt.level, Prefix(flt.level, flt.addr))
        /\ flt.empty => m[flt.table][Index(flt.level, flt.addr)] = None
    BY <1>2 DEF TaskOk
  <2>2. k[flt.table] = m[flt.table]
    BY <2>1, <1>0 DEF RoleOf
  <2> QED BY <2>1, <2>2, <1>0
<1>3. (root = Unmapped => ws = {}) /\ (flt.empty => flt.level > 0)
  BY DEF TaskOk
<1> QED BY <1>1, <1>2, <1>3, Zenon DEF TaskOk

LEMMA VmKept ==
    ASSUME NEW m, NEW own, NEW k, NEW o, NEW v, VmOk(m, own, v),
           MemInv(m), Owned(m, own), MemInv(k), Len(k) >= Len(m), Extends(m, own, o),
           \A h \in 1 .. Len(m) : own[h].who = EptSpace /\ own[h].level \in 1 .. 4 => k[h] = m[h]
    PROVE  VmOk(k, o, v)
<1>1. \A h \in 1 .. Len(m) : h \in 1 .. Len(k) /\ o[h] = own[h]
  BY DEF MemInv, Extends
<1>2. ASSUME v.eptp # 0
      PROVE  /\ v.eptp \in 1 .. Len(k) /\ o[v.eptp] = RoleOf(EptSpace, 1, 0)
             /\ \A x \in Addr : v.given[x] = IF PageOf(k, v.eptp, x) = 0 THEN Unmapped ELSE PageOf(k, v.eptp, x)
  <2>1. v.eptp \in 1 .. Len(m) /\ own[v.eptp] = RoleOf(EptSpace, 1, 0)
    BY <1>2 DEF VmOk
  <2>2. ASSUME NEW x \in Addr
        PROVE  v.given[x] = IF PageOf(k, v.eptp, x) = 0 THEN Unmapped ELSE PageOf(k, v.eptp, x)
    <3>1. EptSpace \in Int /\ ~ EptSpace > 0
      BY DEF EptSpace
    <3>2. PageOf(k, v.eptp, x) = PageOf(m, v.eptp, x)
      BY <2>1, <3>1, SamePath
    <3> QED BY <3>2, <1>2 DEF VmOk
  <2> QED BY <2>1, <2>2, <1>1
<1>3. v.shadow # 0 => v.shadow \in 1 .. Len(k) /\ o[v.shadow] = RoleOf(ShadowSpace, 1, 0)
  BY <1>1 DEF VmOk
<1>4. /\ v.state = "off" <=> v.eptp = 0
      /\ v.state \in {"off", "boot"} => v.shadow = 0
      /\ v.state = "L2" => v.shadow # 0
  BY DEF VmOk
<1> QED BY <1>2, <1>3, <1>4, Zenon DEF VmOk

(* L2's pages stay, and L1's memory gets more.                               *)
LEMMA ShadowKept ==
    ASSUME NEW m, NEW own, NEW k, NEW o, Same(m, own, k, o, ShadowSpace),
           NEW s, s \in 1 .. Len(m), own[s] = RoleOf(ShadowSpace, 1, 0),
           NEW tr, NEW tr2, Keeps(m, tr, k, tr2), NEW old,
           NEW e \in Addr, ShadowOk(m, s, e, tr, old)
    PROVE  ShadowOk(k, s, e, tr2, old)
<1> SUFFICES ASSUME NEW x \in Addr, PageOf(k, s, x) # 0
             PROVE  /\ \E y \in Addr : tr2[y] = PageOf(k, s, x)
                    /\ \/ x \in old \/ 3 \in Leaf(k, e, x, tr2, EPT_PRESENT)
                       \/ PageOf(k, s, x) = Through(k, e, tr2, x)
  BY DEF ShadowOk
<1>1. ShadowSpace \in Int /\ ~ ShadowSpace > 0
  BY DEF ShadowSpace
<1>2. /\ MemInv(m) /\ Owned(m, own)
      /\ \A h \in 1 .. Len(m) : own[h].who = ShadowSpace /\ own[h].level \in 1 .. 4 => k[h] = m[h]
  BY DEF Same
<1>3. PageOf(k, s, x) = PageOf(m, s, x)
  BY <1>1, <1>2, SamePath
<1> DEFINE p == PageOf(m, s, x)
           g == Translate(m, e, x, tr, EPT_PRESENT)
           g2 == Translate(k, e, x, tr2, EPT_PRESENT)
<1>4. p \in Nat
  BY <1>1, <1>2, PathTyped
<1>5. /\ \E y \in Addr : tr[y] = p
      /\ x \in old \/ 3 \in Leaf(m, e, x, tr, EPT_PRESENT) \/ p = Through(m, e, tr, x)
  BY <1>3 DEF ShadowOk
<1>7. /\ Leaf(m, e, x, tr, EPT_PRESENT) \subseteq Leaf(k, e, x, tr2, EPT_PRESENT)
      /\ g # Unmapped => g2 = g
  BY GuestKept
<1>8. Through(m, e, tr, x) = (IF g = Unmapped THEN Unmapped ELSE tr[g])
      /\ Through(k, e, tr2, x) = (IF g2 = Unmapped THEN Unmapped ELSE tr2[g2])
  BY DEF Through
<1>9. g \in Addr \cup {Unmapped}
  BY GuestWalk DEF Keeps
<1>10. \A a \in Addr : tr[a] # Unmapped => tr2[a] = tr[a]
  BY DEF Keeps
<1>11. p # Unmapped
  BY <1>4 DEF Unmapped
<1> HIDE DEF p, g, g2
<1>12. \E y \in Addr : tr2[y] = p
  BY <1>5, <1>10, <1>11
<1>13. p = Through(m, e, tr, x) => p = Through(k, e, tr2, x)
  BY <1>7, <1>8, <1>9, <1>10, <1>11
<1> QED BY <1>3, <1>5, <1>7, <1>12, <1>13 DEF p

(* Writes to pages, of tasks or of the guest, change no table.               *)
LEMMA PagesWritten ==
    ASSUME NEW m, NEW own, NEW k, MemInv(m), Owned(m, own), MemInv(k), Len(k) = Len(m),
           \A h \in 1 .. Len(m) : own[h].level # 5 => k[h] = m[h],
           \A h \in 1 .. Len(m) : own[h].who = EptSpace /\ own[h].level = 5 => k[h] \in GuestFrame
    PROVE  Owned(k, own) /\ Extends(m, own, own)
<1>1. ASSUME NEW f \in 1 .. Len(k), own[f].level \in 1 .. 4, NEW i \in 0 .. 1
      PROVE  IF KernelHalf(own[f], i) THEN k[f][i] = KernelLink ELSE Linked(k, own, f, i)
  <2>1. k[f] = m[f]
    BY <1>1
  <2>2. IF KernelHalf(own[f], i) THEN m[f][i] = KernelLink ELSE Linked(m, own, f, i)
    BY <1>1, Zenon DEF Owned
  <2> QED BY <2>1, <2>2 DEF Linked
<1>2. \A f \in 1 .. Len(k) : own[f].who = EptSpace /\ own[f].level = 5 => k[f] \in GuestFrame /\ own[f].at \in Addr
  BY DEF Owned
<1>3. own \in [1 .. Len(k) -> Role] /\ own[1] = RoleOf(KernelSpace, 0, 0) /\ own[2] = RoleOf(KernelSpace, 0, 0)
  BY DEF Owned
<1>4. Extends(m, own, own)
  BY DEF Extends
<1> QED BY <1>1, <1>2, <1>3, <1>4, Zenon DEF Owned

(* The steps of the tasks leave the virtual machine.                         *)
VmType == [state : {"off", "boot", "L1", "L2", "stopped"}, eptp : Nat, shadow : Nat, ept12 : Addr,
           given : [Addr -> Nat \cup {Unmapped}]]
LEMMA VmUntouched ==
    ASSUME NEW m, NEW own, NEW k, NEW o, NEW v \in VmType, NEW old, VmOk(m, own, v),
           v.shadow # 0 => ShadowOk(m, v.shadow, v.ept12, v.given, old),
           Same(m, own, k, o, EptSpace), Same(m, own, k, o, ShadowSpace)
    PROVE  VmOk(k, o, v) /\ (v.shadow # 0 => ShadowOk(k, v.shadow, v.ept12, v.given, old))
<1>1. VmOk(k, o, v)
  BY VmKept DEF Same
<1>2. ASSUME v.shadow # 0
      PROVE  ShadowOk(k, v.shadow, v.ept12, v.given, old)
  <2>1. v.eptp # 0 /\ v.shadow \in 1 .. Len(m) /\ own[v.shadow] = RoleOf(ShadowSpace, 1, 0)
    BY <1>2 DEF VmOk
  <2>2. v.given \in [Addr -> Nat \cup {Unmapped}]
    BY DEF VmType
  <2>3. /\ GuestMem(m, v.given)
        /\ \A x \in Addr : v.given[x] # Unmapped =>
             v.given[x] \in 1 .. Len(m) /\ own[v.given[x]] = RoleOf(EptSpace, 5, x)
    <3>1. MemInv(m) /\ Owned(m, own)
      BY DEF Same
    <3>2. EptGives(m, own, v)
      BY <3>1, <2>1, <2>2, EptFrames
    <3> QED BY <3>2, Zenon DEF EptGives
  <2>4. \A x \in Addr : v.given[x] # Unmapped => k[v.given[x]] = m[v.given[x]]
    <3>1. \A h \in 1 .. Len(m) : own[h].who = EptSpace => k[h] = m[h]
      BY DEF Same
    <3>2. \A x \in Addr : RoleOf(EptSpace, 5, x).who = EptSpace
      BY DEF RoleOf
    <3> QED BY <3>1, <3>2, <2>3
  <2>5. GuestMem(k, v.given)
    BY <2>3, <2>4 DEF GuestMem
  <2>6. Keeps(m, v.given, k, v.given)
    BY <2>3, <2>4, <2>5 DEF Keeps
  <2>7. v.ept12 \in Addr
    BY DEF VmType
  <2> QED BY <2>1, <2>6, <2>7, <1>2, ShadowKept
<1> QED BY <1>1, <1>2

(* What a step of one task leaves of the others.                             *)
LEMMA OthersKept ==
    ASSUME SpacesInv, NEW own, RoleInv(own), NEW k, NEW o, NEW t \in Task,
           \A w \in Int : w # t => Same(mem, own, k, o, w)
    PROVE  /\ \A u \in Task : u # t => TaskOk(k, o, u, pgd[u], wrote[u], fault[u])
           /\ VmOk(k, o, vm) /\ (vm.shadow # 0 => ShadowOk(k, vm.shadow, vm.ept12, vm.given, stale))
<1>1. ASSUME NEW u \in Task, u # t
      PROVE  TaskOk(k, o, u, pgd[u], wrote[u], fault[u])
  <2>1. u \in Nat \ {0} /\ u \in Int /\ wrote[u] \subseteq User
        /\ fault[u] \in [addr : User, level : 0 .. 4, table : Nat, empty : BOOLEAN]
    BY SpacesAssumption DEF SpacesInv, TypeOK
  <2>2. TaskOk(mem, own, u, pgd[u], wrote[u], fault[u])
    BY DEF RoleInv
  <2>3. Same(mem, own, k, o, u)
    BY <1>1, <2>1
  <2> QED BY <2>1, <2>2, <2>3, TaskKept
<1>2. t > 0
  BY SpacesAssumption
<1>3. Same(mem, own, k, o, EptSpace) /\ Same(mem, own, k, o, ShadowSpace)
  BY <1>2 DEF EptSpace, ShadowSpace
<1>4. vm \in VmType /\ VmOk(mem, own, vm) /\ (vm.shadow # 0 => ShadowOk(mem, vm.shadow, vm.ept12, vm.given, stale))
  BY DEF SpacesInv, TypeOK, VmType, RoleInv, ShadowInv
<1>5. VmOk(k, o, vm) /\ (vm.shadow # 0 => ShadowOk(k, vm.shadow, vm.ept12, vm.given, stale))
  BY <1>3, <1>4, VmUntouched
<1> QED BY <1>1, <1>5

(* The root of a new task is the boot code's: its lower half is empty.       *)
LEMMA NewTask ==
    ASSUME SpacesInv, NEW t \in Task, arch_init_mm(t)
    PROVE  SpacesInv'
<1>1. PICK own : RoleInv(own)
  BY DEF SpacesInv
<1> DEFINE n == Len(mem)
           c == RoleOf(t, 1, 0)
<1>2. TypeOK /\ MemInv(mem) /\ Owned(mem, own) /\ n \in Nat /\ t \in Nat \ {0}
  BY <1>1, SpacesAssumption DEF SpacesInv, TypeOK, RoleInv, MemInv
<1>3. mem[1] \in Frame /\ mem[1] = [i \in 0 .. 1 |-> IF i = 0 THEN None ELSE KernelLink]
  <2>1. 1 \in 1 .. n
    BY <1>2 DEF MemInv
  <2>2. mem[1] \in Frame
    BY <2>1, <1>2 DEF MemInv
  <2> QED BY <2>2, <1>2 DEF MemInv, map_kernel_memory, KernelLink
<1>4. /\ mem' = Append(mem, mem[1]) /\ pgd[t] = Unmapped
      /\ pgd' = [pgd EXCEPT ![t] = n + 1]
      /\ UNCHANGED <<kernel, fault, wrote, vm, stale, left>>
  BY <1>2 DEF arch_init_mm, TypeOK, vmVars
<1>5. /\ MemInv(mem') /\ Len(mem') = n + 1
      /\ \A f \in 1 .. n : mem'[f] = mem[f]
      /\ mem'[n + 1] = mem[1]
  BY <1>2, <1>3, <1>4, Appended
<1>6. NewFrame(mem, mem', c)
  <2>1. c \in Role /\ c.who = t /\ c.level = 1
    BY <1>2 DEF RoleOf, Role
  <2>2. \A i \in 0 .. 1 : mem'[n + 1][i] = IF KernelHalf(c, i) THEN KernelLink ELSE None
    BY <2>1, <1>2, <1>3, <1>5 DEF KernelHalf
  <2> QED BY <2>1, <2>2, <1>5 DEF NewFrame
<1>7. PICK o : Owned(mem', o) /\ Extends(mem, own, o) /\ o[n + 1] = c
  BY <1>2, <1>6, GrowOne
<1>8. \A w \in Int : Same(mem, own, mem', o, w)
  BY <1>2, <1>5, <1>7 DEF Same
<1>9. /\ \A u \in Task : u # t => TaskOk(mem', o, u, pgd[u], wrote[u], fault[u])
      /\ VmOk(mem', o, vm) /\ (vm.shadow # 0 => ShadowOk(mem', vm.shadow, vm.ept12, vm.given, stale))
  BY <1>1, <1>8, OthersKept
<1>10. TaskOk(mem', o, t, n + 1, wrote[t], fault[t])
  <2>1. TaskOk(mem, own, t, Unmapped, wrote[t], fault[t])
    BY <1>1, <1>4 DEF RoleInv
  <2>2. /\ wrote[t] \subseteq User
        /\ fault[t] \in [addr : User, level : 0 .. 4, table : Nat, empty : BOOLEAN]
    BY <1>2, SpacesAssumption DEF TypeOK
  <2>3. Same(mem, own, mem', o, t)
    BY <1>2, <1>8
  <2>4. TaskOk(mem', o, t, Unmapped, wrote[t], fault[t])
    BY <2>1, <2>2, <2>3, <1>2, TaskKept
  <2>5. wrote[t] = {} /\ n + 1 \in 1 .. Len(mem') /\ n + 1 # Unmapped
    BY <2>4, <1>2, <1>5 DEF TaskOk, Unmapped
  <2> QED BY <2>4, <2>5, <1>7 DEF TaskOk
<1>11. TypeOK'
  BY <1>2, <1>4, <1>5 DEF TypeOK
<1>12. \A u \in Task : TaskOk(mem', o, u, pgd'[u], wrote'[u], fault'[u])
  BY <1>2, <1>4, <1>9, <1>10 DEF TypeOK
<1>13. RoleInv(o)'
  BY <1>4, <1>7, <1>9, <1>12 DEF RoleInv
<1>14. ShadowInv'
  BY <1>4, <1>9 DEF ShadowInv
<1> QED BY <1>11, <1>13, <1>14 DEF SpacesInv

(* What the tables of a task say is what the processor finds.                *)
LEMMA TaskWalk ==
    ASSUME NEW m, NEW own, MemInv(m), Owned(m, own), NEW t \in Nat \ {0},
           NEW r \in 1 .. Len(m), own[r] = RoleOf(t, 1, 0), NEW x \in User
    PROVE  LET p == PageOf(m, r, x) IN
           /\ Translate(m, r, x, Here(m), PG_PRESENT) = IF p = 0 THEN Unmapped ELSE p
           /\ p \in Nat /\ (p # 0 => p \in 3 .. Len(m) /\ own[p] = RoleOf(t, 5, x))
<1> DEFINE p == PageOf(m, r, x)
<1>1. x \in Addr /\ t \in Int /\ t # ShadowSpace /\ PG_PRESENT \cap {"r", "w"} # {}
  BY DEF User, Addr, ShadowSpace, PG_PRESENT
<1>2. Translate(m, r, x, Here(m), PG_PRESENT) = IF p = 0 THEN Unmapped ELSE p
  BY <1>1, HostWalk
<1>3. p \in Nat /\ (p # 0 => p \in 1 .. Len(m) /\ own[p] = RoleOf(t, 5, x))
  BY <1>1, PathTyped
<1>4. ~ (own[1] = RoleOf(t, 5, x)) /\ ~ (own[2] = RoleOf(t, 5, x)) /\ Len(m) \in Nat
  BY DEF Owned, RoleOf, KernelSpace, MemInv
<1> HIDE DEF p
<1>5. p # 0 => p # 1 /\ p # 2
  BY <1>3, <1>4
<1>6. p # 0 => p \in 3 .. Len(m)
  BY <1>3, <1>4, <1>5
<1> QED BY <1>2, <1>3, <1>6 DEF p

LEMMA TouchStep ==
    ASSUME SpacesInv, NEW t \in Task, NEW x \in Touched, Touch(t, x)
    PROVE  SpacesInv'
<1>1. PICK own : RoleInv(own)
  BY DEF SpacesInv
<1> DEFINE n == Len(mem)
           r == pgd[t]
           p == PageOf(mem, r, x)
<1>2. /\ TypeOK /\ MemInv(mem) /\ Owned(mem, own) /\ n \in Nat /\ t \in Nat \ {0} /\ x \in User
      /\ wrote[t] \subseteq User /\ TaskOk(mem, own, t, r, wrote[t], fault[t])
  BY <1>1, SpacesAssumption DEF SpacesInv, TypeOK, RoleInv, MemInv
<1>3. /\ r # Unmapped /\ fault[t] = NoFault
      /\ left' = [left EXCEPT !.touch = @ - 1] /\ left.touch > 0
      /\ UNCHANGED <<kernel, pgd, vm, stale>>
  BY DEF Touch, vmVars
<1>4. r \in 1 .. n /\ own[r] = RoleOf(t, 1, 0)
  BY <1>2, <1>3 DEF TaskOk
<1>5. /\ Virt(r, x) = (IF p = 0 THEN Unmapped ELSE p)
      /\ p \in Nat /\ (p # 0 => p \in 3 .. n /\ own[p] = RoleOf(t, 5, x))
  BY <1>2, <1>4, TaskWalk DEF Virt
<1>10. left' \in [vm : BOOLEAN, touch : Nat, l1 : Nat, write : Nat, l2 : Nat]
  <2>1. left \in [vm : BOOLEAN, touch : Nat, l1 : Nat, write : Nat, l2 : Nat] /\ left.touch - 1 \in Nat
    BY <1>2, <1>3 DEF TypeOK
  <2> QED BY <2>1, <1>3
<1>6. ASSUME mem' = mem, UNCHANGED wrote,
             fault' = [fault EXCEPT ![t] = [addr |-> x, level |-> 1, table |-> r, empty |-> FALSE]]
      PROVE  SpacesInv'
  <2>1. x \in Addr
    BY <1>2 DEF User, Addr
  <2>2. TaskOk(mem, own, t, r, wrote[t], [addr |-> x, level |-> 1, table |-> r, empty |-> FALSE])
    <3>1. Prefix(1, x) = 0
      BY <2>1, Levels
    <3> QED BY <3>1, <1>2, <1>4 DEF TaskOk
  <2>3. \A u \in Task : TaskOk(mem', own, u, pgd'[u], wrote'[u], fault'[u])
    BY <1>1, <1>2, <1>3, <1>6, <2>2 DEF RoleInv, TypeOK
  <2>4. TypeOK'
    <3>1. [addr |-> x, level |-> 1, table |-> r, empty |-> FALSE]
            \in [addr : User, level : 0 .. 4, table : Nat, empty : BOOLEAN]
      BY <1>2, <1>4
    <3>2. fault' \in [Task -> [addr : User, level : 0 .. 4, table : Nat, empty : BOOLEAN]]
      BY <3>1, <1>2, <1>6 DEF TypeOK
    <3> QED BY <3>2, <1>2, <1>3, <1>6, <1>10 DEF TypeOK
  <2>5. RoleInv(own)' /\ ShadowInv'
    BY <1>1, <1>3, <1>6, <2>3 DEF RoleInv, ShadowInv, SpacesInv
  <2> QED BY <2>4, <2>5 DEF SpacesInv
<1>7. ASSUME p # 0, mem' = [mem EXCEPT ![p][0] = Id(t)],
             wrote' = [wrote EXCEPT ![t] = @ \cup {x}], UNCHANGED fault
      PROVE  SpacesInv'
  <2>1. p \in 3 .. n /\ p \in 1 .. n /\ own[p].who = t /\ own[p].level = 5 /\ Id(t) \in Word
    BY <1>2, <1>5, <1>7 DEF RoleOf, Id, Entry, Word
  <2>2. /\ MemInv(mem') /\ Len(mem') = n
        /\ \A h \in 1 .. n : h # p => mem'[h] = mem[h]
        /\ mem'[p][0] = Id(t)
    <3> HIDE DEF p
    <3>1. LET k == [mem EXCEPT ![p][0] = Id(t)] IN
           /\ MemInv(k) /\ Len(k) = n /\ DOMAIN k = 1 .. n
           /\ \A h \in 1 .. n : h # p => k[h] = mem[h]
           /\ k[p] \in Frame /\ \A j \in 0 .. 1 : k[p][j] = IF j = 0 THEN Id(t) ELSE mem[p][j]
      BY <1>2, <2>1, Written
    <3>2. 0 \in 0 .. 1
      OBVIOUS
    <3> QED BY <3>1, <3>2, <1>7
  <2>3. Owned(mem', own) /\ Extends(mem, own, own)
    <3>1. \A h \in 1 .. n : own[h].level # 5 => mem'[h] = mem[h]
      BY <2>1, <2>2
    <3>2. \A h \in 1 .. n : own[h].who = EptSpace /\ own[h].level = 5 => mem'[h] \in GuestFrame
      BY <1>2, <2>1, <2>2 DEF Owned, EptSpace
    <3> QED BY <3>1, <3>2, <2>2, <1>2, PagesWritten
  <2>4. \A w \in Int : w # t => Same(mem, own, mem', own, w)
    BY <2>1, <2>2, <2>3, <1>2 DEF Same
  <2>5. /\ \A u \in Task : u # t => TaskOk(mem', own, u, pgd[u], wrote[u], fault[u])
        /\ VmOk(mem', own, vm) /\ (vm.shadow # 0 => ShadowOk(mem', vm.shadow, vm.ept12, vm.given, stale))
    BY <1>1, <2>4, OthersKept
  <2>6. TaskOk(mem', own, t, r, wrote[t] \cup {x}, fault[t])
    <3>1. ASSUME NEW y \in wrote[t] \cup {x}
          PROVE  PageOf(mem', r, y) # 0 /\ mem'[PageOf(mem', r, y)][0] = Id(t)
      <4> DEFINE q == PageOf(mem, r, y)
      <4>1. y \in User /\ y \in Addr /\ t \in Int
        BY <1>2 DEF User, Addr
      <4>2. PageOf(mem', r, y) = q
        <5>1. \A h \in 1 .. n : own[h].who = t /\ own[h].level \in 1 .. 4 => mem'[h] = mem[h]
          BY <2>1, <2>2
        <5> QED BY <5>1, <4>1, <1>2, <1>4, SamePath
      <4>3. q \in Nat /\ (q # 0 => q \in 3 .. n /\ own[q] = RoleOf(t, 5, y))
        BY <4>1, <1>2, <1>4, TaskWalk
      <4>4. q # 0 /\ (y # x => mem[q][0] = Id(t)) /\ (y = x => q = p)
        BY <1>2, <1>3, <1>7 DEF TaskOk
      <4> HIDE DEF p, q
      <4>5. y # x => q # p
        BY <4>3, <4>4, <1>5, <2>1 DEF RoleOf
      <4>6. q \in 1 .. n
        BY <4>3, <4>4, <1>2
      <4> QED BY <4>2, <4>4, <4>5, <4>6, <2>2
    <3>2. fault[t].level = 0 /\ fault[t].empty = FALSE
      BY <1>3 DEF NoFault
    <3> QED BY <3>1, <3>2, <2>2, <1>3, <1>4 DEF TaskOk
  <2>7. \A u \in Task : TaskOk(mem', own, u, pgd'[u], wrote'[u], fault'[u])
    <3>1. wrote'[t] = wrote[t] \cup {x} /\ \A u \in Task : u # t => wrote'[u] = wrote[u]
      BY <1>2, <1>7 DEF TypeOK
    <3> QED BY <3>1, <2>5, <2>6, <1>3, <1>7
  <2>8. TypeOK'
    <3>1. wrote' \in [Task -> SUBSET Touched]
      BY <1>2, <1>7 DEF TypeOK
    <3> QED BY <3>1, <1>2, <1>3, <1>7, <1>10, <2>2 DEF TypeOK
  <2>9. RoleInv(own)'
    BY <1>3, <2>3, <2>5, <2>7 DEF RoleInv
  <2>10. ShadowInv'
    BY <1>3, <2>5 DEF ShadowInv
  <2> QED BY <2>8, <2>9, <2>10 DEF SpacesInv
<1>8. CASE p # 0
  <2>1. Virt(r, x) = p /\ p # Unmapped
    BY <1>5, <1>8 DEF Unmapped
  <2>2. mem' = [mem EXCEPT ![p][0] = Id(t)] /\ wrote' = [wrote EXCEPT ![t] = @ \cup {x}] /\ UNCHANGED fault
    BY <2>1 DEF Touch
  <2> QED BY <2>2, <1>7, <1>8
<1>9. CASE p = 0
  <2>1. Virt(r, x) = Unmapped
    BY <1>5, <1>9
  <2>2. /\ mem' = mem /\ UNCHANGED wrote
        /\ fault' = [fault EXCEPT ![t] = [addr |-> x, level |-> 1, table |-> r, empty |-> FALSE]]
    BY <2>1 DEF Touch
  <2> QED BY <2>2, <1>6
<1> QED BY <1>8, <1>9

FaultType == [addr : User, level : 0 .. 4, table : Nat, empty : BOOLEAN]

(* The entry that a fault has come to.                                       *)
LEMMA FaultEntry ==
    ASSUME NEW m, NEW own, MemInv(m), Owned(m, own), NEW t \in Nat \ {0},
           NEW flt \in FaultType, flt.level > 0, flt.table \in 1 .. Len(m),
           own[flt.table] = RoleOf(t, flt.level, Prefix(flt.level, flt.addr))
    PROVE  LET e == m[flt.table][Index(flt.level, flt.addr)] IN
           /\ flt.level \in 1 .. 4 /\ flt.addr \in Addr /\ flt.addr \in User /\ flt.table # 0
           /\ Index(flt.level, flt.addr) \in 0 .. 1
           /\ Prefix(flt.level + 1, flt.addr) = 2 * Prefix(flt.level, flt.addr) + Index(flt.level, flt.addr)
           /\ Prefix(flt.level, flt.addr) \in Nat
           /\ ~ KernelHalf(own[flt.table], Index(flt.level, flt.addr))
           /\ e.a = 0 => e = None
           /\ e.a # 0 => /\ e.a \in 1 .. Len(m)
                         /\ own[e.a] = RoleOf(t, flt.level + 1, Prefix(flt.level + 1, flt.addr))
<1> DEFINE l == flt.level
           x == flt.addr
           f == flt.table
           i == Index(l, x)
           e == m[f][i]
           g == Down(m, f, i)
<1>1. l \in 1 .. 4 /\ x \in Addr /\ x \in User /\ f # 0 /\ f \in Nat /\ t \in Int /\ t # ShadowSpace
  BY DEF FaultType, User, Addr, ShadowSpace, MemInv
<1>2. f \in 1 .. Len(m) /\ own[f] = RoleOf(t, l, Prefix(l, x))
  OBVIOUS
<1> HIDE DEF l, x, f, i, g
<1>3. i \in 0 .. 1 /\ Prefix(l + 1, x) = 2 * Prefix(l, x) + i /\ Prefix(l, x) \in Nat
      /\ (l = 1 => i = 0)
  BY <1>1, Levels DEF i
<1>4. g = e.a
  BY <1>1 DEF g, Down
<1>5. ~ KernelHalf(own[f], i)
  BY <1>2, <1>3 DEF KernelHalf, RoleOf
<1>6. /\ g # 0 => /\ g \in 1 .. Len(m)
                  /\ IF t = ShadowSpace /\ l = 4 THEN own[g].who = EptSpace /\ own[g].level = 5
                     ELSE own[g] = RoleOf(t, l + 1, Prefix(l + 1, x))
      /\ g = 0 => m[f][i] = None
  BY <1>1, <1>2, DownTyped DEF i, g
<1> HIDE DEF e
<1>7. /\ e.a = 0 => e = None
      /\ e.a # 0 => e.a \in 1 .. Len(m) /\ own[e.a] = RoleOf(t, l + 1, Prefix(l + 1, x))
  BY <1>1, <1>4, <1>6 DEF e
<1> QED BY <1>1, <1>3, <1>5, <1>7 DEF l, x, f, i, e

LEMMA TestStep ==
    ASSUME SpacesInv, NEW t \in Task, TestEntry(t)
    PROVE  SpacesInv'
<1>1. PICK own : RoleInv(own)
  BY DEF SpacesInv
<1> DEFINE n == Len(mem)
           flt == fault[t]
           e == Entered(t)
           new == IF e.a = 0 THEN [flt EXCEPT !.empty = TRUE] ELSE Descend(t, e.a)
<1>2. /\ TypeOK /\ MemInv(mem) /\ Owned(mem, own) /\ n \in Nat /\ t \in Nat \ {0}
      /\ flt \in FaultType /\ TaskOk(mem, own, t, pgd[t], wrote[t], flt)
  BY <1>1, SpacesAssumption DEF SpacesInv, TypeOK, RoleInv, MemInv, FaultType
<1>3. /\ flt.level > 0 /\ flt.empty = FALSE
      /\ fault' = [fault EXCEPT ![t] = new]
      /\ UNCHANGED <<mem, kernel, pgd, wrote, vm, stale, left>>
  BY <1>2 DEF TestEntry, vmVars, FaultType
<1>4. /\ flt.table \in 1 .. n
      /\ own[flt.table] = RoleOf(t, flt.level, Prefix(flt.level, flt.addr))
  BY <1>2, <1>3 DEF TaskOk
<1>5. /\ flt.level \in 1 .. 4 /\ flt.addr \in User
      /\ e.a = 0 => mem[flt.table][Index(flt.level, flt.addr)] = None
      /\ e.a # 0 => /\ e.a \in 1 .. n
                    /\ own[e.a] = RoleOf(t, flt.level + 1, Prefix(flt.level + 1, flt.addr))
  BY <1>2, <1>3, <1>4, FaultEntry, SMTT(30) DEF Entered
<1> HIDE DEF e
<1>6. new \in FaultType /\ TaskOk(mem, own, t, pgd[t], wrote[t], new)
  <2>1. CASE e.a = 0
    <3>1. /\ new \in FaultType /\ new.level = flt.level /\ new.table = flt.table /\ new.addr = flt.addr
          /\ new.empty = TRUE
      BY <2>1, <1>2 DEF FaultType
    <3> HIDE DEF new, flt
    <3> QED BY <3>1, <1>2, <1>3, <1>4, <1>5, <2>1 DEF TaskOk
  <2>2. CASE e.a # 0 /\ flt.level = 4
    <3>1. new = NoFault
      BY <2>2 DEF Descend
    <3>2. NoFault \in FaultType /\ NoFault.level = 0 /\ NoFault.empty = FALSE
      BY DEF NoFault, FaultType, User
    <3> HIDE DEF new, flt
    <3> QED BY <3>1, <3>2, <1>2 DEF TaskOk
  <2>3. CASE e.a # 0 /\ flt.level # 4
    <3>1. new = [flt EXCEPT !.level = @ + 1, !.table = e.a, !.empty = FALSE]
      BY <2>3 DEF Descend
    <3>2. e.a \in Nat /\ flt.level + 1 \in 1 .. 4
      BY <2>3, <1>2, <1>5
    <3>3. /\ new \in FaultType /\ new.level = flt.level + 1 /\ new.table = e.a /\ new.addr = flt.addr
          /\ new.empty = FALSE
      <4>1. flt.level + 1 \in 0 .. 4
        BY <3>2
      <4> DEFINE lv == flt.level + 1
                 a == e.a
      <4>2. new = [flt EXCEPT !.level = lv, !.table = a, !.empty = FALSE] /\ lv \in 0 .. 4 /\ a \in Nat
        BY <3>1, <3>2, <4>1
      <4> HIDE DEF flt, new, lv, a
      <4>3. /\ new \in FaultType /\ new.level = lv /\ new.table = a /\ new.addr = flt.addr
            /\ new.empty = FALSE
        BY <4>2, <1>2 DEF FaultType
      <4> QED BY <4>3 DEF lv, a
    <3> HIDE DEF new, flt
    <3> QED BY <3>2, <3>3, <1>2, <1>5, <2>3 DEF TaskOk
  <2> QED BY <2>1, <2>2, <2>3
<1> HIDE DEF new
<1>7. \A u \in Task : TaskOk(mem', own, u, pgd'[u], wrote'[u], fault'[u])
  BY <1>1, <1>2, <1>3, <1>6 DEF RoleInv, TypeOK
<1>8. TypeOK'
  <2>1. fault' \in [Task -> [addr : User, level : 0 .. 4, table : Nat, empty : BOOLEAN]]
    BY <1>2, <1>3, <1>6 DEF TypeOK, FaultType
  <2> QED BY <2>1, <1>2, <1>3 DEF TypeOK
<1>9. RoleInv(own)' /\ ShadowInv'
  BY <1>1, <1>3, <1>7 DEF RoleInv, ShadowInv, SpacesInv
<1> QED BY <1>8, <1>9 DEF SpacesInv

LEMMA SetStep ==
    ASSUME SpacesInv, NEW t \in Task, SetEntry(t)
    PROVE  SpacesInv'
<1>1. PICK own : RoleInv(own)
  BY DEF SpacesInv
<1> DEFINE n == Len(mem)
           flt == fault[t]
           f == flt.table
           i == Index(flt.level, flt.addr)
           g == n + 1
           c == RoleOf(t, flt.level + 1, Prefix(flt.level + 1, flt.addr))
           z == kmalloc(mem, 1)
           r == pgd[t]
           new == Descend(t, g)
<1>2. /\ TypeOK /\ MemInv(mem) /\ Owned(mem, own) /\ n \in Nat /\ t \in Nat \ {0} /\ t \in Int
      /\ flt \in FaultType /\ TaskOk(mem, own, t, r, wrote[t], flt) /\ wrote[t] \subseteq User
  BY <1>1, SpacesAssumption, SMTT(30) DEF SpacesInv, TypeOK, RoleInv, MemInv, FaultType
<1>3. /\ flt.level > 0 /\ flt.empty
      /\ fault' = [fault EXCEPT ![t] = new]
      /\ mem' = [z EXCEPT ![f][i] = Entry(g, {"r", "w"}, FALSE)]
      /\ UNCHANGED <<kernel, pgd, wrote, vm, stale, left>>
  BY <1>2 DEF SetEntry, vmVars, TaskOk
<1>4. /\ f \in 1 .. n /\ own[f] = RoleOf(t, flt.level, Prefix(flt.level, flt.addr)) /\ mem[f][i] = None
  BY <1>2, <1>3 DEF TaskOk
<1>5. /\ flt.level \in 1 .. 4 /\ flt.addr \in Addr /\ i \in 0 .. 1
      /\ Prefix(flt.level + 1, flt.addr) = 2 * Prefix(flt.level, flt.addr) + i
      /\ Prefix(flt.level, flt.addr) \in Nat /\ ~ KernelHalf(own[f], i)
  BY <1>2, <1>3, <1>4, FaultEntry
<1> DEFINE L == flt.level
           P == Prefix(L, flt.addr)
<1>6. /\ c = RoleOf(t, L + 1, 2 * P + i) /\ own[f] = RoleOf(t, L, P) /\ L \in 1 .. 4 /\ P \in Nat
      /\ new = (IF L = 4 THEN NoFault ELSE [flt EXCEPT !.level = @ + 1, !.table = g, !.empty = FALSE])
  BY <1>4, <1>5 DEF Descend
<1> HIDE DEF i, P, new, z
<1>7. c \in Role /\ c.who = t /\ c.level = L + 1 /\ own[f].who = t /\ own[f].level = L /\ own[f].at = P
  <2>1. 2 * P + i \in Nat /\ L + 1 \in 0 .. 5
    BY <1>5, <1>6
  <2> HIDE DEF c, L
  <2> QED BY <2>1, <1>2, <1>6 DEF RoleOf, Role
<1> HIDE DEF c
<1>8. /\ MemInv(z) /\ Len(z) = n + 1
      /\ \A h \in 1 .. n : z[h] = mem[h]
      /\ z[n + 1] = ZeroPage
  <2>1. LET k == kmalloc(mem, 1) IN
          /\ MemInv(k) /\ Len(k) = n + 1 /\ DOMAIN k = 1 .. n + 1
          /\ \A h \in 1 .. n : k[h] = mem[h]
          /\ \A h \in n + 1 .. n + 1 : k[h] = ZeroPage
    <3>1. MemInv(mem) /\ 1 \in Nat
      BY <1>2
    <3> QED BY <3>1, Kmalloc
  <2>2. n + 1 \in n + 1 .. n + 1
    BY <1>2
  <2> QED BY <2>1, <2>2 DEF z
<1>9. NewFrame(mem, z, c)
  <2>1. \A j \in 0 .. 1 : z[n + 1][j] = None /\ ~ KernelHalf(c, j)
    BY <1>6, <1>7, <1>8 DEF ZeroPage, KernelHalf
  <2>2. c.who # EptSpace
    BY <1>2, <1>7 DEF EptSpace
  <2> QED BY <2>1, <2>2, <1>7, <1>8 DEF NewFrame
<1>10. PICK o : Owned(z, o) /\ Extends(mem, own, o) /\ o[n + 1] = c
  BY <1>2, <1>9, GrowOne
<1>11. o[f] = own[f] /\ f \in 1 .. Len(z) /\ g \in 1 .. Len(z) /\ z[f][i] = None /\ z[g] = ZeroPage
  BY <1>2, <1>4, <1>8, <1>10 DEF Extends
<1>12. NewLink(z, o, mem', f, i, g)
  <2>1. Below(o[f], i, o[g])
    BY <1>2, <1>6, <1>7, <1>10, <1>11 DEF Below, ShadowSpace
  <2>2. {"r", "w"} \in SUBSET Bits /\ {"r", "w"} \subseteq {"r", "w"}
    BY DEF Bits
  <2>3. \E bits \in SUBSET Bits : {"r", "w"} \subseteq bits /\ mem' = [z EXCEPT ![f][i] = Entry(g, bits, FALSE)]
    BY <2>2, <1>3
  <2>4. o[f].level \in 1 .. 4 /\ ~ KernelHalf(o[f], i)
    BY <1>5, <1>6, <1>7, <1>11
  <2> QED BY <2>1, <2>3, <2>4, <1>5, <1>11, Zenon DEF NewLink
<1>13. /\ MemInv(mem') /\ Len(mem') = n + 1 /\ Owned(mem', o)
       /\ \A h \in 1 .. n + 1 : h # f => mem'[h] = z[h]
  BY <1>8, <1>10, <1>12, LinkOwned
<1>14. \A h \in 1 .. n : h # f => mem'[h] = mem[h]
  BY <1>2, <1>8, <1>13
<1>15. \A w \in Int : w # t => Same(mem, own, mem', o, w)
  BY <1>2, <1>7, <1>10, <1>13, <1>14 DEF Same
<1>16. /\ \A u \in Task : u # t => TaskOk(mem', o, u, pgd[u], wrote[u], fault[u])
       /\ VmOk(mem', o, vm) /\ (vm.shadow # 0 => ShadowOk(mem', vm.shadow, vm.ept12, vm.given, stale))
  BY <1>1, <1>15, OthersKept
<1>17. ASSUME r # Unmapped
       PROVE  /\ r \in 1 .. Len(mem') /\ o[r] = RoleOf(t, 1, 0)
              /\ \A x \in wrote[t] : PageOf(mem', r, x) # 0 /\ mem'[PageOf(mem', r, x)][0] = Id(t)
  <2>1. r \in 1 .. n /\ own[r] = RoleOf(t, 1, 0)
    BY <1>2, <1>17 DEF TaskOk
  <2>2. r \in 1 .. Len(z) /\ r \in 1 .. Len(mem') /\ o[r] = RoleOf(t, 1, 0)
    BY <2>1, <1>2, <1>8, <1>10, <1>13 DEF Extends
  <2>3. ASSUME NEW x \in wrote[t]
        PROVE  PageOf(mem', r, x) # 0 /\ mem'[PageOf(mem', r, x)][0] = Id(t)
    <3> DEFINE p == PageOf(mem, r, x)
    <3>1. x \in User /\ x \in Addr
      BY <1>2 DEF User, Addr
    <3>2. PageOf(z, r, x) = p
      <4>1. \A h \in 1 .. n : own[h].who = t /\ own[h].level \in 1 .. 4 => z[h] = mem[h]
        BY <1>8
      <4> QED BY <4>1, <2>1, <3>1, <1>2, SamePath
    <3>3. PageOf(mem', r, x) = IF o[f].level = 4 /\ Pt(z, r, x) = f /\ Index(4, x) = i
                               THEN g ELSE PageOf(z, r, x)
      <4>1. o[f].level < 4 => z[g] = ZeroPage
        BY <1>11
      <4> HIDE DEF g
      <4> QED BY <4>1, <2>2, <3>1, <1>2, <1>8, <1>10, <1>12, LinkPath
    <3>4. p # 0 /\ mem[p][0] = Id(t)
      BY <1>2, <1>17 DEF TaskOk
    <3>5. p \in 3 .. n /\ own[p] = RoleOf(t, 5, x)
      BY <2>1, <3>1, <3>4, <1>2, TaskWalk
    <3> HIDE DEF p
    <3>6. ~ (Pt(z, r, x) = f /\ Index(4, x) = i)
      <4>1. SUFFICES ASSUME Pt(z, r, x) = f, Index(4, x) = i PROVE FALSE
        OBVIOUS
      <4>2. PageOf(z, r, x) = Down(z, f, i)
        BY <4>1 DEF PageOf
      <4>3. Down(z, f, i) = 0
        BY <1>11 DEF Down, None, Entry
      <4> QED BY <4>2, <4>3, <3>2, <3>4
    <3>7. PageOf(mem', r, x) = p
      BY <3>2, <3>3, <3>6
    <3>8. p # f /\ p \in 1 .. n
      BY <3>5, <1>6, <1>7, <1>2 DEF RoleOf
    <3>9. mem'[p] = mem[p]
      BY <3>8, <1>14
    <3> QED BY <3>4, <3>7, <3>9
  <2> QED BY <2>2, <2>3
<1>18. new \in FaultType /\ TaskOk(mem', o, t, r, wrote[t], new)
  <2>1. r = Unmapped => wrote[t] = {}
    BY <1>2 DEF TaskOk
  <2>2. CASE L = 4
    <3>1. new = NoFault
      BY <1>6, <2>2
    <3>2. NoFault \in FaultType /\ NoFault.level = 0 /\ NoFault.empty = FALSE
      BY DEF NoFault, FaultType, User
    <3> QED BY <3>1, <3>2, <2>1, <1>17 DEF TaskOk
  <2>3. CASE L # 4
    <3>1. L + 1 \in 0 .. 4 /\ L + 1 \in 1 .. 4 /\ g \in Nat
      BY <2>3, <1>2, <1>6
    <3> DEFINE lv == L + 1
    <3>2. new = [flt EXCEPT !.level = lv, !.table = g, !.empty = FALSE] /\ lv \in 0 .. 4 /\ lv > 0
      BY <3>1, <1>6, <2>3
    <3> HIDE DEF flt, lv, g
    <3>3. /\ new \in FaultType /\ new.level = lv /\ new.table = g /\ new.addr = flt.addr
          /\ new.empty = FALSE
      BY <3>1, <3>2, <1>2 DEF FaultType
    <3>4. o[g] = RoleOf(t, lv, Prefix(lv, flt.addr)) /\ g \in 1 .. Len(mem')
      BY <1>2, <1>10, <1>13 DEF g, lv, c
    <3> QED BY <3>2, <3>3, <3>4, <2>1, <1>17 DEF TaskOk
  <2> QED BY <2>2, <2>3
<1>19. \A u \in Task : TaskOk(mem', o, u, pgd'[u], wrote'[u], fault'[u])
  <2>1. fault'[t] = new /\ \A u \in Task : u # t => fault'[u] = fault[u]
    BY <1>2, <1>3 DEF TypeOK
  <2> QED BY <2>1, <1>3, <1>16, <1>18
<1>20. TypeOK'
  <2>1. fault' \in [Task -> [addr : User, level : 0 .. 4, table : Nat, empty : BOOLEAN]]
    BY <1>2, <1>3, <1>18 DEF TypeOK, FaultType
  <2> QED BY <2>1, <1>2, <1>3, <1>13 DEF TypeOK
<1>21. RoleInv(o)'
  BY <1>3, <1>13, <1>16, <1>19 DEF RoleInv
<1>22. ShadowInv'
  BY <1>3, <1>16 DEF ShadowInv
<1> QED BY <1>20, <1>21, <1>22 DEF SpacesInv

(* The steps of the virtual machine leave the tasks.                         *)
LEMMA TasksUntouched ==
    ASSUME SpacesInv, NEW own, RoleInv(own), NEW k, NEW o, MemInv(k), Len(k) >= Len(mem),
           Extends(mem, own, o), \A h \in 1 .. Len(mem) : own[h].who > 0 => k[h] = mem[h]
    PROVE  \A u \in Task : TaskOk(k, o, u, pgd[u], wrote[u], fault[u])
<1> SUFFICES ASSUME NEW u \in Task PROVE TaskOk(k, o, u, pgd[u], wrote[u], fault[u])
  OBVIOUS
<1>1. u \in Nat \ {0} /\ wrote[u] \subseteq User
      /\ fault[u] \in [addr : User, level : 0 .. 4, table : Nat, empty : BOOLEAN]
  BY SpacesAssumption DEF SpacesInv, TypeOK
<1>2. TaskOk(mem, own, u, pgd[u], wrote[u], fault[u])
  BY DEF RoleInv
<1>3. Same(mem, own, k, o, u)
  BY <1>1 DEF Same, SpacesInv, TypeOK, RoleInv
<1> QED BY <1>1, <1>2, <1>3, TaskKept

LEMMA GuestStarts ==
    ASSUME SpacesInv, alloc_guest_memory
    PROVE  SpacesInv'
<1>1. PICK own : RoleInv(own)
  BY DEF SpacesInv
<1> DEFINE n == Len(mem)
           N == GuestPages
           r == n + 1
           block == n + 2
           z == kmalloc(mem, 1 + N)
           o == [h \in 1 .. n + 1 + N |-> IF h <= n THEN own[h]
                                          ELSE IF h = r THEN RoleOf(EptSpace, 1, 0)
                                          ELSE RoleOf(EptSpace, 5, h - block)]
<1>2. /\ TypeOK /\ MemInv(mem) /\ Owned(mem, own) /\ n \in Nat /\ VmOk(mem, own, vm) /\ N \in 4 .. 8
      /\ vm \in VmType
  BY <1>1, SpacesAssumption DEF SpacesInv, TypeOK, RoleInv, MemInv, VmType
<1>3. /\ vm.state = "off"
      /\ mem' = map_guest_memory(z, r, 0, block, N)
      /\ vm' = [vm EXCEPT !.state = "boot", !.eptp = r,
                          !.given = [x \in Addr |-> IF x < N THEN block + x ELSE Unmapped]]
      /\ UNCHANGED <<kernel, pgd, wrote, fault, stale, left>>
  BY DEF alloc_guest_memory, taskVars
<1>4. vm.shadow = 0
  BY <1>2, <1>3 DEF VmOk
<1>5. /\ MemInv(z) /\ Len(z) = n + (1 + N)
      /\ \A f \in 1 .. n : z[f] = mem[f]
      /\ \A f \in n + 1 .. n + (1 + N) : z[f] = ZeroPage
  <2>1. 1 + N \in Nat
    BY <1>2
  <2> HIDE DEF N
  <2> QED BY <2>1, <1>2, Kmalloc
<1> HIDE DEF z
<1>6. own \in [1 .. n -> Role]
  BY <1>2 DEF Owned
<1>7. ASSUME NEW h \in n + 1 .. n + (1 + N)
      PROVE  /\ (IF h = r THEN RoleOf(EptSpace, 1, 0) ELSE RoleOf(EptSpace, 5, h - block)) \in Role
             /\ h # r => h - block \in Addr
             /\ z[h] = ZeroPage /\ ~ h <= n
  <2>1. h # r => h - block \in 0 .. 15
    BY <1>2
  <2>2. RoleOf(EptSpace, 1, 0) \in Role /\ \A a \in 0 .. 15 : RoleOf(EptSpace, 5, a) \in Role
    BY DEF RoleOf, Role, EptSpace
  <2>3. z[h] = ZeroPage /\ ~ h <= n
    BY <1>2, <1>5
  <2> HIDE DEF block, r
  <2> QED BY <2>1, <2>2, <2>3 DEF Addr
<1>8. \A h \in 1 .. n + 1 + N : h \in 1 .. n \/ h \in n + 1 .. n + (1 + N)
  BY <1>2
<1>9. o \in [1 .. n + 1 + N -> Role]
  <2> HIDE DEF r, block
  <2>1. ASSUME NEW h \in 1 .. n + 1 + N
        PROVE  (IF h <= n THEN own[h] ELSE IF h = r THEN RoleOf(EptSpace, 1, 0)
                ELSE RoleOf(EptSpace, 5, h - block)) \in Role
    <3>1. CASE h \in 1 .. n
      BY <3>1, <1>2, <1>6
    <3>2. CASE h \in n + 1 .. n + (1 + N)
      BY <3>2, <1>7
    <3> QED BY <3>1, <3>2, <1>8
  <2> QED BY <2>1
<1>10. Extends(mem, own, o)
  BY <1>2 DEF Extends
<1>11. o[r] = RoleOf(EptSpace, 1, 0) /\ r \in 1 .. Len(z) /\ z[r] = ZeroPage
  <2>1. r \in 1 .. n + 1 + N /\ ~ r <= n /\ r \in n + 1 .. n + (1 + N) /\ r \in 1 .. n + (1 + N)
    BY <1>2
  <2> QED BY <2>1, <1>5
<1>12. ASSUME NEW y \in 0 .. N - 1
       PROVE  block + y \in 1 .. Len(z) /\ o[block + y] = RoleOf(EptSpace, 5, y)
  <2>1. /\ block + y \in 1 .. n + 1 + N /\ ~ block + y <= n /\ block + y # r /\ (block + y) - block = y
        /\ block + y \in 1 .. n + (1 + N)
    BY <1>2
  <2> QED BY <2>1, <1>5
<1>13. Grown(mem, own, z, o)
  <2>1. ASSUME NEW h \in 1 .. Len(z), h > n
        PROVE  /\ o[h].level \in 1 .. 4 =>
                    \A j \in 0 .. 1 : z[h][j] = IF KernelHalf(o[h], j) THEN KernelLink ELSE None
               /\ o[h].who = EptSpace /\ o[h].level = 5 => z[h] \in GuestFrame /\ o[h].at \in Addr
    <3>1. h \in n + 1 .. n + (1 + N) /\ h \in 1 .. n + 1 + N
      BY <2>1, <1>2, <1>5
    <3>2. z[h] = ZeroPage /\ ~ h <= n /\ (h # r => h - block \in Addr)
      BY <3>1, <1>7
    <3>3. o[h] = IF h = r THEN RoleOf(EptSpace, 1, 0) ELSE RoleOf(EptSpace, 5, h - block)
      BY <3>1, <3>2
    <3> HIDE DEF o, r, block
    <3>4. o[h].who = EptSpace /\ (h = r => o[h].level = 1) /\ (h # r => o[h].level = 5 /\ o[h].at \in Addr)
      BY <3>2, <3>3 DEF RoleOf
    <3>5. \A j \in 0 .. 1 : z[h][j] = None /\ ~ KernelHalf(o[h], j)
      BY <3>2, <3>4 DEF ZeroPage, KernelHalf, EptSpace
    <3>6. z[h] \in GuestFrame
      BY <3>2 DEF GuestFrame, GuestWord, ZeroPage, None, Entry, Addr, Bits
    <3> QED BY <3>4, <3>5, <3>6
  <2>2. Len(z) >= n /\ o \in [1 .. Len(z) -> Role]
    <3>1. n + (1 + N) = n + 1 + N
      BY <1>2
    <3> HIDE DEF o
    <3> QED BY <3>1, <1>2, <1>5, <1>9
  <2> HIDE DEF o
  <2> QED BY <2>1, <2>2, <1>5, <1>10 DEF Grown
<1> HIDE DEF o, r, block
<1>14. Owned(z, o)
  BY <1>2, <1>13, Grow
<1>15. PICK o2 : GuestMapped(z, o, mem', o2, r, block, N)
  <2>1. \A y \in Addr : PageOf(z, r, y) = 0
    BY <1>11, EmptyRoot
  <2>2. N \in 0 .. 16 /\ block \in Nat
    BY <1>2 DEF block
  <2> HIDE DEF N
  <2>3. \E q : GuestMapped(z, o, map_guest_memory(z, r, 0, block, N), q, r, block, N)
    BY <2>1, <2>2, <1>5, <1>11, <1>12, <1>14, MapGuest
  <2> QED BY <2>3, <1>3
<1>16. /\ MemInv(mem') /\ Owned(mem', o2) /\ Len(mem') >= Len(z) /\ Extends(z, o, o2)
       /\ \A h \in 1 .. Len(z) : o[h].who # EptSpace \/ o[h].level = 5 => mem'[h] = z[h]
       /\ \A y \in Addr : PageOf(mem', r, y) = IF y < N THEN block + y ELSE 0
  BY <1>15, Zenon DEF GuestMapped
<1>17. Len(mem') \in Nat /\ Len(z) \in Nat /\ Len(z) >= n
  BY <1>2, <1>5, <1>16 DEF MemInv
<1>18. Len(mem') >= n /\ Extends(mem, own, o2)
  BY <1>2, <1>10, <1>16, <1>17 DEF Extends
<1>19. \A h \in 1 .. n : own[h].who > 0 => mem'[h] = mem[h]
  BY <1>2, <1>5, <1>10, <1>16, <1>17 DEF Extends, EptSpace
<1>20. \A u \in Task : TaskOk(mem', o2, u, pgd[u], wrote[u], fault[u])
  BY <1>1, <1>16, <1>18, <1>19, TasksUntouched
<1> DEFINE G == [x \in Addr |-> IF x < N THEN block + x ELSE Unmapped]
<1>21. r \in Nat /\ r # 0 /\ block \in Nat /\ G \in [Addr -> Nat \cup {Unmapped}]
  <2>1. r \in Nat /\ r # 0 /\ block \in Nat
    BY <1>2 DEF r, block
  <2>2. \A x \in Addr : block + x \in Nat
    BY <2>1 DEF Addr
  <2> QED BY <2>1, <2>2
<1>22. vm'.state = "boot" /\ vm'.eptp = r /\ vm'.shadow = 0 /\ vm'.given = G /\ vm' \in VmType
  <2> HIDE DEF G
  <2>1. vm' = [vm EXCEPT !.state = "boot", !.eptp = r, !.given = G]
    BY <1>3 DEF G
  <2> QED BY <2>1, <1>2, <1>4, <1>21 DEF VmType
<1>23. VmOk(mem', o2, vm')
  <2>1. r \in 1 .. Len(mem') /\ o2[r] = RoleOf(EptSpace, 1, 0)
    BY <1>11, <1>16, <1>17 DEF Extends
  <2>2. \A x \in Addr : block + x # 0
    BY <1>21 DEF Addr, block
  <2>3. \A x \in Addr : G[x] = IF PageOf(mem', r, x) = 0 THEN Unmapped ELSE PageOf(mem', r, x)
    BY <1>16, <2>2
  <2> HIDE DEF G
  <2> QED BY <2>1, <2>3, <1>21, <1>22 DEF VmOk
<1>24. TypeOK'
  BY <1>2, <1>3, <1>16, <1>22 DEF TypeOK, VmType
<1>25. RoleInv(o2)'
  BY <1>3, <1>16, <1>20, <1>23 DEF RoleInv
<1>26. ShadowInv'
  BY <1>22 DEF ShadowInv
<1> QED BY <1>24, <1>25, <1>26 DEF SpacesInv

(* What the steps of the machine know of the frames of L1.                   *)
LEMMA L1Memory ==
    ASSUME SpacesInv, NEW own, RoleInv(own), vm.eptp # 0
    PROVE  /\ EptGives(mem, own, vm) /\ L1Frames(mem) = vm.given
           /\ \A x \in Addr : /\ L1Page(x) = vm.given[x]
                              /\ vm.given[x] # Unmapped =>
                                   /\ vm.given[x] \in 1 .. Len(mem)
                                   /\ own[vm.given[x]] = RoleOf(EptSpace, 5, x)
           /\ GuestMem(mem, vm.given)
<1>1. MemInv(mem) /\ Owned(mem, own) /\ VmOk(mem, own, vm) /\ vm.given \in [Addr -> Nat \cup {Unmapped}]
  BY DEF SpacesInv, TypeOK, RoleInv
<1>2. EptGives(mem, own, vm)
  BY <1>1, EptFrames
<1>3. L1Frames(mem) = vm.given
  BY <1>2, Zenon DEF EptGives, L1Frames
<1>4. \A x \in Addr : vm.given[x] # Unmapped =>
        vm.given[x] \in 1 .. Len(mem) /\ own[vm.given[x]] = RoleOf(EptSpace, 5, x)
  BY <1>2, Zenon DEF EptGives
<1>5. GuestMem(mem, vm.given)
  BY <1>2, Zenon DEF EptGives
<1> QED BY <1>2, <1>3, <1>4, <1>5 DEF L1Page

(* Frames of the guest are frames of the memory.                             *)
LEMMA GuestFrames == GuestFrame \subseteq Frame
<1>1. GuestWord \subseteq Word
  BY DEF GuestWord, Word, Addr
<1> QED BY <1>1 DEF GuestFrame, Frame

LEMMA BootStep ==
    ASSUME SpacesInv, L1Boots
    PROVE  SpacesInv'
<1>1. PICK own : RoleInv(own)
  BY DEF SpacesInv
<1> DEFINE n == Len(mem)
<1>2. /\ TypeOK /\ MemInv(mem) /\ Owned(mem, own) /\ n \in Nat \ {0, 1} /\ VmOk(mem, own, vm)
      /\ mem \in [1 .. n -> Frame] /\ vm \in VmType
  BY <1>1 DEF SpacesInv, TypeOK, RoleInv, MemInv, VmType
<1>3. PICK g \in GuestTables :
        mem' = [f \in DOMAIN mem |-> LET at == {x \in DOMAIN g : L1Page(x) = f}
                                     IN  IF at = {} THEN mem[f] ELSE g[CHOOSE x \in at : TRUE]]
  BY DEF L1Boots
<1>4. /\ vm.state = "boot" /\ vm' = [vm EXCEPT !.state = "L1"]
      /\ UNCHANGED <<kernel, pgd, wrote, fault, stale, left>>
  BY DEF L1Boots, taskVars
<1>5. vm.eptp # 0 /\ vm.shadow = 0
  BY <1>2, <1>4 DEF VmOk
<1>6. \A x \in Addr : L1Page(x) # Unmapped => L1Page(x) \in 1 .. n /\ own[L1Page(x)] = RoleOf(EptSpace, 5, x)
  BY <1>1, <1>5, L1Memory
<1>7. DOMAIN g \subseteq Addr /\ \A x \in DOMAIN g : g[x] \in GuestFrame
  BY SpacesAssumption DEF GuestFrame
<1>8. ASSUME NEW f \in 1 .. n
      PROVE  mem'[f] \in Frame /\ (mem'[f] = mem[f] \/ (/\ own[f].who = EptSpace /\ own[f].level = 5
                                                        /\ mem'[f] \in GuestFrame))
  <2> DEFINE at == {x \in DOMAIN g : L1Page(x) = f}
  <2>1. mem'[f] = IF at = {} THEN mem[f] ELSE g[CHOOSE x \in at : TRUE]
    BY <1>2, <1>3
  <2>2. CASE at = {}
    BY <2>1, <2>2, <1>2
  <2>3. CASE at # {}
    <3> DEFINE y == CHOOSE x \in at : TRUE
    <3>1. y \in at
      <4> HIDE DEF at
      <4> QED BY <2>3
    <3> HIDE DEF y
    <3>2. y \in DOMAIN g /\ y \in Addr /\ L1Page(y) = f
      BY <3>1, <1>7
    <3>3. f # Unmapped
      BY DEF Unmapped
    <3>4. own[f] = RoleOf(EptSpace, 5, y)
      BY <3>2, <3>3, <1>6
    <3>5. own[f].who = EptSpace /\ own[f].level = 5
      BY <3>4 DEF RoleOf
    <3>6. mem'[f] = g[y] /\ g[y] \in GuestFrame
      BY <2>1, <2>3, <3>2, <1>7 DEF y
    <3> HIDE DEF at
    <3> QED BY <3>5, <3>6, GuestFrames
  <2> QED BY <2>2, <2>3
<1>9. mem' \in [1 .. n -> Frame]
  <2>1. mem' = [f \in 1 .. n |-> mem'[f]]
    BY <1>2, <1>3
  <2> QED BY <2>1, <1>8
<1>10. \A f \in 1 .. n : own[f].who # EptSpace \/ own[f].level # 5 => mem'[f] = mem[f]
  BY <1>8
<1>11. MemInv(mem') /\ Len(mem') = n
  <2>1. 1 \in 1 .. n /\ 2 \in 1 .. n /\ n \in Nat
    BY <1>2, TwoOrMore
  <2>2. own[1].level = 0 /\ own[2].level = 0
    BY <1>2 DEF Owned, RoleOf
  <2>3. mem'[1] = mem[1] /\ mem'[2] = mem[2]
    BY <2>1, <2>2, <1>10
  <2> HIDE DEF Frame
  <2> QED BY <2>1, <2>3, <1>2, <1>9, Memory
<1>12. Owned(mem', own) /\ Extends(mem, own, own)
  <2>1. \A f \in 1 .. n : own[f].level # 5 => mem'[f] = mem[f]
    BY <1>10
  <2>2. \A f \in 1 .. n : own[f].who = EptSpace /\ own[f].level = 5 => mem'[f] \in GuestFrame
    BY <1>2, <1>8 DEF Owned
  <2> QED BY <2>1, <2>2, <1>2, <1>11, PagesWritten
<1>13. \A u \in Task : TaskOk(mem', own, u, pgd[u], wrote[u], fault[u])
  <2>1. \A f \in 1 .. n : own[f].who > 0 => mem'[f] = mem[f]
    BY <1>10 DEF EptSpace
  <2> QED BY <2>1, <1>1, <1>2, <1>11, <1>12, TasksUntouched
<1>14. VmOk(mem', own, vm)
  BY <1>2, <1>10, <1>11, <1>12, VmKept
<1>15. /\ vm'.state = "L1" /\ vm'.eptp = vm.eptp /\ vm'.shadow = 0 /\ vm'.given = vm.given /\ vm'.ept12 = vm.ept12
       /\ vm' \in VmType
  BY <1>2, <1>4, <1>5 DEF VmType
<1>16. VmOk(mem', own, vm')
  BY <1>5, <1>14, <1>15 DEF VmOk
<1>17. TypeOK'
  BY <1>2, <1>4, <1>11, <1>15 DEF TypeOK, VmType
<1>18. RoleInv(own)'
  BY <1>4, <1>12, <1>13, <1>16 DEF RoleInv
<1>19. ShadowInv'
  BY <1>15 DEF ShadowInv
<1> QED BY <1>17, <1>18, <1>19 DEF SpacesInv

(* What the shadow's tables say is what the processor finds for L2.          *)
LEMMA L2Memory ==
    ASSUME SpacesInv, NEW own, RoleInv(own), vm.shadow # 0, NEW y \in Addr
    PROVE  LET p == PageOf(mem, vm.shadow, y) IN
           /\ p \in Nat /\ L2Page(y) = IF p = 0 THEN Unmapped ELSE p
           /\ vm.eptp # 0 /\ vm.shadow \in 1 .. Len(mem) /\ own[vm.shadow] = RoleOf(ShadowSpace, 1, 0)
<1>1. MemInv(mem) /\ Owned(mem, own) /\ VmOk(mem, own, vm)
  BY DEF SpacesInv, TypeOK, RoleInv
<1>2. vm.eptp # 0 /\ vm.shadow \in 1 .. Len(mem) /\ own[vm.shadow] = RoleOf(ShadowSpace, 1, 0)
  BY <1>1 DEF VmOk
<1> DEFINE r == vm.shadow
           p == PageOf(mem, r, y)
<1>3. ShadowSpace \in Int /\ ~ ShadowSpace > 0 /\ EPT_PRESENT \cap {"r", "w"} # {}
  BY DEF ShadowSpace, EPT_PRESENT, Bits
<1>4. r \in 1 .. Len(mem) /\ own[r] = RoleOf(ShadowSpace, 1, 0)
  BY <1>2
<1>5. L2Page(y) = Translate(mem, r, y, Here(mem), EPT_PRESENT)
  BY DEF L2Page
<1> HIDE DEF r
<1>6. Translate(mem, r, y, Here(mem), EPT_PRESENT) = IF p = 0 THEN Unmapped ELSE p
  BY <1>1, <1>3, <1>4, HostWalk
<1>7. p \in Nat
  BY <1>1, <1>3, <1>4, PathTyped
<1> QED BY <1>2, <1>5, <1>6, <1>7 DEF r

LEMMA WriteStep ==
    ASSUME SpacesInv, NEW x \in 1 .. 3, NEW i \in 0 .. 1, NEW w \in GuestWords, L1Writes(x, i, w)
    PROVE  SpacesInv'
<1>1. PICK own : RoleInv(own)
  BY DEF SpacesInv
<1> DEFINE n == Len(mem)
           f == vm.given[x]
<1>2. /\ TypeOK /\ MemInv(mem) /\ Owned(mem, own) /\ n \in Nat \ {0, 1} /\ VmOk(mem, own, vm)
      /\ vm \in VmType /\ vm.given \in [Addr -> Nat \cup {Unmapped}]
  BY <1>1 DEF SpacesInv, TypeOK, RoleInv, MemInv, VmType
<1>3. /\ vm.state = "L1" /\ left.write > 0 /\ L1Page(x) # Unmapped
      /\ mem' = [mem EXCEPT ![L1Page(x)][i] = w]
      /\ stale' = stale \cup Outdated(mem', vm.ept12)
      /\ left' = [left EXCEPT !.write = @ - 1]
      /\ UNCHANGED <<kernel, pgd, wrote, fault, vm>>
  BY DEF L1Writes, taskVars
<1>4. vm.eptp # 0 /\ x \in Addr /\ w \in GuestWord
  BY <1>2, <1>3, SpacesAssumption DEF VmOk, Addr
<1>5. L1Page(x) = f /\ f \in 1 .. n /\ own[f] = RoleOf(EptSpace, 5, x)
  BY <1>1, <1>3, <1>4, L1Memory
<1> HIDE DEF f
<1>6. own[f].who = EptSpace /\ own[f].level = 5 /\ mem[f] \in GuestFrame
  BY <1>2, <1>5 DEF RoleOf, Owned
<1>7. f \in 3 .. n
  <2>1. own[1].level = 0 /\ own[2].level = 0
    BY <1>2 DEF Owned, RoleOf
  <2> QED BY <2>1, <1>2, <1>5, <1>6
<1>8. w \in Word
  BY <1>4 DEF GuestWord, Word, Addr
<1>9. /\ MemInv(mem') /\ Len(mem') = n
      /\ \A h \in 1 .. n : h # f => mem'[h] = mem[h]
      /\ mem'[f] \in GuestFrame
  <2>1. LET k == [mem EXCEPT ![f][i] = w] IN
         /\ MemInv(k) /\ Len(k) = n /\ DOMAIN k = 1 .. n
         /\ \A h \in 1 .. n : h # f => k[h] = mem[h]
         /\ k[f] \in Frame /\ \A j \in 0 .. 1 : k[f][j] = IF j = i THEN w ELSE mem[f][j]
    <3>1. MemInv(mem) /\ f \in 3 .. Len(mem) /\ i \in 0 .. 1 /\ w \in Word
      BY <1>2, <1>7, <1>8
    <3> QED BY <3>1, Written
  <2>2. mem' = [mem EXCEPT ![f][i] = w]
    BY <1>3, <1>5
  <2>3. mem'[f] \in Frame /\ \A j \in 0 .. 1 : mem'[f][j] = IF j = i THEN w ELSE mem[f][j]
    BY <2>1, <2>2, Zenon
  <2>4. \A j \in 0 .. 1 : mem'[f][j] \in GuestWord
    BY <2>3, <1>4, <1>6 DEF GuestFrame
  <2>5. mem'[f] \in GuestFrame
    BY <2>3, <2>4 DEF GuestFrame, Frame
  <2> QED BY <2>1, <2>2, <2>5
<1>10. Owned(mem', own) /\ Extends(mem, own, own)
  <2>1. \A h \in 1 .. n : own[h].level # 5 => mem'[h] = mem[h]
    BY <1>6, <1>9
  <2>2. \A h \in 1 .. n : own[h].who = EptSpace /\ own[h].level = 5 => mem'[h] \in GuestFrame
    BY <1>2, <1>9 DEF Owned
  <2> QED BY <2>1, <2>2, <1>2, <1>9, PagesWritten
<1>11. \A u \in Task : TaskOk(mem', own, u, pgd[u], wrote[u], fault[u])
  <2>1. \A h \in 1 .. n : own[h].who > 0 => mem'[h] = mem[h]
    BY <1>6, <1>9 DEF EptSpace
  <2> QED BY <2>1, <1>1, <1>2, <1>9, <1>10, TasksUntouched
<1>12. VmOk(mem', own, vm)
  <2>1. \A h \in 1 .. n : own[h].who = EptSpace /\ own[h].level \in 1 .. 4 => mem'[h] = mem[h]
    BY <1>6, <1>9
  <2> QED BY <2>1, <1>2, <1>9, <1>10, VmKept
<1>13. L1Frames(mem') = vm.given
  <2>1. EptGives(mem', own, vm)
    BY <1>2, <1>4, <1>9, <1>10, <1>12, EptFrames
  <2> QED BY <2>1, Zenon DEF EptGives, L1Frames
<1>14. ASSUME vm.shadow # 0
       PROVE  ShadowOk(mem', vm.shadow, vm.ept12, vm.given, stale')
  <2> SUFFICES ASSUME NEW y \in Addr, PageOf(mem', vm.shadow, y) # 0
               PROVE  /\ \E a \in Addr : vm.given[a] = PageOf(mem', vm.shadow, y)
                      /\ \/ y \in stale' \/ 3 \in Leaf(mem', vm.ept12, y, vm.given, EPT_PRESENT)
                         \/ PageOf(mem', vm.shadow, y) = Through(mem', vm.ept12, vm.given, y)
    BY DEF ShadowOk
  <2> DEFINE p == PageOf(mem, vm.shadow, y)
  <2>1. /\ p \in Nat /\ L2Page(y) = IF p = 0 THEN Unmapped ELSE p
        /\ vm.shadow \in 1 .. n /\ own[vm.shadow] = RoleOf(ShadowSpace, 1, 0)
    BY <1>1, <1>14, L2Memory
  <2>2. PageOf(mem', vm.shadow, y) = p
    <3>1. \A h \in 1 .. n : own[h].who = ShadowSpace /\ own[h].level \in 1 .. 4 => mem'[h] = mem[h]
      BY <1>6, <1>9
    <3>2. ShadowSpace \in Int /\ ~ ShadowSpace > 0
      BY DEF ShadowSpace
    <3> QED BY <2>1, <3>1, <3>2, <1>2, SamePath
  <2>3. \E a \in Addr : vm.given[a] = p
    BY <2>2, <1>14 DEF SpacesInv, ShadowInv, ShadowOk
  <2> HIDE DEF p
  <2>4. L2Page(y) = p /\ p # Unmapped
    BY <2>1, <2>2 DEF Unmapped
  <2>5. y \notin stale' => Composed(mem', vm.ept12, y) = p
    BY <2>4, <1>3, <1>14 DEF Outdated
  <2>6. Composed(mem', vm.ept12, y) = Through(mem', vm.ept12, vm.given, y)
    BY <1>13, Zenon DEF Composed, Through
  <2> QED BY <2>2, <2>3, <2>5, <2>6
<1>15. TypeOK'
  <2>1. left' \in [vm : BOOLEAN, touch : Nat, l1 : Nat, write : Nat, l2 : Nat]
    <3>1. left \in [vm : BOOLEAN, touch : Nat, l1 : Nat, write : Nat, l2 : Nat] /\ left.write - 1 \in Nat
      BY <1>2, <1>3 DEF TypeOK
    <3> QED BY <3>1, <1>3
  <2>2. stale' \subseteq Addr
    BY <1>2, <1>3 DEF TypeOK, Outdated
  <2> QED BY <2>1, <2>2, <1>2, <1>3, <1>9 DEF TypeOK
<1>16. RoleInv(own)'
  BY <1>3, <1>10, <1>11, <1>12 DEF RoleInv
<1>17. ShadowInv'
  BY <1>3, <1>14 DEF ShadowInv
<1> QED BY <1>15, <1>16, <1>17 DEF SpacesInv

(* Another root for L2's tables: what the shadow has of the one before stays. *)
LEMMA RootStep ==
    ASSUME SpacesInv, NEW root \in GuestRoots, L1SetsRoot(root)
    PROVE  SpacesInv'
<1>1. PICK own : RoleInv(own)
  BY DEF SpacesInv
<1>2. /\ TypeOK /\ VmOk(mem, own, vm) /\ vm \in VmType
  BY <1>1 DEF SpacesInv, TypeOK, RoleInv, VmType
<1>3. /\ vm.state = "L1" /\ left.write > 0 /\ vm' = [vm EXCEPT !.ept12 = root]
      /\ stale' = stale \cup Outdated(mem, root) /\ left' = [left EXCEPT !.write = @ - 1]
      /\ UNCHANGED <<mem, kernel, pgd, wrote, fault>>
  BY DEF L1SetsRoot, taskVars
<1>4. /\ vm'.state = vm.state /\ vm'.eptp = vm.eptp /\ vm'.shadow = vm.shadow /\ vm'.given = vm.given
      /\ vm'.ept12 = root /\ vm' \in VmType
  <2>1. root \in Addr
    BY SpacesAssumption
  <2> QED BY <2>1, <1>2, <1>3 DEF VmType
<1>5. VmOk(mem, own, vm')
  BY <1>2, <1>4 DEF VmOk
<1>6. TypeOK'
  <2>1. left' \in [vm : BOOLEAN, touch : Nat, l1 : Nat, write : Nat, l2 : Nat]
    <3>1. left \in [vm : BOOLEAN, touch : Nat, l1 : Nat, write : Nat, l2 : Nat] /\ left.write - 1 \in Nat
      BY <1>2, <1>3 DEF TypeOK
    <3> QED BY <3>1, <1>3
  <2>2. stale' \subseteq Addr
    BY <1>2, <1>3 DEF TypeOK, Outdated
  <2> QED BY <2>1, <2>2, <1>2, <1>3, <1>4 DEF TypeOK, VmType
<1>7. RoleInv(own)'
  BY <1>1, <1>3, <1>5 DEF RoleInv
<1>8. ASSUME vm.shadow # 0
      PROVE  ShadowOk(mem, vm.shadow, root, vm.given, stale')
  <2> SUFFICES ASSUME NEW y \in Addr, PageOf(mem, vm.shadow, y) # 0
               PROVE  /\ \E a \in Addr : vm.given[a] = PageOf(mem, vm.shadow, y)
                      /\ \/ y \in stale' \/ 3 \in Leaf(mem, root, y, vm.given, EPT_PRESENT)
                         \/ PageOf(mem, vm.shadow, y) = Through(mem, root, vm.given, y)
    BY DEF ShadowOk
  <2> DEFINE p == PageOf(mem, vm.shadow, y)
  <2>1. p \in Nat /\ (L2Page(y) = IF p = 0 THEN Unmapped ELSE p) /\ vm.eptp # 0
    BY <1>1, <1>8, L2Memory
  <2>2. \E a \in Addr : vm.given[a] = p
    BY <1>8 DEF SpacesInv, ShadowInv, ShadowOk
  <2> HIDE DEF p
  <2>3. L2Page(y) = p /\ p # Unmapped
    BY <2>1 DEF Unmapped, p
  <2>4. y \notin stale' => Composed(mem, root, y) = p
    BY <2>3, <1>3, <1>8 DEF Outdated
  <2>5. L1Frames(mem) = vm.given
    BY <2>1, <1>1, L1Memory
  <2>6. Composed(mem, root, y) = Through(mem, root, vm.given, y)
    BY <2>5, Zenon DEF Composed, Through
  <2> QED BY <2>2, <2>4, <2>6 DEF p
<1>9. ShadowInv'
  BY <1>3, <1>4, <1>8 DEF ShadowInv
<1> QED BY <1>6, <1>7, <1>9 DEF SpacesInv

LEMMA PageStep ==
    ASSUME SpacesInv, NEW x \in Addr, vmx_handle_ept_volation(x)
    PROVE  SpacesInv'
<1>1. PICK own : RoleInv(own)
  BY DEF SpacesInv
<1> DEFINE n == Len(mem)
           g == n + 1
           r == vm.eptp
           c == RoleOf(EptSpace, 5, x)
<1>2. /\ TypeOK /\ MemInv(mem) /\ Owned(mem, own) /\ n \in Nat /\ VmOk(mem, own, vm)
      /\ vm \in VmType /\ vm.given \in [Addr -> Nat \cup {Unmapped}]
  BY <1>1 DEF SpacesInv, TypeOK, RoleInv, MemInv, VmType
<1>a. PICK word \in GuestWords : mem' = ept_map_page(Append(mem, [i \in 0 .. 1 |-> word]), r, x, g)
  BY DEF vmx_handle_ept_volation
<1> DEFINE page == [i \in 0 .. 1 |-> word]
           z == Append(mem, page)
<1>3. /\ vm.state = "L1" /\ left.l1 > 0 /\ L1Page(x) = Unmapped
      /\ mem' = ept_map_page(z, r, x, g)
      /\ vm' = [vm EXCEPT !.given[x] = g]
      /\ left' = [left EXCEPT !.l1 = @ - 1]
      /\ UNCHANGED <<kernel, pgd, wrote, fault, stale>>
  BY <1>a DEF vmx_handle_ept_volation, taskVars
<1>4. r # 0
  BY <1>2, <1>3 DEF VmOk
<1>5. /\ vm.given[x] = Unmapped /\ GuestMem(mem, vm.given)
      /\ \A a \in Addr : vm.given[a] # Unmapped =>
           vm.given[a] \in 1 .. n /\ own[vm.given[a]] = RoleOf(EptSpace, 5, a)
  BY <1>1, <1>3, <1>4, L1Memory
<1>6. page \in GuestFrame /\ page \in Frame
  <2>1. word \in GuestWord
    BY SpacesAssumption
  <2>2. page \in GuestFrame
    BY <2>1 DEF GuestFrame
  <2> QED BY <2>2, GuestFrames
<1> HIDE DEF page
<1>7. /\ MemInv(z) /\ Len(z) = n + 1
      /\ \A f \in 1 .. n : z[f] = mem[f]
      /\ z[n + 1] = page
  BY <1>2, <1>6, Appended
<1> HIDE DEF z
<1>8. NewFrame(mem, z, c)
  <2>1. c \in Role /\ c.who = EptSpace /\ c.level = 5 /\ c.at = x
    BY DEF RoleOf, Role, EptSpace, Addr
  <2> QED BY <2>1, <1>6, <1>7 DEF NewFrame
<1>9. PICK o : Owned(z, o) /\ Extends(mem, own, o) /\ o[n + 1] = c
  BY <1>2, <1>8, GrowOne
<1>10. /\ EptSpace \in Int /\ ~ EptSpace > 0 /\ EptSpace \in {EptSpace, ShadowSpace}
       /\ EptSpace # ShadowSpace
  BY DEF EptSpace, ShadowSpace
<1>11. /\ r \in 1 .. n /\ own[r] = RoleOf(EptSpace, 1, 0)
       /\ \A y \in Addr : vm.given[y] = IF PageOf(mem, r, y) = 0 THEN Unmapped ELSE PageOf(mem, r, y)
  BY <1>2, <1>4 DEF VmOk
<1>12. r \in 1 .. Len(z) /\ o[r] = RoleOf(EptSpace, 1, 0) /\ g \in 1 .. Len(z)
  BY <1>2, <1>7, <1>9, <1>11 DEF Extends
<1>13. \A y \in Addr : PageOf(z, r, y) = PageOf(mem, r, y)
  <2> TAKE y \in Addr
  <2>1. \A h \in 1 .. n : own[h].who = EptSpace /\ own[h].level \in 1 .. 4 => z[h] = mem[h]
    BY <1>7
  <2> HIDE DEF r
  <2> QED BY <2>1, <1>2, <1>10, <1>11, SamePath
<1>14. PageOf(mem, r, x) = 0
  <2>1. PageOf(mem, r, x) \in Nat
    <3> HIDE DEF r
    <3> QED BY <1>2, <1>10, <1>11, PathTyped
  <2> QED BY <2>1, <1>5, <1>11 DEF Unmapped
<1> HIDE DEF r, g
<1>15. PICK o2 : EptMapped(z, o, mem', o2, EptSpace, r, x, g)
  <2>1. PageOf(z, r, x) = 0
    BY <1>13, <1>14
  <2>2. o[g] = RoleOf(EptSpace, 5, x) /\ o[g].who = EptSpace /\ o[g].level = 5
    BY <1>9 DEF g, RoleOf
  <2>3. \E q : EptMapped(z, o, ept_map_page(z, r, x, g), q, EptSpace, r, x, g)
    <3> HIDE DEF c
    <3> QED BY <2>1, <2>2, <1>7, <1>9, <1>10, <1>12, EptMap
  <2> QED BY <2>3, <1>3
<1>16. /\ MemInv(mem') /\ Owned(mem', o2) /\ Len(mem') >= Len(z) /\ Extends(z, o, o2)
       /\ \A h \in 1 .. Len(z) : o[h].who # EptSpace \/ o[h].level = 5 => mem'[h] = z[h]
       /\ \A y \in Addr : PageOf(mem', r, y) = IF y = x THEN g ELSE PageOf(z, r, y)
  BY <1>15, Zenon DEF EptMapped
<1>17. Len(mem') \in Nat /\ Len(mem') >= n /\ Extends(mem, own, o2)
  BY <1>2, <1>7, <1>9, <1>16 DEF Extends, MemInv
<1>18. \A h \in 1 .. n : own[h].who # EptSpace \/ own[h].level = 5 => mem'[h] = mem[h]
  BY <1>2, <1>7, <1>9, <1>16 DEF Extends
<1>19. \A u \in Task : TaskOk(mem', o2, u, pgd[u], wrote[u], fault[u])
  <2>1. \A h \in 1 .. n : own[h].who > 0 => mem'[h] = mem[h]
    BY <1>18 DEF EptSpace
  <2> QED BY <2>1, <1>1, <1>16, <1>17, TasksUntouched
<1>20. g \in Nat /\ g # 0 /\ g # Unmapped
  BY <1>2 DEF g, Unmapped
<1>21. /\ vm'.state = "L1" /\ vm'.eptp = r /\ vm'.shadow = vm.shadow /\ vm'.ept12 = vm.ept12 /\ vm' \in VmType
       /\ vm'.given \in [Addr -> Nat \cup {Unmapped}]
       /\ \A y \in Addr : vm'.given[y] = IF y = x THEN g ELSE vm.given[y]
  <2> DEFINE G == [vm.given EXCEPT ![x] = g]
  <2>1. G \in [Addr -> Nat \cup {Unmapped}] /\ \A y \in Addr : G[y] = IF y = x THEN g ELSE vm.given[y]
    BY <1>2, <1>20
  <2>2. vm' = [vm EXCEPT !.given = G]
    BY <1>3
  <2> HIDE DEF G
  <2> QED BY <2>1, <2>2, <1>2, <1>3 DEF VmType, r
<1>22. VmOk(mem', o2, vm')
  <2>1. r \in 1 .. Len(mem') /\ o2[r] = RoleOf(EptSpace, 1, 0)
    BY <1>2, <1>11, <1>17 DEF Extends
  <2>2. ASSUME NEW y \in Addr
        PROVE  vm'.given[y] = IF PageOf(mem', r, y) = 0 THEN Unmapped ELSE PageOf(mem', r, y)
    BY <1>11, <1>13, <1>16, <1>20, <1>21
  <2>3. vm.shadow # 0 => vm.shadow \in 1 .. Len(mem') /\ o2[vm.shadow] = RoleOf(ShadowSpace, 1, 0)
    BY <1>2, <1>17 DEF VmOk, Extends
  <2>4. r # 0
    BY <1>4 DEF r
  <2> QED BY <2>1, <2>2, <2>3, <2>4, <1>21, Zenon DEF VmOk
<1>23. ASSUME vm.shadow # 0
       PROVE  ShadowOk(mem', vm.shadow, vm.ept12, vm'.given, stale)
  <2>1. GuestMem(mem', vm'.given)
    <3>1. EptGives(mem', o2, vm')
      <4>1. vm'.eptp # 0
        BY <1>4, <1>21 DEF r
      <4> QED BY <4>1, <1>16, <1>21, <1>22, EptFrames
    <3> QED BY <3>1, Zenon DEF EptGives
  <2>2. ASSUME NEW a \in Addr, vm.given[a] # Unmapped
        PROVE  vm'.given[a] = vm.given[a] /\ mem'[vm.given[a]] = mem[vm.given[a]]
    <3>1. a # x
      BY <2>2, <1>5
    <3>2. vm.given[a] \in 1 .. n /\ own[vm.given[a]].level = 5
      <4>1. vm.given[a] \in 1 .. n /\ own[vm.given[a]] = RoleOf(EptSpace, 5, a)
        BY <2>2, <1>5
      <4> QED BY <4>1 DEF RoleOf
    <3> QED BY <3>1, <3>2, <1>18, <1>21
  <2>3. Keeps(mem, vm.given, mem', vm'.given)
    BY <2>1, <2>2, <1>5 DEF Keeps
  <2>4. Same(mem, own, mem', o2, ShadowSpace)
    BY <1>2, <1>10, <1>16, <1>17, <1>18 DEF Same
  <2>5. ShadowOk(mem, vm.shadow, vm.ept12, vm.given, stale)
    BY <1>23 DEF SpacesInv, ShadowInv
  <2>6. vm.shadow \in 1 .. n /\ own[vm.shadow] = RoleOf(ShadowSpace, 1, 0)
    BY <1>2, <1>23 DEF VmOk
  <2>7. vm.ept12 \in Addr
    BY <1>2 DEF VmType
  <2> QED BY <2>3, <2>4, <2>5, <2>6, <2>7, ShadowKept
<1>24. TypeOK'
  <2>1. left' \in [vm : BOOLEAN, touch : Nat, l1 : Nat, write : Nat, l2 : Nat]
    <3>1. left \in [vm : BOOLEAN, touch : Nat, l1 : Nat, write : Nat, l2 : Nat] /\ left.l1 - 1 \in Nat
      BY <1>2, <1>3 DEF TypeOK
    <3> QED BY <3>1, <1>3
  <2> QED BY <2>1, <1>2, <1>3, <1>16, <1>21 DEF TypeOK, VmType
<1>25. RoleInv(o2)'
  BY <1>3, <1>16, <1>19, <1>22 DEF RoleInv
<1>26. ShadowInv'
  BY <1>3, <1>21, <1>23 DEF ShadowInv
<1> QED BY <1>24, <1>25, <1>26 DEF SpacesInv

LEMMA RunStep ==
    ASSUME SpacesInv, nested_vmx_run
    PROVE  SpacesInv'
<1>1. PICK own : RoleInv(own)
  BY DEF SpacesInv
<1> DEFINE n == Len(mem)
           s == n + 1
           c == RoleOf(ShadowSpace, 1, 0)
           z == kmalloc(mem, 1)
<1>2. /\ TypeOK /\ MemInv(mem) /\ Owned(mem, own) /\ n \in Nat /\ VmOk(mem, own, vm)
      /\ vm \in VmType /\ vm.given \in [Addr -> Nat \cup {Unmapped}]
  BY <1>1 DEF SpacesInv, TypeOK, RoleInv, MemInv, VmType
<1>3. /\ vm.state = "L1"
      /\ UNCHANGED <<kernel, pgd, wrote, fault, stale, left>>
  BY DEF nested_vmx_run, taskVars
<1>4. vm.eptp # 0
  BY <1>2, <1>3 DEF VmOk
<1>5. CASE vm.shadow # 0
  <2>1. mem' = mem /\ vm' = [vm EXCEPT !.state = "L2"]
    BY <1>5 DEF nested_vmx_run
  <2>2. /\ vm'.state = "L2" /\ vm'.eptp = vm.eptp /\ vm'.shadow = vm.shadow /\ vm'.given = vm.given /\ vm'.ept12 = vm.ept12
        /\ vm' \in VmType
    BY <2>1, <1>2 DEF VmType
  <2>3. VmOk(mem, own, vm')
    BY <2>2, <1>2, <1>4, <1>5 DEF VmOk
  <2>4. TypeOK'
    BY <2>1, <2>2, <1>2, <1>3 DEF TypeOK, VmType
  <2>5. RoleInv(own)'
    BY <2>1, <2>3, <1>1, <1>3 DEF RoleInv
  <2>6. ShadowInv'
    BY <2>1, <2>2, <1>3 DEF SpacesInv, ShadowInv
  <2> QED BY <2>4, <2>5, <2>6 DEF SpacesInv
<1>6. CASE vm.shadow = 0
  <2>1. mem' = z /\ vm' = [vm EXCEPT !.state = "L2", !.shadow = s]
    BY <1>6 DEF nested_vmx_run
  <2>2. /\ MemInv(z) /\ Len(z) = n + 1
        /\ \A f \in 1 .. n : z[f] = mem[f]
        /\ z[n + 1] = ZeroPage
    <3>1. LET k == kmalloc(mem, 1) IN
            /\ MemInv(k) /\ Len(k) = n + 1 /\ DOMAIN k = 1 .. n + 1
            /\ \A h \in 1 .. n : k[h] = mem[h]
            /\ \A h \in n + 1 .. n + 1 : k[h] = ZeroPage
      <4>1. MemInv(mem) /\ 1 \in Nat
        BY <1>2
      <4> QED BY <4>1, Kmalloc
    <3>2. n + 1 \in n + 1 .. n + 1
      BY <1>2
    <3> QED BY <3>1, <3>2
  <2> HIDE DEF z
  <2>3. NewFrame(mem, z, c)
    <3>1. c \in Role /\ c.who = ShadowSpace /\ c.level = 1
      BY DEF RoleOf, Role, ShadowSpace
    <3>2. \A j \in 0 .. 1 : z[n + 1][j] = None /\ ~ KernelHalf(c, j)
      BY <3>1, <2>2 DEF ZeroPage, KernelHalf, ShadowSpace
    <3>3. c.who # EptSpace
      BY <3>1 DEF ShadowSpace, EptSpace
    <3> HIDE DEF c
    <3> QED BY <3>1, <3>2, <3>3, <2>2 DEF NewFrame
  <2>4. PICK o : Owned(z, o) /\ Extends(mem, own, o) /\ o[n + 1] = c
    BY <2>3, <1>2, GrowOne
  <2>5. \A u \in Task : TaskOk(z, o, u, pgd[u], wrote[u], fault[u])
    <3>1. Len(z) >= n
      BY <2>2, <1>2
    <3> QED BY <3>1, <2>2, <2>4, <1>1, TasksUntouched
  <2>6. VmOk(z, o, vm)
    <3>1. Len(z) >= n
      BY <2>2, <1>2
    <3> QED BY <3>1, <2>2, <2>4, <1>2, VmKept
  <2>7. s \in Nat /\ s # 0 /\ s \in 1 .. Len(z)
    BY <2>2, <1>2
  <2> HIDE DEF s
  <2>8. /\ vm'.state = "L2" /\ vm'.eptp = vm.eptp /\ vm'.shadow = s /\ vm'.given = vm.given /\ vm'.ept12 = vm.ept12
        /\ vm' \in VmType
    BY <2>1, <2>7, <1>2 DEF VmType
  <2>9. VmOk(z, o, vm')
    <3>1. o[s] = RoleOf(ShadowSpace, 1, 0)
      BY <2>4 DEF s
    <3> QED BY <3>1, <2>6, <2>7, <2>8, <1>4 DEF VmOk
  <2>10. ShadowOk(z, s, vm.ept12, vm.given, stale)
    <3>1. z[s] = ZeroPage
      BY <2>2 DEF s
    <3>2. \A x \in Addr : PageOf(z, s, x) = 0
      BY <3>1, EmptyRoot
    <3> QED BY <3>2 DEF ShadowOk
  <2>11. TypeOK'
    BY <2>1, <2>2, <2>8, <1>2, <1>3 DEF TypeOK, VmType
  <2>12. RoleInv(o)'
    BY <2>1, <2>4, <2>5, <2>9, <1>3 DEF RoleInv
  <2>13. ShadowInv'
    BY <2>1, <2>8, <2>10, <1>3 DEF ShadowInv
  <2> QED BY <2>11, <2>12, <2>13 DEF SpacesInv
<1> QED BY <1>5, <1>6

LEMMA ExitStep ==
    ASSUME SpacesInv, nested_vmx_vmexit
    PROVE  SpacesInv'
<1>1. PICK own : RoleInv(own)
  BY DEF SpacesInv
<1>2. /\ TypeOK /\ VmOk(mem, own, vm) /\ vm \in VmType
  BY <1>1 DEF SpacesInv, TypeOK, RoleInv, VmType
<1>3. /\ vm.state = "L2" /\ vm' = [vm EXCEPT !.state = "L1"]
      /\ UNCHANGED <<mem, kernel, pgd, wrote, fault, stale, left>>
  BY DEF nested_vmx_vmexit, taskVars
<1>4. /\ vm'.state = "L1" /\ vm'.eptp = vm.eptp /\ vm'.shadow = vm.shadow /\ vm'.given = vm.given /\ vm'.ept12 = vm.ept12
      /\ vm' \in VmType
  BY <1>2, <1>3 DEF VmType
<1>5. VmOk(mem, own, vm')
  BY <1>2, <1>3, <1>4 DEF VmOk
<1>6. TypeOK'
  BY <1>2, <1>3, <1>4 DEF TypeOK, VmType
<1>7. RoleInv(own)'
  BY <1>1, <1>3, <1>5 DEF RoleInv
<1>8. ShadowInv'
  BY <1>3, <1>4 DEF SpacesInv, ShadowInv
<1> QED BY <1>6, <1>7, <1>8 DEF SpacesInv

(* The shadow gets the page that both tables give.                           *)
LEMMA ShadowStep ==
    ASSUME SpacesInv, NEW x \in Addr, nested_vmx_handle_ept_volation(x)
    PROVE  SpacesInv'
<1>1. PICK own : RoleInv(own)
  BY DEF SpacesInv
<1> DEFINE n == Len(mem)
           s == vm.shadow
           tr == vm.given
           e == vm.ept12
           l1gpa == nested_ept_l2gpa_to_l1gpa(mem, vm.eptp, vm.ept12, x)
           hpa == IF l1gpa = Unmapped THEN Unmapped ELSE Gpa(mem, l1gpa)
<1>2. /\ TypeOK /\ MemInv(mem) /\ Owned(mem, own) /\ n \in Nat /\ VmOk(mem, own, vm)
      /\ vm \in VmType /\ tr \in [Addr -> Nat \cup {Unmapped}]
  BY <1>1 DEF SpacesInv, TypeOK, RoleInv, MemInv, VmType
<1>3. /\ vm.state = "L2" /\ left.l2 > 0 /\ L2Page(x) = Unmapped
      /\ IF hpa = Unmapped
         THEN vm' = [vm EXCEPT !.state = "stopped"] /\ mem' = mem
         ELSE mem' = ept_map_page(mem, s, x, hpa) /\ vm' = vm
      /\ left' = [left EXCEPT !.l2 = @ - 1]
      /\ UNCHANGED <<kernel, pgd, wrote, fault, stale>>
  BY DEF nested_vmx_handle_ept_volation, taskVars
<1>4. s # 0
  BY <1>2, <1>3 DEF VmOk
<1>5. /\ vm.eptp # 0 /\ s \in 1 .. n /\ own[s] = RoleOf(ShadowSpace, 1, 0)
      /\ PageOf(mem, s, x) = 0
  <2>1. LET p == PageOf(mem, s, x) IN
          /\ p \in Nat /\ L2Page(x) = IF p = 0 THEN Unmapped ELSE p
          /\ vm.eptp # 0 /\ s \in 1 .. n /\ own[s] = RoleOf(ShadowSpace, 1, 0)
    BY <1>1, <1>4, L2Memory
  <2> QED BY <2>1, <1>3 DEF Unmapped
<1>6. /\ EptGives(mem, own, vm) /\ GuestMem(mem, tr)
      /\ \A a \in Addr : tr[a] # Unmapped => tr[a] \in 1 .. n /\ own[tr[a]] = RoleOf(EptSpace, 5, a)
  BY <1>1, <1>5, L1Memory
<1>7. left' \in [vm : BOOLEAN, touch : Nat, l1 : Nat, write : Nat, l2 : Nat]
  <2>1. left \in [vm : BOOLEAN, touch : Nat, l1 : Nat, write : Nat, l2 : Nat] /\ left.l2 - 1 \in Nat
    BY <1>2, <1>3 DEF TypeOK
  <2> QED BY <2>1, <1>3
<1>8. ShadowOk(mem, s, e, tr, stale)
  BY <1>4 DEF SpacesInv, ShadowInv
<1>9. e \in Addr
  BY <1>2 DEF VmType
<1>10. l1gpa = Walk(mem, e, x, tr, EPT_PRESENT)
  <2>1. Frames(mem, vm.eptp) = tr
    BY <1>6, Zenon DEF EptGives
  <2> QED BY <2>1, Zenon DEF nested_ept_l2gpa_to_l1gpa
<1>11. /\ 3 \notin Leaf(mem, e, x, tr, EPT_PRESENT) => l1gpa = Translate(mem, e, x, tr, EPT_PRESENT)
       /\ l1gpa \in Addr \cup {Unmapped}
  <2> DEFINE T == Translate(mem, e, x, tr, EPT_PRESENT)
             W == Walk(mem, e, x, tr, EPT_PRESENT)
  <2>1. (3 \notin Leaf(mem, e, x, tr, EPT_PRESENT) => W = T) /\ W \in Addr \cup {Unmapped}
    BY <1>6, <1>9, GuestWalk
  <2> QED BY <2>1, <1>10, Zenon
<1>12. l1gpa # Unmapped => Gpa(mem, l1gpa) = tr[l1gpa]
  <2>1. \A a \in Addr : ept_gpa_to_hpa(mem, vm.eptp, a) = tr[a]
    BY <1>6, Zenon DEF EptGives
  <2> HIDE DEF l1gpa
  <2> QED BY <2>1, <1>11 DEF Gpa
<1> HIDE DEF l1gpa, hpa, s, tr, e
<1>13. CASE hpa = Unmapped
  <2>1. mem' = mem /\ vm' = [vm EXCEPT !.state = "stopped"]
    BY <1>3, <1>13
  <2>2. /\ vm'.state = "stopped" /\ vm'.eptp = vm.eptp /\ vm'.shadow = vm.shadow /\ vm'.given = vm.given /\ vm'.ept12 = vm.ept12
        /\ vm' \in VmType
    BY <2>1, <1>2 DEF VmType
  <2>3. VmOk(mem, own, vm')
    BY <2>2, <1>2, <1>5 DEF VmOk
  <2>4. TypeOK'
    BY <2>1, <2>2, <1>2, <1>3, <1>7 DEF TypeOK, VmType
  <2>5. RoleInv(own)'
    BY <2>1, <2>3, <1>1, <1>3 DEF RoleInv
  <2>6. ShadowInv'
    BY <2>1, <2>2, <1>3 DEF SpacesInv, ShadowInv
  <2> QED BY <2>4, <2>5, <2>6 DEF SpacesInv
<1>14. CASE hpa # Unmapped
  <2>1. l1gpa \in Addr /\ hpa = tr[l1gpa]
    BY <1>11, <1>12, <1>14 DEF hpa
  <2>2. hpa \in 1 .. n /\ own[hpa] = RoleOf(EptSpace, 5, l1gpa)
    BY <2>1, <1>6, <1>14
  <2>3. mem' = ept_map_page(mem, s, x, hpa) /\ vm' = vm
    BY <1>3, <1>14
  <2>4. PICK o : EptMapped(mem, own, mem', o, ShadowSpace, s, x, hpa)
    <3>1. own[hpa].who = EptSpace /\ own[hpa].level = 5
      BY <2>2 DEF RoleOf
    <3>2. ShadowSpace \in {EptSpace, ShadowSpace} /\ ShadowSpace # EptSpace
      BY DEF ShadowSpace, EptSpace
    <3>3. \E q : EptMapped(mem, own, ept_map_page(mem, s, x, hpa), q, ShadowSpace, s, x, hpa)
      BY <2>2, <3>1, <3>2, <1>2, <1>5, EptMap
    <3> QED BY <3>3, <2>3
  <2>5. /\ MemInv(mem') /\ Owned(mem', o) /\ Len(mem') >= n /\ Extends(mem, own, o)
        /\ \A h \in 1 .. n : own[h].who # ShadowSpace \/ own[h].level = 5 => mem'[h] = mem[h]
        /\ \A y \in Addr : PageOf(mem', s, y) = IF y = x THEN hpa ELSE PageOf(mem, s, y)
    BY <2>4, Zenon DEF EptMapped
  <2>6. \A u \in Task : TaskOk(mem', o, u, pgd[u], wrote[u], fault[u])
    <3>1. \A h \in 1 .. n : own[h].who > 0 => mem'[h] = mem[h]
      BY <2>5 DEF ShadowSpace
    <3> QED BY <3>1, <2>5, <1>1, TasksUntouched
  <2>7. VmOk(mem', o, vm)
    <3>1. \A h \in 1 .. n : own[h].who = EptSpace /\ own[h].level \in 1 .. 4 => mem'[h] = mem[h]
      BY <2>5 DEF ShadowSpace, EptSpace
    <3> QED BY <3>1, <2>5, <1>2, VmKept
  <2>8. ASSUME NEW a \in Addr, tr[a] # Unmapped
        PROVE  mem'[tr[a]] = mem[tr[a]]
    <3>1. tr[a] \in 1 .. n /\ own[tr[a]] = RoleOf(EptSpace, 5, a)
      BY <2>8, <1>6
    <3>2. own[tr[a]].level = 5
      BY <3>1 DEF RoleOf
    <3> QED BY <3>1, <3>2, <2>5
  <2>9. GuestMem(mem', tr) /\ Keeps(mem, tr, mem', tr)
    <3>1. GuestMem(mem', tr)
      BY <2>8, <1>6 DEF GuestMem
    <3> QED BY <3>1, <2>8, <1>6 DEF Keeps
  <2>10. ASSUME NEW y \in Addr
         PROVE  /\ Leaf(mem, e, y, tr, EPT_PRESENT) \subseteq Leaf(mem', e, y, tr, EPT_PRESENT)
                /\ Through(mem, e, tr, y) # Unmapped => Through(mem', e, tr, y) = Through(mem, e, tr, y)
    <3> DEFINE a == Translate(mem, e, y, tr, EPT_PRESENT)
               b == Translate(mem', e, y, tr, EPT_PRESENT)
    <3>1. /\ Leaf(mem, e, y, tr, EPT_PRESENT) \subseteq Leaf(mem', e, y, tr, EPT_PRESENT)
          /\ a # Unmapped => b = a
      BY <2>9, <1>9, GuestKept
    <3>2. Through(mem, e, tr, y) = (IF a = Unmapped THEN Unmapped ELSE tr[a])
          /\ Through(mem', e, tr, y) = (IF b = Unmapped THEN Unmapped ELSE tr[b])
      BY DEF Through
    <3> HIDE DEF a, b
    <3> QED BY <3>1, <3>2
  <2>11. ShadowOk(mem', s, e, tr, stale)
    <3> SUFFICES ASSUME NEW y \in Addr, PageOf(mem', s, y) # 0
                 PROVE  /\ \E a \in Addr : tr[a] = PageOf(mem', s, y)
                        /\ \/ y \in stale \/ 3 \in Leaf(mem', e, y, tr, EPT_PRESENT)
                           \/ PageOf(mem', s, y) = Through(mem', e, tr, y)
      BY DEF ShadowOk
    <3> DEFINE p == PageOf(mem', s, y)
    <3>1. CASE y = x
      <4>1. p = hpa
        BY <3>1, <2>5
      <4>2. 3 \notin Leaf(mem, e, y, tr, EPT_PRESENT) => hpa = Through(mem, e, tr, y)
        <5>1. SUFFICES ASSUME 3 \notin Leaf(mem, e, y, tr, EPT_PRESENT)
                       PROVE  hpa = Through(mem, e, tr, y)
          OBVIOUS
        <5>2. l1gpa = Translate(mem, e, y, tr, EPT_PRESENT)
          BY <5>1, <3>1, <1>11
        <5>3. l1gpa # Unmapped
          BY <1>14 DEF hpa
        <5> QED BY <5>2, <5>3, <2>1 DEF Through
      <4>3. hpa = Through(mem, e, tr, y) => hpa = Through(mem', e, tr, y)
        BY <2>10, <1>14
      <4> HIDE DEF p
      <4> QED BY <4>1, <4>2, <4>3, <2>1, <2>10 DEF p
    <3>2. CASE y # x
      <4>1. p = PageOf(mem, s, y) /\ PageOf(mem, s, y) # 0
        BY <3>2, <2>5
      <4>2. /\ \E a \in Addr : tr[a] = p
            /\ \/ y \in stale \/ 3 \in Leaf(mem, e, y, tr, EPT_PRESENT)
               \/ p = Through(mem, e, tr, y)
        BY <4>1, <1>8 DEF ShadowOk
      <4>3. p # Unmapped
        <5>1. ShadowSpace \in Int /\ ~ ShadowSpace > 0
          BY DEF ShadowSpace
        <5>2. PageOf(mem, s, y) \in Nat
          BY <5>1, <1>2, <1>5, PathTyped
        <5> QED BY <5>2, <4>1 DEF Unmapped
      <4> HIDE DEF p
      <4> QED BY <4>2, <4>3, <2>10 DEF p
    <3> QED BY <3>1, <3>2
  <2>12. TypeOK'
    BY <2>3, <2>5, <1>2, <1>3, <1>7 DEF TypeOK
  <2>13. RoleInv(o)'
    BY <2>3, <2>5, <2>6, <2>7, <1>3 DEF RoleInv
  <2>14. ShadowInv'
    BY <2>3, <2>11, <1>3 DEF ShadowInv, s, tr, e
  <2> QED BY <2>12, <2>13, <2>14 DEF SpacesInv
<1> QED BY <1>13, <1>14

LEMMA InitSpaces == Init => SpacesInv
<1> SUFFICES ASSUME Init PROVE SpacesInv
  OBVIOUS
<1> DEFINE own == [f \in 1 .. 2 |-> RoleOf(KernelSpace, 0, 0)]
<1>1. /\ mem = map_kernel_memory /\ kernel = 1 /\ pgd = [t \in Task |-> Unmapped]
      /\ fault = [t \in Task |-> NoFault] /\ wrote = [t \in Task |-> {}]
      /\ vm = [state |-> "off", eptp |-> 0, shadow |-> 0, ept12 |-> 0, given |-> [x \in Addr |-> Unmapped]]
      /\ stale = {} /\ left \in Budgets
  BY DEF Init
<1>2. MemInv(mem) /\ Len(mem) = 2
  <2> DEFINE a == [i \in 0 .. 1 |-> IF i = 0 THEN None ELSE Entry(2, {"r", "w"}, FALSE)]
             b == [i \in 0 .. 1 |-> Entry(i * Size(2), {"r", "w"}, TRUE)]
  <2>1. mem = <<a, b>>
    BY <1>1 DEF map_kernel_memory
  <2>2. a \in Frame
    BY DEF Frame, Word, None, Entry, Bits
  <2>3. b \in Frame
    <3>1. Size(2) = 4
      BY DEF Size
    <3>2. \A i \in 0 .. 1 : Entry(i * Size(2), {"r", "w"}, TRUE) \in Word
      BY <3>1 DEF Word, Entry, Bits
    <3> QED BY <3>2 DEF Frame
  <2> HIDE DEF a, b, Frame
  <2>4. mem \in Seq(Frame) /\ Len(mem) = 2 /\ mem \in [1 .. 2 -> Frame]
    BY <2>1, <2>2, <2>3
  <2> QED BY <2>4, <1>1 DEF MemInv
<1>3. Owned(mem, own)
  <2>1. RoleOf(KernelSpace, 0, 0) \in Role
    BY DEF RoleOf, Role, KernelSpace
  <2>2. own \in [1 .. 2 -> Role]
    BY <2>1
  <2>3. \A f \in 1 .. 2 : own[f].level = 0
    BY DEF RoleOf
  <2> QED BY <2>2, <2>3, <1>2 DEF Owned
<1> HIDE DEF own
<1>4. ASSUME NEW t \in Task
      PROVE  TaskOk(mem, own, t, pgd[t], wrote[t], fault[t])
  <2>1. pgd[t] = Unmapped /\ wrote[t] = {} /\ fault[t].level = 0 /\ fault[t].empty = FALSE
    BY <1>1 DEF NoFault
  <2> QED BY <2>1 DEF TaskOk
<1>5. vm.state = "off" /\ vm.eptp = 0 /\ vm.shadow = 0
  BY <1>1
<1>6. VmOk(mem, own, vm)
  BY <1>5 DEF VmOk
<1>7. TypeOK
  <2>1. NoFault \in [addr : User, level : 0 .. 4, table : Nat, empty : BOOLEAN]
    BY DEF NoFault, User
  <2>2. left \in [vm : BOOLEAN, touch : Nat, l1 : Nat, write : Nat, l2 : Nat]
    BY <1>1, SpacesAssumption
  <2>3. [x \in Addr |-> Unmapped] \in [Addr -> Nat \cup {Unmapped}]
    OBVIOUS
  <2>4. vm \in [state : {"off", "boot", "L1", "L2", "stopped"}, eptp : Nat, shadow : Nat, ept12 : Addr,
                given : [Addr -> Nat \cup {Unmapped}]]
    BY <1>1, <2>3 DEF Addr
  <2> QED BY <2>1, <2>2, <2>4, <1>1, <1>2 DEF TypeOK
<1>8. RoleInv(own)
  BY <1>3, <1>4, <1>6 DEF RoleInv
<1>9. ShadowInv
  BY <1>5 DEF ShadowInv
<1> QED BY <1>7, <1>8, <1>9 DEF SpacesInv

LEMMA NextSpaces == SpacesInv /\ [Next]_vars => SpacesInv'
<1> SUFFICES ASSUME SpacesInv, [Next]_vars PROVE SpacesInv'
  OBVIOUS
<1>1. ASSUME NEW t \in Task, arch_init_mm(t) PROVE SpacesInv'
  BY <1>1, NewTask
<1>2. ASSUME NEW t \in Task, alloc_new_page(t) PROVE SpacesInv'
  BY <1>2, TestStep, SetStep DEF alloc_new_page
<1>3. ASSUME NEW t \in Task, NEW x \in Touched, Touch(t, x) PROVE SpacesInv'
  BY <1>3, TouchStep
<1>4. CASE alloc_guest_memory
  BY <1>4, GuestStarts
<1>5. CASE L1Boots
  BY <1>5, BootStep
<1>6. CASE nested_vmx_run
  BY <1>6, RunStep
<1>7. CASE nested_vmx_vmexit
  BY <1>7, ExitStep
<1>8. ASSUME NEW x \in 1 .. 3, NEW i \in 0 .. 1, NEW w \in GuestWords, L1Writes(x, i, w) PROVE SpacesInv'
  BY <1>8, WriteStep
<1>12. ASSUME NEW root \in GuestRoots, L1SetsRoot(root) PROVE SpacesInv'
  BY <1>12, RootStep
<1>9. ASSUME NEW x \in Addr, vmx_handle_ept_volation(x) PROVE SpacesInv'
  BY <1>9, PageStep
<1>10. ASSUME NEW x \in Addr, nested_vmx_handle_ept_volation(x) PROVE SpacesInv'
  BY <1>10, ShadowStep
<1>11. CASE UNCHANGED vars
  <2>1. PICK own : RoleInv(own)
    BY DEF SpacesInv
  <2>2. mem' = mem /\ kernel' = kernel /\ pgd' = pgd /\ fault' = fault /\ wrote' = wrote
        /\ vm' = vm /\ stale' = stale /\ left' = left
    BY <1>11 DEF vars
  <2>3. RoleInv(own)' /\ TypeOK' /\ ShadowInv'
    BY <2>1, <2>2 DEF SpacesInv, RoleInv, TypeOK, ShadowInv
  <2> QED BY <2>3 DEF SpacesInv
<1> QED BY <1>1, <1>2, <1>3, <1>4, <1>5, <1>6, <1>7, <1>8, <1>9, <1>10, <1>11, <1>12 DEF Next

(* Every frame of memory keeps one role, and every entry of a table of the   *)
(* host leads to the frame that its place in the table names: arch_init_mm,  *)
(* alloc_new_page, ept_map_page and their callers never make two address     *)
(* spaces meet.                                                              *)
THEOREM SpacesTheorem == Spec => []SpacesInv
<1>1. Init => SpacesInv
  BY InitSpaces
<1>2. SpacesInv /\ [Next]_vars => SpacesInv'
  BY NextSpaces
<1> QED BY <1>1, <1>2, PTL DEF Spec

(* The addresses of the kernel are memory itself in every task's space.      *)
LEMMA KernelWalk ==
    ASSUME NEW m, MemInv(m), NEW r \in 1 .. Len(m), m[r][1] = KernelLink, NEW p \in User
    PROVE  Translate(m, r, ioremap(p), Here(m), PG_PRESENT) = p
<1> DEFINE x == p + 8
           tr == Here(m)
           bits == PG_PRESENT
           i == Index(2, x)
           t == Tables(m, r, x, tr, bits)
<1>1. /\ p \in Int /\ 0 <= p /\ p <= 7 /\ x \in Addr
      /\ ioremap(p) = x
  BY DEF User, Addr, ioremap, PHYS2VIRT, KERNEL_SPACE
<1>2. Size(1) = 8 /\ Size(2) = 4
  BY DEF Size
<1>3. /\ p = 0 \/ p = 1 \/ p = 2 \/ p = 3 \/ p = 4 \/ p = 5 \/ p = 6 \/ p = 7
  BY <1>1
<1>4. Index(1, x) = 1 /\ i \in 0 .. 1 /\ ((i * 4) \div 4) * 4 + (x % 4) = p
  <2>1. Index(1, x) = (x \div 8) % 2 /\ i = (x \div 4) % 2
    BY <1>2 DEF Index
  <2> HIDE DEF i
  <2>2. CASE p = 0
    BY <2>1, <2>2
  <2>3. CASE p = 1
    BY <2>1, <2>3
  <2>4. CASE p = 2
    BY <2>1, <2>4
  <2>5. CASE p = 3
    BY <2>1, <2>5
  <2>6. CASE p = 4
    BY <2>1, <2>6
  <2>7. CASE p = 5
    BY <2>1, <2>7
  <2>8. CASE p = 6
    BY <2>1, <2>8
  <2>9. CASE p = 7
    BY <2>1, <2>9
  <2> QED BY <1>3, <2>2, <2>3, <2>4, <2>5, <2>6, <2>7, <2>8, <2>9
<1>5. Len(m) \in Nat \ {0, 1} /\ m[2] = [j \in 0 .. 1 |-> Entry(j * Size(2), {"r", "w"}, TRUE)]
  BY DEF MemInv, map_kernel_memory
<1>6. tr[r] = r /\ tr[2] = 2 /\ r # Unmapped /\ 2 # Unmapped
  <2>1. r \in 0 .. Len(m) /\ 2 \in 0 .. Len(m) /\ r # -1 /\ 2 # -1
    <3>1. Len(m) \in Nat \ {0, 1}
      BY <1>5
    <3>2. Len(m) \in Nat /\ 2 \in 1 .. Len(m)
      BY <3>1, TwoOrMore
    <3> QED BY <3>2
  <2> QED BY <2>1, Zenon DEF Here, Unmapped
<1> HIDE DEF x, i, tr
<1>7. m[r][Index(1, x)] = KernelLink /\ m[2][Index(2, x)] = Entry(i * 4, {"r", "w"}, TRUE)
  BY <1>2, <1>4, <1>5 DEF i
<1>8. /\ Present(KernelLink, bits) /\ KernelLink.a = 2 /\ KernelLink.big = FALSE
      /\ Present(Entry(i * 4, {"r", "w"}, TRUE), bits)
      /\ Entry(i * 4, {"r", "w"}, TRUE).a = i * 4 /\ Entry(i * 4, {"r", "w"}, TRUE).big = TRUE
  BY DEF KernelLink, Present, Entry, PG_PRESENT
<1> DEFINE below(f, l) ==
             LET e == m[f][Index(l, x)]
             IN  IF f # Unmapped /\ Present(e, bits) /\ ~ (e.big /\ l \in 2 .. 3) THEN tr[e.a] ELSE Unmapped
           t1 == tr[r]
           t2 == below(t1, 1)
           t3 == below(t2, 2)
           t4 == below(t3, 3)
<1>9. t = <<t1, t2, t3, t4>>
  BY Zenon DEF Tables
<1>10. t1 = r
  BY <1>6
<1> HIDE DEF t1
<1>11. t2 = 2
  BY <1>6, <1>7, <1>8, <1>10
<1> HIDE DEF t2
<1>12. t3 = Unmapped
  <2> DEFINE e == m[t2][Index(2, x)]
  <2>1. e.big /\ 2 \in 2 .. 3
    <3>1. e = Entry(i * 4, {"r", "w"}, TRUE)
      BY <1>7, <1>11
    <3> HIDE DEF e
    <3>2. e.big = TRUE
      BY <3>1, <1>8
    <3>3. 2 \in 2 .. 3
      OBVIOUS
    <3> QED BY <3>2, <3>3, Zenon
  <2>2. t3 = IF t2 # Unmapped /\ Present(e, bits) /\ ~ (e.big /\ 2 \in 2 .. 3) THEN tr[e.a] ELSE Unmapped
    OBVIOUS
  <2> HIDE DEF e
  <2> QED BY <2>1, <2>2
<1> HIDE DEF t3
<1>13. t4 = Unmapped
  BY <1>12
<1>14. t[2] = 2 /\ t[3] = Unmapped /\ t[4] = Unmapped
  <2> HIDE DEF t, t4
  <2> QED BY <1>9, <1>11, <1>12, <1>13
<1> HIDE DEF t
<1> DEFINE leaf == Leaf(m, r, x, tr, bits)
<1>15. leaf = {2}
  <2>1. leaf = {l \in 2 .. 4 : t[l] # Unmapped /\ Present(m[t[l]][Index(l, x)], bits)
                                               /\ (l = 4 \/ m[t[l]][Index(l, x)].big)}
    BY Zenon DEF Leaf, t
  <2>2. \A l \in 2 .. 4 : l = 2 \/ l = 3 \/ l = 4
    OBVIOUS
  <2>3. Present(m[t[2]][Index(2, x)], bits) /\ m[t[2]][Index(2, x)].big
    BY <1>7, <1>8, <1>14
  <2> HIDE DEF leaf
  <2>4. 2 \in leaf
    BY <2>1, <2>3, <1>6, <1>14
  <2>5. \A l \in leaf : l = 2
    BY <2>1, <2>2, <1>14
  <2> QED BY <2>4, <2>5
<1>16. Translate(m, r, x, tr, bits) =
         LET l == CHOOSE k \in leaf : TRUE
         IN  IF leaf = {} THEN Unmapped ELSE PFN(m[t[l]][Index(l, x)].a, Size(l)) + OFFSET(x, Size(l))
  BY Zenon DEF Translate, t
<1>17. (CHOOSE k \in {2} : TRUE) = 2
  OBVIOUS
<1>18. Translate(m, r, x, tr, bits) = PFN(m[t[2]][Index(2, x)].a, Size(2)) + OFFSET(x, Size(2))
  <2> HIDE DEF leaf
  <2> QED BY <1>15, <1>16, <1>17
<1>19. Translate(m, r, x, tr, bits) = ((i * 4) \div 4) * 4 + (x % 4)
  BY <1>2, <1>7, <1>8, <1>14, <1>18 DEF PFN, OFFSET
<1> QED BY <1>1, <1>4, <1>19 DEF tr
(* kernel, mem and the rest keep their types; a frame is never taken back.   *)
THEOREM TypeCorrect == Spec => []TypeOK
<1>1. SpacesInv => TypeOK
  BY DEF SpacesInv
<1> QED BY <1>1, SpacesTheorem, PTL

(* A task's page, by the processor's walk, has the task's own role.          *)
LEMMA TaskFrames ==
    ASSUME SpacesInv, NEW own, RoleInv(own), NEW t \in Task, pgd[t] # Unmapped, NEW x \in User
    PROVE  LET p == PageOf(mem, pgd[t], x) IN
           /\ Virt(pgd[t], x) = IF p = 0 THEN Unmapped ELSE p
           /\ p \in Nat /\ (p # 0 => p \in 3 .. Len(mem) /\ own[p] = RoleOf(t, 5, x))
<1> DEFINE p == PageOf(mem, pgd[t], x)
           r == pgd[t]
<1>1. MemInv(mem) /\ Owned(mem, own) /\ TaskOk(mem, own, t, r, wrote[t], fault[t])
  BY DEF SpacesInv, TypeOK, RoleInv
<1>2. r \in 1 .. Len(mem) /\ own[r] = RoleOf(t, 1, 0)
  BY <1>1 DEF TaskOk
<1>3. t \in Nat \ {0}
  BY SpacesAssumption
<1> HIDE DEF r
<1>4. /\ Translate(mem, r, x, Here(mem), PG_PRESENT) = IF PageOf(mem, r, x) = 0 THEN Unmapped ELSE PageOf(mem, r, x)
      /\ PageOf(mem, r, x) \in Nat
      /\ (PageOf(mem, r, x) # 0 => PageOf(mem, r, x) \in 3 .. Len(mem) /\ own[PageOf(mem, r, x)] = RoleOf(t, 5, x))
  BY <1>1, <1>2, <1>3, TaskWalk
<1> QED BY <1>4, Zenon DEF Virt, r

(* Every task reads what it wrote, and the kernel's addresses are memory     *)
(* itself in its space, whatever faults the other CPUs take meanwhile.       *)
THEOREM TaskTheorem == Spec => []TaskMemory
<1>1. SpacesInv => TaskMemory
  <2> SUFFICES ASSUME SpacesInv, NEW t \in Task, pgd[t] # Unmapped
               PROVE  /\ \A x \in wrote[t] : Virt(pgd[t], x) # Unmapped /\ mem[Virt(pgd[t], x)][0] = Id(t)
                      /\ \A p \in User : Virt(pgd[t], ioremap(p)) = p
    BY DEF TaskMemory
  <2>1. PICK own : RoleInv(own)
    BY DEF SpacesInv
  <2> DEFINE r == pgd[t]
  <2>2. MemInv(mem) /\ Owned(mem, own) /\ TaskOk(mem, own, t, r, wrote[t], fault[t])
    BY <2>1 DEF SpacesInv, TypeOK, RoleInv
  <2>3. /\ r \in 1 .. Len(mem) /\ own[r] = RoleOf(t, 1, 0)
        /\ \A x \in wrote[t] : PageOf(mem, r, x) # 0 /\ mem[PageOf(mem, r, x)][0] = Id(t)
    BY <2>2 DEF TaskOk
  <2>4. t \in Nat \ {0} /\ wrote[t] \subseteq User
    BY SpacesAssumption DEF SpacesInv, TypeOK
  <2>5. ASSUME NEW x \in wrote[t]
        PROVE  Virt(r, x) # Unmapped /\ mem[Virt(r, x)][0] = Id(t)
    <3>1. x \in User
      BY <2>4
    <3>2. /\ Virt(r, x) = IF PageOf(mem, r, x) = 0 THEN Unmapped ELSE PageOf(mem, r, x)
          /\ PageOf(mem, r, x) \in Nat
      BY <3>1, <2>1, TaskFrames
    <3> HIDE DEF r
    <3> QED BY <3>2, <2>3 DEF Unmapped
  <2>6. mem[r][1] = KernelLink
    <3>1. own[r].who > 0 /\ own[r].level = 1
      BY <2>3, <2>4 DEF RoleOf
    <3>2. KernelHalf(own[r], 1) /\ own[r].level \in 1 .. 4 /\ 1 \in 0 .. 1
      BY <3>1 DEF KernelHalf
    <3> HIDE DEF r
    <3> QED BY <3>2, <2>2, <2>3, Zenon DEF Owned
  <2>7. ASSUME NEW p \in User
        PROVE  Virt(r, ioremap(p)) = p
    <3> HIDE DEF r
    <3>1. Translate(mem, r, ioremap(p), Here(mem), PG_PRESENT) = p
      BY <2>2, <2>3, <2>6, KernelWalk
    <3> QED BY <3>1, Zenon DEF Virt
  <2> QED BY <2>5, <2>7
<1> QED BY <1>1, SpacesTheorem, PTL

(* The frames of two tasks are never the same, nor is one that of the guest: *)
(* the pages that alloc_new_page, map_guest_memory and                       *)
(* vmx_handle_ept_volation give have one user each, for one address.         *)
PagesApart ==
    \A t \in Task : pgd[t] # Unmapped =>
      \A x \in User : Virt(pgd[t], x) # Unmapped =>
        /\ \A u \in Task, y \in User :
             pgd[u] # Unmapped /\ Virt(pgd[u], y) = Virt(pgd[t], x) => u = t /\ y = x
        /\ vm.eptp # 0 => \A y \in Addr : L1Page(y) # Virt(pgd[t], x)
THEOREM ApartTheorem == Spec => []PagesApart
<1>1. SpacesInv => PagesApart
  <2> SUFFICES ASSUME SpacesInv, NEW t \in Task, pgd[t] # Unmapped, NEW x \in User, Virt(pgd[t], x) # Unmapped
               PROVE  /\ \A u \in Task, y \in User :
                           pgd[u] # Unmapped /\ Virt(pgd[u], y) = Virt(pgd[t], x) => u = t /\ y = x
                      /\ vm.eptp # 0 => \A y \in Addr : L1Page(y) # Virt(pgd[t], x)
    BY DEF PagesApart
  <2>1. PICK own : RoleInv(own)
    BY DEF SpacesInv
  <2> DEFINE p == Virt(pgd[t], x)
  <2>2. p # Unmapped /\ own[p] = RoleOf(t, 5, x)
    <3>1. /\ p = IF PageOf(mem, pgd[t], x) = 0 THEN Unmapped ELSE PageOf(mem, pgd[t], x)
          /\ PageOf(mem, pgd[t], x) # 0 => own[PageOf(mem, pgd[t], x)] = RoleOf(t, 5, x)
      BY <2>1, TaskFrames
    <3>2. p # Unmapped
      OBVIOUS
    <3> HIDE DEF p
    <3> QED BY <3>1, <3>2
  <2>3. ASSUME NEW u \in Task, NEW y \in User, pgd[u] # Unmapped, Virt(pgd[u], y) = p
        PROVE  u = t /\ y = x
    <3>1. /\ p = IF PageOf(mem, pgd[u], y) = 0 THEN Unmapped ELSE PageOf(mem, pgd[u], y)
          /\ PageOf(mem, pgd[u], y) # 0 => own[PageOf(mem, pgd[u], y)] = RoleOf(u, 5, y)
      BY <2>1, <2>3, TaskFrames
    <3> HIDE DEF p
    <3>2. RoleOf(u, 5, y) = RoleOf(t, 5, x)
      BY <3>1, <2>2
    <3>3. RoleOf(u, 5, y).who = u /\ RoleOf(u, 5, y).at = y /\ RoleOf(t, 5, x).who = t /\ RoleOf(t, 5, x).at = x
      BY DEF RoleOf
    <3> QED BY <3>2, <3>3
  <2>4. ASSUME vm.eptp # 0, NEW y \in Addr
        PROVE  L1Page(y) # p
    <3>1. /\ L1Page(y) = vm.given[y]
          /\ vm.given[y] # Unmapped => own[vm.given[y]] = RoleOf(EptSpace, 5, y)
      BY <2>1, <2>4, L1Memory
    <3>2. RoleOf(EptSpace, 5, y).who = 0 /\ RoleOf(t, 5, x).who = t /\ t # 0
      BY SpacesAssumption DEF RoleOf, EptSpace
    <3> HIDE DEF p
    <3> QED BY <3>1, <3>2, <2>2
  <2> HIDE DEF p
  <2> QED BY <2>3, <2>4 DEF p
<1> QED BY <1>1, SpacesTheorem, PTL

(* The EPT gives every address of L1 the frame that was mapped there: a      *)
(* later ept_map_page, which may add tables, moves and adds no other.        *)
THEOREM EptTheorem == Spec => []EptExact
<1>1. SpacesInv => EptExact
  <2> SUFFICES ASSUME SpacesInv, vm.eptp # 0, NEW x \in Addr
               PROVE  L1Page(x) = vm.given[x] /\ Gpa(mem, x) = vm.given[x]
    BY DEF EptExact
  <2>1. PICK own : RoleInv(own)
    BY DEF SpacesInv
  <2>2. L1Page(x) = vm.given[x] /\ EptGives(mem, own, vm)
    BY <2>1, L1Memory
  <2>3. Gpa(mem, x) = vm.given[x]
    BY <2>2, Zenon DEF EptGives, Gpa
  <2> QED BY <2>2, <2>3
<1> QED BY <1>1, SpacesTheorem, PTL

(* paging64_gva_to_gpa and nested_ept_l2gpa_to_l1gpa agree with the          *)
(* processor on whatever tables L1 writes, but below its 2MB pages.          *)
THEOREM WalksTheorem == Spec => []GuestWalksExact
<1>1. SpacesInv => GuestWalksExact
  <2> SUFFICES ASSUME SpacesInv, vm.state \in {"L1", "L2"}, NEW x \in Addr
               PROVE  LET tr == L1Frames(mem)
                      IN  /\ 3 \notin Leaf(mem, CR3, x, tr, PG_PRESENT) =>
                               paging64_gva_to_gpa(mem, vm.eptp, CR3, x) = Translate(mem, CR3, x, tr, PG_PRESENT)
                          /\ 3 \notin LeafOf(x) =>
                               nested_ept_l2gpa_to_l1gpa(mem, vm.eptp, vm.ept12, x)
                                 = Translate(mem, vm.ept12, x, tr, EPT_PRESENT)
    BY DEF GuestWalksExact
  <2>1. PICK own : RoleInv(own)
    BY DEF SpacesInv
  <2>2. vm.eptp # 0
    <3>1. VmOk(mem, own, vm)
      BY <2>1 DEF RoleInv
    <3> QED BY <3>1 DEF VmOk
  <2> DEFINE tr == vm.given
  <2>3. EptGives(mem, own, vm) /\ L1Frames(mem) = tr /\ GuestMem(mem, tr)
    BY <2>1, <2>2, L1Memory
  <2>4. Frames(mem, vm.eptp) = tr
    BY <2>3, Zenon DEF EptGives
  <2>5. CR3 \in Addr /\ vm.ept12 \in Addr
    BY DEF CR3, Addr, SpacesInv, TypeOK
  <2> HIDE DEF tr
  <2>6. /\ paging64_gva_to_gpa(mem, vm.eptp, CR3, x) = Walk(mem, CR3, x, tr, PG_PRESENT)
        /\ nested_ept_l2gpa_to_l1gpa(mem, vm.eptp, vm.ept12, x) = Walk(mem, vm.ept12, x, tr, EPT_PRESENT)
        /\ LeafOf(x) = Leaf(mem, vm.ept12, x, tr, EPT_PRESENT)
    BY <2>3, <2>4, Zenon DEF paging64_gva_to_gpa, nested_ept_l2gpa_to_l1gpa, LeafOf
  <2>7. 3 \notin Leaf(mem, CR3, x, tr, PG_PRESENT) =>
          Walk(mem, CR3, x, tr, PG_PRESENT) = Translate(mem, CR3, x, tr, PG_PRESENT)
    BY <2>3, <2>5, GuestWalk
  <2>8. 3 \notin Leaf(mem, vm.ept12, x, tr, EPT_PRESENT) =>
          Walk(mem, vm.ept12, x, tr, EPT_PRESENT) = Translate(mem, vm.ept12, x, tr, EPT_PRESENT)
    BY <2>3, <2>5, GuestWalk
  <2> QED BY <2>3, <2>6, <2>7, <2>8, Zenon
<1> QED BY <1>1, SpacesTheorem, PTL

(* What the tables of the host hold: the kernel's two, and the frames whose  *)
(* role is that of a table.                                                  *)
TablesTo(own, l) == {f \in 1 .. Len(mem) : f \in {1, 2} \/ own[f].level \in 1 .. l}
LEMMA BelowTables ==
    ASSUME MemInv(mem), NEW own, Owned(mem, own), NEW l \in 1 .. 3,
           NEW t \in TablesTo(own, l), NEW i \in 0 .. 1, NEW f \in 1 .. Len(mem),
           mem[t][i].a = f, ~ mem[t][i].big
    PROVE  f \in TablesTo(own, l + 1)
<1>1. CASE t = 1
  <2>1. mem[1][i] = IF i = 0 THEN None ELSE Entry(2, {"r", "w"}, FALSE)
    BY DEF MemInv, map_kernel_memory
  <2>2. f \in {0, 2}
    BY <2>1, <1>1 DEF None, Entry
  <2> QED BY <2>2 DEF TablesTo
<1>2. CASE t = 2
  <2>1. mem[2][i] = Entry(i * Size(2), {"r", "w"}, TRUE)
    BY DEF MemInv, map_kernel_memory
  <2> QED BY <2>1, <1>2 DEF Entry
<1>3. CASE own[t].level \in 1 .. l /\ KernelHalf(own[t], i)
  <2>1. mem[t][i] = KernelLink
    BY <1>3 DEF Owned, TablesTo
  <2> QED BY <2>1 DEF KernelLink, Entry, TablesTo
<1>4. CASE own[t].level \in 1 .. l /\ ~ KernelHalf(own[t], i)
  <2>1. Linked(mem, own, t, i)
    BY <1>4 DEF Owned, TablesTo
  <2>2. Below(own[t], i, own[f])
    BY <2>1 DEF Linked, None, Entry
  <2>3. own[f] = RoleOf(own[t].who, own[t].level + 1, 2 * own[t].at + i)
    BY <2>2, <1>4 DEF Below
  <2>4. own[f].level = own[t].level + 1
    BY <2>3 DEF RoleOf
  <2> QED BY <2>4, <1>4 DEF TablesTo
<1> QED BY <1>1, <1>2, <1>3, <1>4 DEF TablesTo
LEMMA HostTablesAre ==
    ASSUME SpacesInv, NEW own, RoleInv(own)
    PROVE  HostTables \subseteq TablesTo(own, 4)
<1> DEFINE below(S) == {f \in 1 .. Len(mem) : \E t \in S, i \in 0 .. 1 : mem[t][i].a = f /\ ~ mem[t][i].big}
           roots == {f \in 1 .. Len(mem) : f \in {kernel, vm.eptp, vm.shadow} \/ \E t \in Task : pgd[t] = f}
<1>1. MemInv(mem) /\ Owned(mem, own) /\ VmOk(mem, own, vm) /\ kernel = 1
      /\ \A t \in Task : TaskOk(mem, own, t, pgd[t], wrote[t], fault[t])
  BY DEF SpacesInv, TypeOK, RoleInv
<1>2. ASSUME NEW S, NEW l \in 1 .. 3, S \subseteq TablesTo(own, l)
      PROVE  below(S) \subseteq TablesTo(own, l + 1)
  <2> SUFFICES ASSUME NEW f \in 1 .. Len(mem), NEW t \in S, NEW i \in 0 .. 1,
                      mem[t][i].a = f, ~ mem[t][i].big
               PROVE  f \in TablesTo(own, l + 1)
    OBVIOUS
  <2>1. t \in TablesTo(own, l)
    BY <1>2
  <2> QED BY <2>1, <1>1, BelowTables
<1>3. \A l \in 1 .. 4 : \A f \in TablesTo(own, l) : f \in TablesTo(own, 4)
  BY DEF TablesTo
<1>4. roots \subseteq TablesTo(own, 1)
  <2> SUFFICES ASSUME NEW f \in 1 .. Len(mem), f \in {kernel, vm.eptp, vm.shadow} \/ \E t \in Task : pgd[t] = f
               PROVE  f \in TablesTo(own, 1)
    OBVIOUS
  <2>1. CASE f = kernel
    BY <2>1, <1>1 DEF TablesTo
  <2>2. CASE f = vm.eptp \/ f = vm.shadow
    <3>1. own[f].level = 1
      BY <2>2, <1>1 DEF VmOk, RoleOf
    <3> QED BY <3>1 DEF TablesTo
  <2>3. ASSUME NEW t \in Task, pgd[t] = f PROVE f \in TablesTo(own, 1)
    <3>1. TaskOk(mem, own, t, f, wrote[t], fault[t]) /\ f # Unmapped
      BY <2>3, <1>1 DEF Unmapped
    <3>2. own[f].level = 1
      BY <3>1 DEF TaskOk, RoleOf
    <3> QED BY <3>2 DEF TablesTo
  <2> QED BY <2>1, <2>2, <2>3
<1>5. below(roots) \subseteq TablesTo(own, 2)
  <2> HIDE DEF roots
  <2>1. below(roots) \subseteq TablesTo(own, 1 + 1)
    BY <1>2, <1>4
  <2> QED BY <2>1
<1>6. below(below(roots)) \subseteq TablesTo(own, 3)
  <2> DEFINE S == below(roots)
  <2> HIDE DEF S
  <2>1. S \subseteq TablesTo(own, 2)
    BY <1>5 DEF S
  <2>2. below(S) \subseteq TablesTo(own, 2 + 1)
    BY <1>2, <2>1
  <2> QED BY <2>2 DEF S
<1>7. below(below(below(roots))) \subseteq TablesTo(own, 4)
  <2> DEFINE S == below(below(roots))
  <2> HIDE DEF S
  <2>1. S \subseteq TablesTo(own, 3)
    BY <1>6 DEF S
  <2>2. below(S) \subseteq TablesTo(own, 3 + 1)
    BY <1>2, <2>1
  <2> QED BY <2>2 DEF S
<1>8. HostTables = roots \cup below(roots) \cup below(below(roots)) \cup below(below(below(roots)))
  BY Zenon DEF HostTables
<1> HIDE DEF below, roots
<1> QED BY <1>3, <1>4, <1>5, <1>6, <1>7, <1>8

(* nested_vmx_handle_ept_volation lets L2 reach only frames that L1 reaches, *)
(* whatever ept_pointer its regions give and whatever is left in the shadow, *)
(* and the one that L1's tables give unless they changed since; and what L1  *)
(* reaches holds no table of the host and is no task's.                      *)
THEOREM IsolationTheorem == Spec => []GuestIsolated
<1>1. SpacesInv /\ PagesApart => GuestIsolated
  <2> SUFFICES ASSUME SpacesInv, PagesApart PROVE GuestIsolated
    OBVIOUS
  <2>1. PICK own : RoleInv(own)
    BY DEF SpacesInv
  <2> DEFINE l1 == {L1Page(x) : x \in Addr} \ {Unmapped}
  <2>2. ASSUME vm.eptp # 0
        PROVE  l1 \cap HostTables = {}
    <3> SUFFICES ASSUME NEW f \in l1, f \in HostTables PROVE FALSE
      OBVIOUS
    <3>1. PICK x \in Addr : L1Page(x) = f /\ f # Unmapped
      OBVIOUS
    <3>2. own[f] = RoleOf(EptSpace, 5, x)
      BY <3>1, <2>1, <2>2, L1Memory
    <3>3. own[f].level = 5
      BY <3>2 DEF RoleOf
    <3>4. f \in TablesTo(own, 4)
      BY <2>1, HostTablesAre
    <3>5. own[1].level = 0 /\ own[2].level = 0
      BY <2>1 DEF RoleInv, Owned, RoleOf
    <3> QED BY <3>3, <3>4, <3>5 DEF TablesTo
  <2>3. ASSUME vm.eptp # 0, NEW t \in Task, NEW y \in User, pgd[t] # Unmapped
        PROVE  Virt(pgd[t], y) \notin l1
    <3>1. Virt(pgd[t], y) # Unmapped => \A x \in Addr : L1Page(x) # Virt(pgd[t], y)
      BY <2>3 DEF PagesApart
    <3> QED BY <3>1
  <2>4. ASSUME vm.shadow # 0, NEW x \in Addr, L2Page(x) # Unmapped
        PROVE  /\ L2Page(x) \in l1
               /\ x \in stale \/ 3 \in LeafOf(x) \/ L2Page(x) = Composed(mem, vm.ept12, x)
    <3> DEFINE p == PageOf(mem, vm.shadow, x)
               tr == vm.given
               e == vm.ept12
    <3>1. p # 0 /\ L2Page(x) = p /\ vm.eptp # 0
      <4>1. LET q == PageOf(mem, vm.shadow, x) IN
              /\ q \in Nat /\ L2Page(x) = IF q = 0 THEN Unmapped ELSE q
              /\ vm.eptp # 0 /\ vm.shadow \in 1 .. Len(mem) /\ own[vm.shadow] = RoleOf(ShadowSpace, 1, 0)
        BY <2>1, <2>4, L2Memory
      <4> QED BY <4>1, <2>4
    <3>2. L1Frames(mem) = tr /\ \A y \in Addr : L1Page(y) = tr[y]
      BY <2>1, <3>1, L1Memory
    <3>3. ShadowOk(mem, vm.shadow, e, tr, stale)
      BY <2>4 DEF SpacesInv, ShadowInv
    <3>4. /\ \E y \in Addr : tr[y] = p
          /\ x \in stale \/ 3 \in Leaf(mem, e, x, tr, EPT_PRESENT) \/ p = Through(mem, e, tr, x)
      BY <3>1, <3>3 DEF ShadowOk
    <3>5. LeafOf(x) = Leaf(mem, e, x, tr, EPT_PRESENT) /\ Composed(mem, e, x) = Through(mem, e, tr, x)
      BY <3>2, Zenon DEF LeafOf, Composed, Through
    <3> HIDE DEF p, tr, e
    <3>6. L2Page(x) \in l1
      BY <2>4, <3>1, <3>2, <3>4
    <3> QED BY <3>1, <3>4, <3>5, <3>6 DEF e
  <2> HIDE DEF l1
  <2> QED BY <2>2, <2>3, <2>4 DEF GuestIsolated, l1
<1> QED BY <1>1, SpacesTheorem, ApartTheorem, PTL
================================================================================
