------------------------------ MODULE PageTables -------------------------------
(***************************************************************************)
(* Page tables as the code reads and writes them: the tables of x86-64 and *)
(* the extended page tables (EPT) of VMX, of four levels, in physical      *)
(* memory.  A table has two entries here (512 in the code), so an address  *)
(* is four bits of index; the offset in a page is left out.                *)
(*                                                                         *)
(* Physical memory is the sequence of the frames that kmalloc has given    *)
(* out, and an entry is a word of it: an address, the permission bits and  *)
(* the bit of a large page.                                                *)
(***************************************************************************)
EXTENDS Integers, Sequences

Addr == 0 .. 15
Bits == {"r", "w", "x"}        \* bit 0 is also the present bit of x86-64
Entry(a, bits, big) == [a |-> a, bits |-> bits, big |-> big]
None == Entry(0, {}, FALSE)
ZeroPage == [i \in 0 .. 1 |-> None]
Unmapped == -1

(* The bits of which an entry must have one to be present. *)
PG_PRESENT == {"r"}
EPT_PRESENT == Bits
Present(e, bits) == e.bits \cap bits # {}

(* What an entry of each level covers; PML4T_INDEX .. PT_INDEX, and the      *)
(* macros of the page frame and the offset.                                  *)
Size(level) == <<8, 4, 2, 1>>[level]
Index(level, x) == (x \div Size(level)) % 2
PFN(x, size) == (x \div size) * size
OFFSET(x, size) == x % size

kmalloc(m, n) == m \o [i \in 1 .. n |-> ZeroPage]      \* of n zeroed frames

--------------------------------------------------------------------------------
(* The walk of the software: tr gives the frame of a table (the identity for *)
(* the host's own tables).  Below a 2MB page it takes the frame of the page  *)
(* directory's entry above, not that of the page.                            *)
Walk(m, root, x, tr, bits) ==
  LET ent(t, level) == IF t = Unmapped THEN None ELSE m[t][Index(level, x)]
      next(e) == IF Present(e, bits) THEN tr[e.a] ELSE Unmapped
      pml4e == ent(tr[root], 1)
      pdpte == ent(next(pml4e), 2)
      pde == ent(IF pdpte.big THEN Unmapped ELSE next(pdpte), 3)
      pte == ent(IF pde.big THEN Unmapped ELSE next(pde), 4)
  IN  CASE Present(pdpte, bits) /\ pdpte.big -> PFN(pdpte.a, Size(2)) + OFFSET(x, Size(2))
        [] Present(pde, bits) /\ pde.big -> PFN(pdpte.a, Size(3)) + OFFSET(x, Size(3))
        [] Present(pte, bits) -> pte.a
        [] OTHER -> Unmapped

Here(m) == [f \in 0 .. Len(m) |-> f]
ept_gpa_to_hpa_any(m, base, gpa) == Walk(m, base, gpa, Here(m), EPT_PRESENT)
ept_gpa_to_hpa(m, eptp, gpa) == ept_gpa_to_hpa_any(m, eptp, gpa)      \* of the vcpu's EPT
Frames(m, eptp) == [gpa \in Addr |-> ept_gpa_to_hpa(m, eptp, gpa)]
paging64_gva_to_gpa(m, eptp, cr3, gva) == Walk(m, cr3, gva, Frames(m, eptp), PG_PRESENT)
(* Mutant: the present bit of x86-64 is tested in an EPT. *)
NestedPresentBit(m, eptp, ept12, l2gpa) == Walk(m, ept12, l2gpa, Frames(m, eptp), PG_PRESENT)
nested_ept_l2gpa_to_l1gpa(m, eptp, ept12, l2gpa) ==
  Walk(m, ept12, l2gpa, Frames(m, eptp), EPT_PRESENT)

--------------------------------------------------------------------------------
(* What the processor does: the table of each level of the walk, and the     *)
(* level of the entry that maps the page.                                    *)
Tables(m, root, x, tr, bits) ==
  LET below(t, l) ==
        LET e == m[t][Index(l, x)]
        IN  IF t # Unmapped /\ Present(e, bits) /\ ~ (e.big /\ l \in 2 .. 3) THEN tr[e.a] ELSE Unmapped
      t1 == tr[root]
      t2 == below(t1, 1)
      t3 == below(t2, 2)
  IN  <<t1, t2, t3, below(t3, 3)>>
Leaf(m, root, x, tr, bits) ==
  LET t == Tables(m, root, x, tr, bits)
  IN  {l \in 2 .. 4 : t[l] # Unmapped /\ LET e == m[t[l]][Index(l, x)]
                                         IN  Present(e, bits) /\ (l = 4 \/ e.big)}
Translate(m, root, x, tr, bits) ==
  LET t == Tables(m, root, x, tr, bits)
      leaf == Leaf(m, root, x, tr, bits)
      l == CHOOSE k \in leaf : TRUE
  IN  IF leaf = {} THEN Unmapped ELSE PFN(m[t[l]][Index(l, x)].a, Size(l)) + OFFSET(x, Size(l))

--------------------------------------------------------------------------------
(* A table for entry i of table t, if there is none.  The entry is all zero, *)
(* or not.                                                                   *)
WithTable(m, t, i) ==
  IF m[t][i] # None THEN m
  ELSE [kmalloc(m, 1) EXCEPT ![t][i] = Entry(Len(m) + 1, Bits, FALSE)]

(* Mutant: the page table is always a new one. *)
MapPageFresh(m, root, gpa, hpa) ==
  LET i(l) == Index(l, gpa)
      m1 == WithTable(m, root, i(1))           pdpt == m1[root][i(1)].a
      m2 == WithTable(m1, pdpt, i(2))          pdt == m2[pdpt][i(2)].a
      m3 == [kmalloc(m2, 1) EXCEPT ![pdt][i(3)] = Entry(Len(m2) + 1, Bits, FALSE)]
  IN  [m3 EXCEPT ![m3[pdt][i(3)].a][i(4)] = Entry(hpa, Bits, FALSE)]
(* Its callers only map pages of 4KB. *)
ept_map_page(m, root, gpa, hpa) ==
  LET i(l) == Index(l, gpa)
      m1 == WithTable(m, root, i(1))           pdpt == m1[root][i(1)].a
      m2 == WithTable(m1, pdpt, i(2))          pdt == m2[pdpt][i(2)].a
      m3 == WithTable(m2, pdt, i(3))           pt == m3[pdt][i(3)].a
  IN  [m3 EXCEPT ![pt][i(4)] = Entry(hpa, Bits, FALSE)]

map_guest_memory(m, root, gpa, hpa, n) ==
  LET mapped[k \in 0 .. n] ==
        IF k = 0 THEN m ELSE ept_map_page(mapped[k - 1], root, gpa + k - 1, hpa + k - 1)
  IN  mapped[n]
================================================================================
