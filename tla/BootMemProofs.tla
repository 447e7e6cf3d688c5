----------------------------- MODULE BootMemProofs -----------------------------
(***************************************************************************)
(* Proofs about BootMem for every page size, alignment, firmware map and   *)
(* set of request sizes.  As long as nothing is freed (kfree is empty and  *)
(* bootmem_free has no caller), blocks never overlap and lie in usable     *)
(* memory; the kernel image is safe even if bootmem_free is called.        *)
(***************************************************************************)
EXTENDS BootMem, FiniteSetTheorems, TLAPS

(* Adding on the left keeps an order. *)
LEMMA AddMono ==
    ASSUME NEW x \in Nat, NEW y \in Nat, NEW z \in Nat, y <= z
    PROVE  x + y <= x + z
OBVIOUS

(* A page ends before the next one starts. *)
LEMMA PagesApart ==
    ASSUME NEW p \in Nat, NEW q \in Nat, p < q
    PROVE  p * PAGE + PAGE <= q * PAGE
<1>1. PAGE \in Nat /\ q - p - 1 \in Nat
  BY BootMemAssumption
<1>2. (q - p - 1) * PAGE >= 0
  BY <1>1
<1>3. (q - p - 1) * PAGE = q * PAGE - p * PAGE - PAGE
  BY <1>1
<1> QED
  BY <1>1, <1>2, <1>3

(* Page numbers and addresses are ordered alike. *)
LEMMA PageOrder ==
    ASSUME NEW p \in Nat, NEW q \in Nat
    PROVE  /\ p * PAGE \in Nat /\ q * PAGE \in Nat
           /\ p <= q => p * PAGE <= q * PAGE /\ (q - p) * PAGE = q * PAGE - p * PAGE
           /\ p * PAGE < q * PAGE => p < q
<1>1. PAGE \in Nat
  BY BootMemAssumption
<1>2. p * PAGE \in Nat /\ q * PAGE \in Nat
  BY <1>1
<1>3. p < q => p * PAGE + PAGE <= q * PAGE
  BY PagesApart
<1>4. q < p => q * PAGE + PAGE <= p * PAGE
  BY PagesApart
<1>5. (q - p) * PAGE = q * PAGE - p * PAGE
  BY <1>1
<1> QED
  BY <1>1, <1>2, <1>3, <1>4, <1>5

(* roundup(x, ALIGN) is at least x, and at most a page if x is. *)
LEMMA RoundupFacts ==
    ASSUME NEW x \in Nat, x <= PAGE
    PROVE  roundup(x, ALIGN) \in x .. PAGE
<1> DEFINE d == (x + (ALIGN - 1)) \div ALIGN
           k == PAGE \div ALIGN
<1>1. ALIGN \in Nat /\ ALIGN > 0 /\ PAGE \in Nat /\ PAGE % ALIGN = 0
  BY BootMemAssumption
<1>2. d \in Nat /\ d * ALIGN <= x + (ALIGN - 1) /\ x + (ALIGN - 1) < d * ALIGN + ALIGN
  BY <1>1
<1>3. k \in Nat /\ PAGE = k * ALIGN
  BY <1>1
<1> HIDE DEF d, k
<1>4. x <= d * ALIGN /\ d * ALIGN \in Nat
  BY <1>1, <1>2
<1>5. d <= k
  <2> SUFFICES ASSUME k < d PROVE FALSE
    BY <1>2, <1>3
  <2>1. (d - k - 1) * ALIGN >= 0 /\ (d - k - 1) * ALIGN = d * ALIGN - k * ALIGN - ALIGN
    BY <1>1, <1>2, <1>3
  <2> QED
    BY <2>1, <1>1, <1>2, <1>3, <1>4
<1>6. d * ALIGN <= k * ALIGN
  <2>1. (k - d) * ALIGN >= 0 /\ (k - d) * ALIGN = k * ALIGN - d * ALIGN
    BY <1>1, <1>2, <1>3, <1>5
  <2> QED
    BY <2>1, <1>1, <1>2, <1>3, <1>4
<1> QED
  BY <1>1, <1>3, <1>4, <1>6 DEF roundup, d

(* Nothing is rounded up to nothing. *)
LEMMA RoundupZero == roundup(0, ALIGN) = 0
<1>1. ALIGN \in Nat /\ ALIGN > 0
  BY BootMemAssumption
<1>2. (0 + (ALIGN - 1)) \div ALIGN = 0
  BY <1>1
<1> QED
  BY <1>1, <1>2 DEF roundup

(* The bump offset a small block at off leaves behind: 0 if it ends with the *)
(* page, otherwise on the page and not before the block's end.               *)
LEMMA OffsetFacts ==
    ASSUME NEW end \in Nat, end <= PAGE
    PROVE  /\ roundup(end % PAGE, ALIGN) \in 0 .. PAGE
           /\ roundup(end % PAGE, ALIGN) # 0 => end # 0 /\ end <= roundup(end % PAGE, ALIGN)
<1>1. PAGE \in Nat /\ PAGE > 0
  BY BootMemAssumption
<1>2. CASE end = PAGE
  <2>1. end % PAGE = 0
    BY <1>1, <1>2
  <2> QED
    BY <2>1, <1>1, RoundupZero
<1>3. CASE end < PAGE
  <2>1. end % PAGE = end
    BY <1>1, <1>3
  <2>2. roundup(end, ALIGN) \in end .. PAGE
    BY <1>1, <1>3, RoundupFacts
  <2>3. end = 0 => roundup(end, ALIGN) = 0
    BY RoundupZero
  <2> QED
    BY <2>1, <2>2, <2>3, <1>1
<1> QED
  BY <1>1, <1>2, <1>3

-------------------------------------------------------------------------------
(* What find_free_bitmap finds: a run of free pages, one more than needed. *)
LEMMA HoleFacts ==
    ASSUME NEW size \in Nat, NEW p \in find_free_bitmap(size)
    PROVE  /\ p \in Page /\ p \in Nat
           /\ \E m \in Nat : /\ p + m \in Page /\ m * PAGE >= size
                             /\ \A q \in p .. p + m : q \in Page /\ q \notin bitmap
<1>1. p \in Page /\ \E m \in 0 .. NPages - 1 - p :
                        /\ m * PAGE >= size
                        /\ \A q \in p .. p + m : q \notin bitmap
  BY DEF find_free_bitmap, Holes
<1>2. PICK m \in 0 .. NPages - 1 - p : /\ m * PAGE >= size
                                        /\ \A q \in p .. p + m : q \notin bitmap
  BY <1>1
<1>3. NPages \in Nat
  BY BootMemAssumption
<1>4. p \in Nat /\ m \in Nat /\ p + m \in Page /\ \A q \in p .. p + m : q \in Page
  BY <1>1, <1>2, <1>3 DEF Page
<1> QED
  BY <1>1, <1>2, <1>4

(* The blocks handed out so far end before a run of free pages or start      *)
(* behind it: a block marks every page it touches.                           *)
LEMMA FreeRun ==
    ASSUME TypeOK, BlocksMarked, BlocksPlaced, NEW a \in blocks, a.size > 0,
           NEW p \in Page, NEW m \in Nat, p + m \in Page,
           \A q \in p .. p + m : q \in Page /\ q \notin bitmap
    PROVE  Addr(a) + a.size <= p * PAGE \/ Addr(a) >= (p + m) * PAGE
<1>1. /\ a.pfn \in Nat /\ a.off \in Nat /\ a.size \in Nat
      /\ a.pfn \in Page /\ PAGE \in Nat /\ p \in Nat /\ NPages \in Nat
  BY BootMemAssumption DEF TypeOK, Block, BlocksPlaced, Page
<1>2. a.pfn * PAGE \in Nat /\ p * PAGE \in Nat /\ (p + m) * PAGE \in Nat
  BY <1>1, PageOrder
<1>3. CASE a.pfn < p
  <2>1. p \notin bitmap
    BY <1>1
  <2>2. ~((p - a.pfn) * PAGE < a.off + a.size)
    BY <2>1, <1>1, <1>3 DEF BlocksMarked, Touches
  <2>3. (p - a.pfn) * PAGE = p * PAGE - a.pfn * PAGE
    BY <1>1, <1>3, PageOrder
  <2> QED
    BY <2>2, <2>3, <1>1, <1>2 DEF Addr
<1>4. CASE p <= a.pfn /\ a.pfn <= p + m
  <2>1. a.pfn \notin bitmap
    BY <1>1, <1>4
  <2>2. (a.pfn - a.pfn) * PAGE = 0
    BY <1>1
  <2>3. Touches(a, a.pfn)
    BY <2>2, <1>1 DEF Touches
  <2> QED
    BY <2>1, <2>3, <1>1 DEF BlocksMarked
<1>5. CASE p + m < a.pfn
  <2>1. (p + m) * PAGE <= a.pfn * PAGE
    BY <1>1, <1>5, PageOrder
  <2> QED
    BY <2>1, <1>1, <1>2 DEF Addr
<1> QED
  BY <1>1, <1>3, <1>4, <1>5

-------------------------------------------------------------------------------
(* A block of n bytes at p * PAGE + o that is apart from all others. *)
LEMMA AddBlock ==
    ASSUME TypeOK, NoOverlap, NEW p \in Nat, NEW o \in Nat, NEW n \in Nat,
           HandOut(p, o, n),
           \A a \in blocks : a.size > 0 => \/ Addr(a) + a.size <= p * PAGE + o
                                           \/ Addr(a) >= p * PAGE + o + n
    PROVE  blocks' \subseteq Block /\ NoOverlap'
<1> DEFINE b == [pfn |-> p, off |-> o, size |-> n]
<1>1. b \in Block /\ b.size = n /\ Addr(b) = p * PAGE + o
  BY DEF Block, Addr
<1>2. blocks' = blocks \cup {b}
  BY DEF HandOut
<1> HIDE DEF b
<1>3. blocks' \subseteq Block
  BY <1>1, <1>2 DEF TypeOK
<1>4. \A a \in blocks : a.size > 0 => Before(a, b) \/ Before(b, a)
  <2> SUFFICES ASSUME NEW a \in blocks, a.size > 0 PROVE Before(a, b) \/ Before(b, a)
    OBVIOUS
  <2> QED
    BY <1>1 DEF Before
<1>5. NoOverlap'
  BY <1>2, <1>4 DEF NoOverlap, Before, Addr
<1> QED
  BY <1>3, <1>5

(* A block at the start of a run of free pages that find_free_bitmap found:  *)
(* what AllocPages, NewBumpPage and SpillToNewPage do, up to where the bump  *)
(* pointer is left.                                                          *)
LEMMA FreshBlock ==
    ASSUME IInv, NEW size \in Nat, NEW want \in Nat, size <= want,
           NEW p \in find_free_bitmap(want),
           HandOut(p, 0, size), bitmap' = bitmap \cup Area(p, size),
           ram' = ram, freeing' = freeing, pfn' \in Nat, offset' \in 0 .. PAGE,
           offset' # 0 => pfn' = p /\ want >= PAGE /\ size # 0 /\ size <= offset'
    PROVE  IInv'
<1> DEFINE b == [pfn |-> p, off |-> 0, size |-> size]
<1>1. /\ TypeOK /\ NoOverlap /\ BlocksMarked /\ BlocksPlaced /\ BumpPageOwned
      /\ FreeBacked /\ InUsableMemory /\ freeing = {}
  BY DEF IInv
<1>2. p \in Page /\ p \in Nat
  BY HoleFacts
<1>3. PICK m \in Nat : /\ p + m \in Page /\ m * PAGE >= want
                       /\ \A q \in p .. p + m : q \in Page /\ q \notin bitmap
  BY HoleFacts
<1>4. /\ PAGE \in Nat /\ PAGE > 0 /\ NPages \in Nat /\ p * PAGE \in Nat /\ m * PAGE \in Nat
      /\ (p + m) * PAGE = p * PAGE + m * PAGE
  BY <1>2, <1>3, BootMemAssumption
<1>5. \A a \in blocks : a.size > 0 => \/ Addr(a) + a.size <= p * PAGE
                                      \/ Addr(a) >= p * PAGE + m * PAGE
  BY <1>1, <1>2, <1>3, <1>4, FreeRun
<1>6. \A a \in blocks : Addr(a) \in Nat /\ a.size \in Nat
  <2> SUFFICES ASSUME NEW a \in blocks PROVE Addr(a) \in Nat /\ a.size \in Nat
    OBVIOUS
  <2>1. a.pfn \in Nat /\ a.off \in Nat /\ a.size \in Nat
    BY <1>1 DEF TypeOK, Block
  <2> QED
    BY <2>1, <1>4 DEF Addr
<1>7. blocks' \subseteq Block /\ NoOverlap'
  <2>1. \A a \in blocks : a.size > 0 => \/ Addr(a) + a.size <= p * PAGE + 0
                                        \/ Addr(a) >= p * PAGE + 0 + size
    BY <1>3, <1>4, <1>5, <1>6
  <2> QED
    BY <2>1, <1>1, <1>2, AddBlock
<1>8. blocks' = blocks \cup {b} /\ b.pfn = p /\ b.off = 0 /\ b.size = size /\ Addr(b) = p * PAGE
  BY <1>4 DEF HandOut, Addr
<1> HIDE DEF b
<1>9. Area(p, size) \subseteq Page
  BY DEF Area
<1>10. TypeOK'
  BY <1>1, <1>7, <1>9 DEF TypeOK
<1>11. BlocksMarked'
  <2> SUFFICES ASSUME NEW a \in blocks', NEW q \in Page, Touches(a, q) PROVE q \in bitmap'
    BY DEF BlocksMarked
  <2>1. CASE a \in blocks
    BY <2>1, <1>1 DEF BlocksMarked
  <2>2. CASE a = b
    BY <2>2, <1>8 DEF Touches, Area
  <2> QED
    BY <2>1, <2>2, <1>8
<1>12. BlocksPlaced'
  BY <1>1, <1>2, <1>4, <1>8 DEF BlocksPlaced
<1>13. \A q \in Page : q >= p /\ (q - p) * PAGE < size => Backed(q)
  <2> SUFFICES ASSUME NEW q \in Page, q >= p, (q - p) * PAGE < size PROVE Backed(q)
    OBVIOUS
  <2>1. q \in Nat /\ q - p \in Nat
    BY <1>2, <1>4 DEF Page
  <2>2. (q - p) * PAGE < m * PAGE
    BY <2>1, <1>3, <1>4
  <2>3. q - p < m
    BY <2>1, <2>2, PageOrder
  <2>4. q \notin bitmap
    BY <2>1, <2>3, <1>2, <1>3
  <2> QED
    BY <2>4, <1>1 DEF FreeBacked
<1>14. \A q : Backed(q)' <=> Backed(q)
  BY DEF Backed
<1>15. BumpPageOwned'
  <2> SUFFICES ASSUME offset' # 0
               PROVE  /\ pfn' \in bitmap' /\ Backed(pfn)'
                      /\ \A a \in blocks' : a.size > 0 =>
                            \/ Addr(a) + a.size <= pfn' * PAGE + offset'
                            \/ Addr(a) >= pfn' * PAGE + PAGE
    BY DEF BumpPageOwned
  <2>1. pfn' = p /\ want >= PAGE /\ size # 0 /\ size <= offset' /\ offset' \in Nat
    BY <1>4
  <2>2. p >= p /\ (p - p) * PAGE < size
    BY <2>1, <1>2, <1>4
  <2>3. p \in bitmap' /\ Backed(p)
    BY <2>2, <1>2, <1>13 DEF Area
  <2>4. Backed(pfn)'
    BY <2>1, <2>3 DEF Backed
  <2>5. ASSUME NEW a \in blocks', a.size > 0
        PROVE  Addr(a) + a.size <= p * PAGE + offset' \/ Addr(a) >= p * PAGE + PAGE
    <3>1. CASE a \in blocks
      <4>1. Addr(a) \in Nat /\ a.size \in Nat /\ m * PAGE >= PAGE
        BY <3>1, <2>1, <1>3, <1>4, <1>6
      <4>2. Addr(a) + a.size <= p * PAGE \/ Addr(a) >= p * PAGE + m * PAGE
        BY <3>1, <2>5, <1>5
      <4> QED
        BY <4>1, <4>2, <2>1, <1>4
    <3>2. CASE a = b
      <4>1. Addr(a) = p * PAGE /\ a.size = size
        BY <3>2, <1>8
      <4>2. PICK z \in Nat : z = offset' /\ size <= z
        BY <2>1
      <4>3. p * PAGE + size <= p * PAGE + z
        BY <4>2, <1>4, AddMono
      <4> QED
        BY <4>1, <4>2, <4>3
    <3> QED
      BY <3>1, <3>2, <1>8
  <2> QED
    BY <2>1, <2>3, <2>4, <2>5
<1>16. FreeBacked'
  BY <1>1, <1>14 DEF FreeBacked
<1>17. InUsableMemory'
  <2> SUFFICES ASSUME NEW a \in blocks', NEW q \in 0 .. NPages,
                      q >= a.pfn, (q - a.pfn) * PAGE < a.off + a.size
               PROVE  Backed(q)
    BY <1>14 DEF InUsableMemory
  <2>1. CASE a \in blocks
    BY <2>1, <1>1 DEF InUsableMemory
  <2>2. CASE a = b
    <3>1. q \in Nat /\ q - p \in Nat /\ q >= p /\ (q - p) * PAGE < size
      BY <2>2, <1>2, <1>8
    <3>2. (q - p) * PAGE < m * PAGE
      BY <3>1, <1>3, <1>4
    <3>3. q - p < m
      BY <3>1, <3>2, PageOrder
    <3>4. q \in Page
      BY <3>1, <3>3, <1>2, <1>3
    <3> QED
      BY <3>1, <3>4, <1>13
  <2> QED
    BY <2>1, <2>2, <1>8
<1> QED
  BY <1>1, <1>7, <1>10, <1>11, <1>12, <1>15, <1>16, <1>17 DEF IInv

(* A block behind the last one on the bump page. *)
LEMMA BumpStep ==
    ASSUME IInv, NEW size \in Nat, BumpAlloc(size)
    PROVE  IInv'
<1> DEFINE b == [pfn |-> pfn, off |-> offset, size |-> size]
<1>1. /\ TypeOK /\ NoOverlap /\ BlocksMarked /\ BlocksPlaced /\ BumpPageOwned
      /\ FreeBacked /\ InUsableMemory /\ freeing = {}
  BY DEF IInv
<1>2. /\ size < PAGE /\ offset + size <= PAGE /\ offset # 0 /\ HandOut(pfn, offset, size)
      /\ offset' = roundup((offset + size) % PAGE, ALIGN)
      /\ bitmap' = bitmap /\ pfn' = pfn /\ ram' = ram /\ freeing' = freeing
  BY DEF BumpAlloc, Quiet
<1>3. /\ PAGE \in Nat /\ PAGE > 0 /\ NPages \in Nat
      /\ offset \in Nat /\ offset <= PAGE /\ pfn \in Nat /\ pfn * PAGE \in Nat
  BY <1>1, BootMemAssumption, PageOrder DEF TypeOK
<1>4. /\ pfn \in bitmap /\ Backed(pfn)
      /\ \A a \in blocks : a.size > 0 => \/ Addr(a) + a.size <= pfn * PAGE + offset
                                         \/ Addr(a) >= pfn * PAGE + PAGE
  BY <1>1, <1>2 DEF BumpPageOwned
<1>5. /\ offset' \in 0 .. PAGE
      /\ offset' # 0 => offset + size <= offset'
  <2>1. offset + size \in Nat /\ offset + size <= PAGE
    BY <1>2, <1>3
  <2> QED
    BY <2>1, <1>2, OffsetFacts
<1>6. \A a \in blocks : Addr(a) \in Nat /\ a.size \in Nat
  <2> SUFFICES ASSUME NEW a \in blocks PROVE Addr(a) \in Nat /\ a.size \in Nat
    OBVIOUS
  <2>1. a.pfn \in Nat /\ a.off \in Nat /\ a.size \in Nat
    BY <1>1 DEF TypeOK, Block
  <2> QED
    BY <2>1, <1>3 DEF Addr
<1>7. blocks' \subseteq Block /\ NoOverlap'
  <2>1. \A a \in blocks : a.size > 0 => \/ Addr(a) + a.size <= pfn * PAGE + offset
                                        \/ Addr(a) >= pfn * PAGE + offset + size
    BY <1>2, <1>3, <1>4, <1>6
  <2> QED
    BY <2>1, <1>1, <1>2, <1>3, AddBlock
<1>8. /\ blocks' = blocks \cup {b} /\ b.pfn = pfn /\ b.off = offset /\ b.size = size
      /\ Addr(b) = pfn * PAGE + offset
  BY <1>2 DEF HandOut, Addr
<1> HIDE DEF b
<1>9. TypeOK'
  BY <1>1, <1>2, <1>5, <1>7 DEF TypeOK
<1>10. pfn \in Page
  BY <1>1, <1>4 DEF TypeOK
<1>11. \A q \in 0 .. NPages : q >= pfn /\ (q - pfn) * PAGE < offset + size => q = pfn
  <2> SUFFICES ASSUME NEW q \in 0 .. NPages, q >= pfn, (q - pfn) * PAGE < offset + size
               PROVE  q = pfn
    OBVIOUS
  <2>1. q - pfn \in Nat /\ (q - pfn) * PAGE < 1 * PAGE
    BY <1>2, <1>3
  <2>2. q - pfn < 1
    BY <2>1, PageOrder
  <2> QED
    BY <2>1, <2>2, <1>3
<1>12. Page \subseteq 0 .. NPages
  BY <1>3 DEF Page
<1>13. BlocksMarked'
  <2> SUFFICES ASSUME NEW a \in blocks', NEW q \in Page, Touches(a, q) PROVE q \in bitmap
    BY <1>2 DEF BlocksMarked
  <2>1. CASE a \in blocks
    BY <2>1, <1>1 DEF BlocksMarked
  <2>2. CASE a = b
    <3>1. q >= pfn /\ (q - pfn) * PAGE < offset + size
      BY <2>2, <1>8 DEF Touches
    <3> QED
      BY <3>1, <1>4, <1>11, <1>12
  <2> QED
    BY <2>1, <2>2, <1>8
<1>14. BlocksPlaced'
  BY <1>1, <1>2, <1>3, <1>8, <1>10 DEF BlocksPlaced
<1>15. \A q : Backed(q)' <=> Backed(q)
  BY <1>2 DEF Backed
<1>16. BumpPageOwned'
  <2> SUFFICES ASSUME offset' # 0
               PROVE  /\ pfn \in bitmap /\ Backed(pfn)'
                      /\ \A a \in blocks' : a.size > 0 =>
                            \/ Addr(a) + a.size <= pfn * PAGE + offset'
                            \/ Addr(a) >= pfn * PAGE + PAGE
    BY <1>2 DEF BumpPageOwned
  <2>1. offset + size <= offset' /\ offset' \in Nat
    BY <1>3, <1>5
  <2>2. Backed(pfn)'
    BY <1>2, <1>4 DEF Backed
  <2>3. ASSUME NEW a \in blocks', a.size > 0
        PROVE  Addr(a) + a.size <= pfn * PAGE + offset' \/ Addr(a) >= pfn * PAGE + PAGE
    <3>1. CASE a \in blocks
      <4>1. Addr(a) \in Nat /\ a.size \in Nat
        BY <3>1, <1>6
      <4>2. Addr(a) + a.size <= pfn * PAGE + offset \/ Addr(a) >= pfn * PAGE + PAGE
        BY <3>1, <2>3, <1>4
      <4> QED
        BY <4>1, <4>2, <2>1, <1>3
    <3>2. CASE a = b
      <4>1. Addr(a) = pfn * PAGE + offset /\ a.size = size
        BY <3>2, <1>8
      <4>2. PICK z \in Nat : z = offset' /\ offset + size <= z
        BY <2>1
      <4>3. pfn * PAGE + (offset + size) <= pfn * PAGE + z
        <5>1. offset + size \in Nat
          BY <1>3
        <5> QED
          BY <5>1, <4>2, <1>3, AddMono
      <4>4. Addr(a) + a.size = pfn * PAGE + (offset + size)
        BY <4>1, <1>3
      <4> QED
        BY <4>2, <4>3, <4>4
    <3> QED
      BY <3>1, <3>2, <1>8
  <2> QED
    BY <2>2, <2>3, <1>4
<1>17. FreeBacked'
  BY <1>1, <1>2, <1>15 DEF FreeBacked
<1>18. InUsableMemory'
  <2> SUFFICES ASSUME NEW a \in blocks', NEW q \in 0 .. NPages,
                      q >= a.pfn, (q - a.pfn) * PAGE < a.off + a.size
               PROVE  Backed(q)
    BY <1>15 DEF InUsableMemory
  <2>1. CASE a \in blocks
    BY <2>1, <1>1 DEF InUsableMemory
  <2>2. CASE a = b
    BY <2>2, <1>4, <1>8, <1>11
  <2> QED
    BY <2>1, <2>2, <1>8
<1> QED
  BY <1>1, <1>2, <1>7, <1>9, <1>13, <1>14, <1>16, <1>17, <1>18 DEF IInv

-------------------------------------------------------------------------------
(* bootmem_init leaves exactly usable pages outside the kernel image free.   *)
LEMMA InitIInv == Init => IInv
<1> SUFFICES ASSUME Init PROVE IInv
  OBVIOUS
<1>1. /\ ram \in Maps /\ bitmap = bootmem_init(ram) /\ pfn = 1 /\ offset = 0
      /\ blocks = {} /\ freeing = {}
  BY DEF Init
<1>2. NPages \in Nat /\ PAGE \in Nat /\ Kernel \in 1 .. NPages /\ Default \in 0 .. NPages
  BY BootMemAssumption
<1>3. \A r \in ram : r.base \in Nat /\ r.length \in Nat
  BY <1>1, BootMemAssumption DEF Region
<1>4. bitmap \subseteq Page
  BY <1>1, <1>2 DEF bootmem_init, Page
<1>5. TypeOK
  BY <1>1, <1>2, <1>4 DEF TypeOK
<1>6. FreeBacked
  <2> SUFFICES ASSUME NEW q \in Page, q \notin bitmap PROVE Backed(q)
    BY DEF FreeBacked
  <2>1. q \in Nat /\ q \notin 0 .. Kernel - 1 /\ q >= Kernel
    BY <1>1, <1>2 DEF bootmem_init, Page
  <2>2. CASE ram = {}
    <3>1. q \in 0 .. Default - 1
      BY <2>2, <1>1 DEF bootmem_init
    <3> QED
      BY <3>1, <2>1, <2>2, <1>2 DEF Backed
  <2>3. CASE ram # {}
    <3>1. PICK r \in ram : Usable(r) /\ q \in r.base .. r.base + r.length - 1
      BY <2>3, <1>1 DEF bootmem_init
    <3> QED
      BY <3>1, <2>1 DEF Backed, Usable
  <2> QED
    BY <2>2, <2>3
<1> QED
  BY <1>1, <1>5, <1>6 DEF IInv, NoOverlap, BlocksMarked, BlocksPlaced, BumpPageOwned,
                          InUsableMemory

(* Every bootmem_alloc preserves IInv. *)
LEMMA AllocStep ==
    ASSUME IInv, NEW size \in Nat, bootmem_alloc(size)
    PROVE  IInv'
<1>1. TypeOK /\ BumpPageOwned /\ freeing = {}
  BY DEF IInv
<1>2. PAGE \in Nat /\ PAGE > 0 /\ 0 \in 0 .. PAGE
  BY BootMemAssumption
<1>3. \A p, n : p \in find_free_bitmap(n) => p \in Nat
  BY BootMemAssumption DEF find_free_bitmap, Holes, Page
<1>4. CASE AllocPages(size)
  <2>1. PICK p \in find_free_bitmap(size) :
           bitmap' = bitmap \cup Area(p, size) /\ HandOut(p, 0, size)
    BY <1>4 DEF AllocPages
  <2>2. offset' = 0 /\ pfn' = pfn /\ pfn \in Nat /\ ram' = ram /\ freeing' = freeing
    BY <1>1, <1>4 DEF AllocPages, Quiet, TypeOK
  <2>3. size <= size
    OBVIOUS
  <2> QED
    BY <2>1, <2>2, <2>3, <1>2, FreshBlock
<1>5. CASE BumpAlloc(size)
  BY <1>5, BumpStep
<1>6. CASE NewBumpPage(size)
  <2>1. PICK p \in find_free_bitmap(PAGE) :
           /\ HandOut(p, 0, size) /\ pfn' = p
           /\ bitmap' = bitmap \cup Area(p, size)
    BY <1>6 DEF NewBumpPage
  <2>2. /\ size < PAGE /\ offset = 0 /\ offset' = roundup((offset + size) % PAGE, ALIGN)
        /\ ram' = ram /\ freeing' = freeing
    BY <1>6 DEF NewBumpPage, Quiet
  <2>3. offset + size = size /\ size <= PAGE /\ PAGE >= PAGE
    BY <2>2, <1>2
  <2>4. offset' \in 0 .. PAGE /\ (offset' # 0 => size # 0 /\ size <= offset')
    BY <2>2, <2>3, OffsetFacts
  <2>5. pfn' \in Nat
    BY <2>1, <1>3
  <2> QED
    BY <2>1, <2>2, <2>3, <2>4, <2>5, <1>2, FreshBlock
<1>7. CASE SpillToNewPage(size)
  <2>1. PICK p \in find_free_bitmap(PAGE) :
           /\ HandOut(p, 0, size) /\ pfn' = p
           /\ bitmap' = bitmap \cup Area(p, size)
    BY <1>7 DEF SpillToNewPage
  <2>2. size < PAGE /\ offset' = 0 /\ ram' = ram /\ freeing' = freeing
    BY <1>7 DEF SpillToNewPage, Quiet
  <2>3. size <= PAGE /\ pfn' \in Nat
    BY <2>1, <2>2, <1>2, <1>3
  <2> QED
    BY <2>1, <2>2, <2>3, <1>2, FreshBlock
<1>8. CASE SpillOverEnd(size)
  <2>1. offset # 0
    BY <1>1, <1>2, <1>8 DEF SpillOverEnd, TypeOK
  <2> QED
    BY <2>1, <1>1, <1>8 DEF SpillOverEnd, BumpPageOwned
<1>9. CASE AllocFails(size)
  <2>1. /\ bitmap' = bitmap /\ pfn' = pfn /\ blocks' = blocks /\ ram' = ram
        /\ freeing' = freeing /\ (offset' = 0 \/ offset' = offset)
    BY <1>9 DEF AllocFails, Quiet
  <2>2. TypeOK'
    BY <2>1, <1>1, <1>2 DEF TypeOK
  <2>3. /\ BumpPageOwned' /\ FreeBacked' /\ InUsableMemory'
    BY <2>1 DEF IInv, BumpPageOwned, FreeBacked, InUsableMemory, Backed
  <2>4. NoOverlap' /\ BlocksMarked' /\ BlocksPlaced'
    BY <2>1 DEF IInv, NoOverlap, BlocksMarked, BlocksPlaced
  <2> QED
    BY <2>1, <2>2, <2>3, <2>4, <1>1 DEF IInv
<1> QED
  BY <1>4, <1>5, <1>6, <1>7, <1>8, <1>9 DEF bootmem_alloc

(* As long as bootmem_free is never called, every step preserves IInv. *)
LEMMA NextIInv == MaxFrees = 0 /\ IInv /\ [Next]_vars => IInv'
<1> SUFFICES ASSUME MaxFrees = 0, IInv, [Next]_vars PROVE IInv'
  OBVIOUS
<1>1. ASSUME NEW size \in Sizes, bootmem_alloc(size) PROVE IInv'
  <2>1. size \in Nat
    BY BootMemAssumption
  <2> QED
    BY <1>1, <2>1, AllocStep
<1>2. ASSUME NEW b \in blocks, FreeRead(b) PROVE FALSE
  <2>1. Cardinality(freeing) = 0
    BY FS_EmptySet DEF IInv
  <2> QED
    BY <1>2, <2>1 DEF FreeRead
<1>3. CASE UNCHANGED vars
  BY <1>3 DEF vars, IInv, TypeOK, NoOverlap, BlocksMarked, BlocksPlaced, BumpPageOwned,
              FreeBacked, InUsableMemory, Backed
<1>4. freeing = {}
  BY DEF IInv
<1> QED
  BY <1>1, <1>2, <1>3, <1>4 DEF Next

(* The blocks bootmem_alloc hands out never share a byte, for every page     *)
(* size, alignment, memory map and sequence of sizes, if none is freed.      *)
THEOREM NoOverlapTheorem ==
    ASSUME MaxFrees = 0
    PROVE  Spec => []NoOverlap
<1>1. IInv => NoOverlap
  BY DEF IInv
<1>2. IInv /\ [Next]_vars => IInv'
  BY NextIInv
<1> QED
  BY <1>1, <1>2, InitIInv, PTL DEF Spec

(* ... and they lie in memory the firmware reported as usable, below the     *)
(* limit of the bitmap and outside the kernel image.                         *)
THEOREM UsableTheorem ==
    ASSUME MaxFrees = 0
    PROVE  Spec => []InUsableMemory
<1>1. IInv => InUsableMemory
  BY DEF IInv
<1>2. IInv /\ [Next]_vars => IInv'
  BY NextIInv
<1> QED
  BY <1>1, <1>2, InitIInv, PTL DEF Spec

-------------------------------------------------------------------------------
(* bootmem_init reserves the kernel image. *)
LEMMA InitKernelInv == Init => KernelInv
<1> SUFFICES ASSUME Init PROVE KernelInv
  OBVIOUS
<1>1. TypeOK
  BY InitIInv DEF IInv
<1>2. 0 .. Kernel - 1 \subseteq bitmap /\ blocks = {} /\ freeing = {} /\ offset = 0
  BY DEF Init, bootmem_init
<1> QED
  BY <1>1, <1>2 DEF KernelInv, KernelImageSafe

(* A run of free pages is outside the kernel image. *)
LEMMA HoleAboveKernel ==
    ASSUME KernelInv, NEW size \in Nat, NEW p \in find_free_bitmap(size)
    PROVE  p \in Nat /\ p >= Kernel
<1>1. p \in Page /\ p \in Nat /\ p \notin bitmap
  <2>1. PICK m \in Nat : \A q \in p .. p + m : q \in Page /\ q \notin bitmap
    BY HoleFacts
  <2> QED
    BY <2>1, HoleFacts
<1>2. p \notin 0 .. Kernel - 1 /\ Kernel \in Nat
  BY <1>1, BootMemAssumption DEF KernelInv, KernelImageSafe
<1> QED
  BY <1>1, <1>2

(* Every bootmem_alloc preserves KernelInv. *)
LEMMA AllocKernel ==
    ASSUME KernelInv, NEW size \in Nat, bootmem_alloc(size)
    PROVE  KernelInv'
<1>1. /\ TypeOK /\ 0 .. Kernel - 1 \subseteq bitmap /\ (\A b \in blocks : b.pfn >= Kernel)
      /\ (offset # 0 => pfn >= Kernel)
  BY DEF KernelInv, KernelImageSafe
<1>2. /\ PAGE \in Nat /\ PAGE > 0 /\ Kernel \in Nat /\ offset \in Nat /\ offset <= PAGE
      /\ pfn \in Nat
  BY <1>1, BootMemAssumption DEF TypeOK
<1>3. \A p \in find_free_bitmap(size) \cup find_free_bitmap(PAGE) : p \in Nat /\ p >= Kernel
  BY <1>2, HoleAboveKernel
<1>4. freeing' = freeing /\ ram' = ram
  BY DEF bootmem_alloc, AllocPages, BumpAlloc, NewBumpPage, SpillToNewPage, SpillOverEnd,
         AllocFails, Quiet
<1>5. bitmap \subseteq bitmap' /\ bitmap' \subseteq Page
  BY <1>1 DEF bootmem_alloc, AllocPages, BumpAlloc, NewBumpPage, SpillToNewPage,
              SpillOverEnd, AllocFails, Area, TypeOK
<1>6. \/ blocks' = blocks
      \/ \E p \in Nat, o \in Nat : p >= Kernel /\ HandOut(p, o, size)
  <2>1. CASE AllocPages(size)
    BY <2>1, <1>3 DEF AllocPages
  <2>2. CASE BumpAlloc(size)
    BY <2>2, <1>1, <1>2 DEF BumpAlloc
  <2>3. CASE NewBumpPage(size)
    BY <2>3, <1>3 DEF NewBumpPage
  <2>4. CASE SpillToNewPage(size)
    BY <2>4, <1>3 DEF SpillToNewPage
  <2>5. CASE SpillOverEnd(size)
    <3>1. offset # 0
      BY <2>5, <1>2 DEF SpillOverEnd
    <3> QED
      BY <2>5, <3>1, <1>1, <1>2 DEF SpillOverEnd
  <2>6. CASE AllocFails(size)
    BY <2>6 DEF AllocFails
  <2> QED
    BY <2>1, <2>2, <2>3, <2>4, <2>5, <2>6 DEF bootmem_alloc
<1>7. blocks' \subseteq Block /\ \A b \in blocks' : b.pfn >= Kernel
  BY <1>1, <1>6 DEF HandOut, Block, TypeOK
<1>8. \A x \in Nat : roundup(x % PAGE, ALIGN) \in 0 .. PAGE
  <2> SUFFICES ASSUME NEW x \in Nat PROVE roundup(x % PAGE, ALIGN) \in 0 .. PAGE
    OBVIOUS
  <2>1. x % PAGE \in Nat /\ x % PAGE <= PAGE
    BY <1>2
  <2>2. roundup(x % PAGE, ALIGN) \in (x % PAGE) .. PAGE
    BY <2>1, RoundupFacts
  <2> QED
    BY <2>1, <2>2, <1>2
<1>9. pfn' \in Nat /\ offset' \in 0 .. PAGE /\ (offset' # 0 => pfn' >= Kernel)
  <2>0. offset + size \in Nat
    BY <1>2
  <2>1. CASE AllocPages(size)
    BY <2>1, <1>2 DEF AllocPages
  <2>2. CASE BumpAlloc(size)
    BY <2>0, <2>2, <1>1, <1>2, <1>8 DEF BumpAlloc
  <2>3. CASE NewBumpPage(size)
    BY <2>0, <2>3, <1>3, <1>8 DEF NewBumpPage
  <2>4. CASE SpillToNewPage(size)
    BY <2>4, <1>2, <1>3 DEF SpillToNewPage
  <2>5. CASE SpillOverEnd(size)
    <3>1. offset # 0
      BY <2>5, <1>2 DEF SpillOverEnd
    <3>2. pfn' = pfn + 1 /\ offset' = roundup((offset + size) % PAGE, ALIGN)
      BY <2>5 DEF SpillOverEnd
    <3> QED
      BY <2>0, <3>1, <3>2, <1>1, <1>2, <1>8
  <2>6. CASE AllocFails(size)
    BY <2>6, <1>1, <1>2 DEF AllocFails, TypeOK
  <2> QED
    BY <2>1, <2>2, <2>3, <2>4, <2>5, <2>6 DEF bootmem_alloc
<1>10. TypeOK'
  BY <1>1, <1>4, <1>5, <1>7, <1>9 DEF TypeOK
<1> QED
  BY <1>1, <1>4, <1>5, <1>7, <1>9, <1>10 DEF KernelInv, KernelImageSafe

(* So does every step of bootmem_free, whose write puts back kernel bits as  *)
(* it has read them.                                                         *)
LEMMA NextKernelInv == KernelInv /\ [Next]_vars => KernelInv'
<1> SUFFICES ASSUME KernelInv, [Next]_vars PROVE KernelInv'
  OBVIOUS
<1>1. ASSUME NEW size \in Sizes, bootmem_alloc(size) PROVE KernelInv'
  BY <1>1, AllocKernel, BootMemAssumption
<1>2. ASSUME NEW b \in blocks, FreeRead(b) PROVE KernelInv'
  <2> DEFINE f == [page |-> b.pfn, seen |-> bitmap \cap ByteOf(b.pfn)]
  <2>1. /\ b.pfn \in Page /\ blocks' = blocks \ {b} /\ freeing' = freeing \cup {f}
        /\ bitmap' = bitmap /\ pfn' = pfn /\ offset' = offset /\ ram' = ram
    BY <1>2 DEF FreeRead
  <2>2. f.page = b.pfn /\ f.seen = bitmap \cap ByteOf(b.pfn)
    OBVIOUS
  <2> HIDE DEF f
  <2>3. TypeOK'
    BY <2>1, <2>2 DEF KernelInv, TypeOK
  <2>4. KernelImageSafe' /\ (offset' # 0 => pfn' >= Kernel)
    BY <2>1 DEF KernelInv, KernelImageSafe
  <2>5. ASSUME NEW g \in freeing'
        PROVE  g.page >= Kernel /\ (0 .. Kernel - 1) \cap ByteOf(g.page) \subseteq g.seen
    <3>1. CASE g \in freeing
      BY <3>1 DEF KernelInv
    <3>2. CASE g = f
      BY <3>2, <2>2 DEF KernelInv, KernelImageSafe
    <3> QED
      BY <3>1, <3>2, <2>1
  <2>6. \A q : ByteOf(q)' = ByteOf(q)
    BY DEF ByteOf
  <2> QED
    BY <2>3, <2>4, <2>5, <2>6 DEF KernelInv
<1>3. ASSUME NEW f \in freeing, FreeWrite(f) PROVE KernelInv'
  <2>1. /\ f.page >= Kernel /\ f.page \in Page /\ f.seen \subseteq Page
        /\ (0 .. Kernel - 1) \cap ByteOf(f.page) \subseteq f.seen
        /\ 0 .. Kernel - 1 \subseteq bitmap /\ bitmap \subseteq Page
    BY DEF KernelInv, TypeOK, KernelImageSafe
  <2>2. /\ freeing' \subseteq freeing
        /\ blocks' = blocks /\ pfn' = pfn /\ offset' = offset /\ ram' = ram
        /\ \/ bitmap' = (bitmap \ ByteOf(f.page)) \cup (f.seen \ {f.page})
           \/ bitmap' = bitmap
    BY <1>3 DEF FreeWrite
  <2>3. f.page \notin 0 .. Kernel - 1
    BY <2>1, BootMemAssumption DEF Page
  <2>4. 0 .. Kernel - 1 \subseteq bitmap' /\ bitmap' \subseteq Page
    BY <2>1, <2>2, <2>3
  <2> QED
    BY <2>2, <2>4 DEF KernelInv, KernelImageSafe, TypeOK
<1>4. CASE UNCHANGED vars
  BY <1>4 DEF vars, KernelInv, KernelImageSafe, TypeOK
<1> QED
  BY <1>1, <1>2, <1>3, <1>4 DEF Next

(* The kernel image stays reserved and no block is placed in it, however     *)
(* many bootmem_free calls race with the allocations.                        *)
THEOREM KernelTheorem == Spec => []KernelImageSafe
<1>1. KernelInv => KernelImageSafe
  BY DEF KernelInv
<1> QED
  BY <1>1, InitKernelInv, NextKernelInv, PTL DEF Spec

(* The allocator's state keeps its types, frees included. *)
THEOREM TypeCorrect == Spec => []TypeOK
<1>1. KernelInv => TypeOK
  BY DEF KernelInv
<1> QED
  BY <1>1, InitKernelInv, NextKernelInv, PTL DEF Spec
-------------------------------------------------------------------------------
(* Whole numbers of ALIGN bytes add up to whole numbers of ALIGN bytes. *)
Aligned(x) == \E k \in Nat : x = k * ALIGN

(* Multiples of the alignment are closed under what the allocator does.      *)
(* Multiples of the alignment are closed under what the allocator does.      *)
LEMMA AlignedFacts ==
    /\ \A x, y \in Nat : Aligned(x) /\ Aligned(y) => Aligned(x + y)
    /\ \A x \in Nat : Aligned(x) => x % ALIGN = 0
    /\ \A x \in Nat : Aligned(roundup(x, ALIGN))
    /\ \A p \in Nat : Aligned(p * PAGE)
<1>1. ALIGN \in Nat /\ ALIGN > 0 /\ PAGE \in Nat /\ PAGE % ALIGN = 0
  BY BootMemAssumption
<1>2. ASSUME NEW x \in Nat, NEW y \in Nat, Aligned(x), Aligned(y) PROVE Aligned(x + y)
  <2>1. PICK i \in Nat, j \in Nat : x = i * ALIGN /\ y = j * ALIGN
    BY <1>2 DEF Aligned
  <2>2. x + y = (i + j) * ALIGN /\ i + j \in Nat
    BY <2>1, <1>1
  <2> QED
    BY <2>2 DEF Aligned
<1>3. ASSUME NEW x \in Nat, Aligned(x) PROVE x % ALIGN = 0
  <2>1. PICK i \in Nat : x = i * ALIGN
    BY <1>3 DEF Aligned
  <2>2. (i * ALIGN) % ALIGN = 0
    BY <1>1
  <2> QED
    BY <2>1, <2>2
<1>4. ASSUME NEW x \in Nat PROVE Aligned(roundup(x, ALIGN))
  <2>1. (x + (ALIGN - 1)) \div ALIGN \in Nat
    BY <1>1
  <2> QED
    BY <2>1 DEF roundup, Aligned
<1>5. ASSUME NEW p \in Nat PROVE Aligned(p * PAGE)
  <2> DEFINE k == PAGE \div ALIGN
  <2>1. k \in Nat /\ PAGE = k * ALIGN
    BY <1>1
  <2> HIDE DEF k
  <2>2. p * (k * ALIGN) = (p * k) * ALIGN /\ p * k \in Nat
    BY <2>1, <1>1
  <2> QED
    BY <2>1, <2>2 DEF Aligned
<1> QED
  BY <1>2, <1>3, <1>4, <1>5

(* The bump offset and every block are on a 64-byte boundary. *)
AlignInv == /\ KernelInv
            /\ Aligned(offset)
            /\ \A b \in blocks : Aligned(Addr(b))

(* A block behind the bump offset, or at the start of a page, is aligned.    *)
LEMMA AllocAligned ==
    ASSUME AlignInv, NEW size \in Nat, bootmem_alloc(size)
    PROVE  Aligned(offset') /\ \A b \in blocks' : Aligned(Addr(b))
<1>1. /\ TypeOK /\ Aligned(offset) /\ \A b \in blocks : Aligned(Addr(b))
      /\ pfn \in Nat /\ offset \in Nat /\ PAGE \in Nat /\ PAGE > 0
  BY BootMemAssumption DEF AlignInv, KernelInv, TypeOK
<1>2. Aligned(0)
  BY BootMemAssumption DEF Aligned
<1>3. Aligned(roundup((offset + size) % PAGE, ALIGN))
  <2>1. offset + size \in Nat /\ (offset + size) % PAGE \in Nat
    BY <1>1
  <2> QED
    BY <2>1, AlignedFacts
<1>4. offset' \in {0, offset, roundup((offset + size) % PAGE, ALIGN)}
  BY DEF bootmem_alloc, AllocPages, BumpAlloc, NewBumpPage, SpillToNewPage, SpillOverEnd,
         AllocFails
<1>5. \A p, n : p \in find_free_bitmap(n) => p \in Nat
  BY BootMemAssumption DEF find_free_bitmap, Holes, Page
<1>6. \/ blocks' = blocks
      \/ \E p \in Nat, o \in {0, offset} : HandOut(p, o, size)
  BY <1>1, <1>5 DEF bootmem_alloc, AllocPages, BumpAlloc, NewBumpPage, SpillToNewPage,
                    SpillOverEnd, AllocFails
<1>7. ASSUME NEW p \in Nat, NEW o \in {0, offset}, HandOut(p, o, size)
      PROVE  \A b \in blocks' : Aligned(Addr(b))
  <2>1. p * PAGE \in Nat /\ o \in Nat /\ Aligned(p * PAGE) /\ Aligned(o)
    BY <1>1, <1>2, AlignedFacts
  <2>2. Aligned(p * PAGE + o)
    BY <2>1, AlignedFacts
  <2> QED
    BY <2>2, <1>1, <1>7 DEF HandOut, Addr
<1> QED
  BY <1>1, <1>2, <1>3, <1>4, <1>6, <1>7

(* Blocks start on a 64-byte boundary, which is what bootmem_alloc's roundup *)
(* of the bump offset is for; bootmem_free only takes blocks away.           *)
THEOREM AlignTheorem == Spec => []BlocksAligned
<1>1. Init => AlignInv
  <2>1. Init => offset = 0 /\ blocks = {}
    BY DEF Init
  <2>2. Aligned(0)
    BY BootMemAssumption DEF Aligned
  <2> QED
    BY <2>1, <2>2, InitKernelInv DEF AlignInv
<1>2. AlignInv /\ [Next]_vars => AlignInv'
  <2> SUFFICES ASSUME AlignInv, [Next]_vars PROVE AlignInv'
    OBVIOUS
  <2>1. KernelInv'
    BY NextKernelInv DEF AlignInv
  <2>2. Aligned(offset') /\ \A b \in blocks' : Aligned(Addr(b))
    <3>1. ASSUME NEW size \in Sizes, bootmem_alloc(size)
          PROVE  Aligned(offset') /\ \A b \in blocks' : Aligned(Addr(b))
      BY <3>1, AllocAligned, BootMemAssumption
    <3>2. CASE UNCHANGED vars \/ (\E b \in blocks : FreeRead(b)) \/ \E f \in freeing : FreeWrite(f)
      BY <3>2 DEF vars, FreeRead, FreeWrite, AlignInv
    <3> QED
      BY <3>1, <3>2 DEF Next
  <2>3. Aligned(offset)' /\ \A b \in blocks' : Aligned(Addr(b))'
    BY <2>2 DEF Aligned, Addr
  <2> QED
    BY <2>1, <2>3 DEF AlignInv
<1>3. AlignInv => BlocksAligned
  <2> SUFFICES ASSUME AlignInv, NEW b \in blocks PROVE Addr(b) % ALIGN = 0
    BY DEF BlocksAligned
  <2>1. b.pfn \in Nat /\ b.off \in Nat /\ PAGE \in Nat
    BY BootMemAssumption DEF AlignInv, KernelInv, TypeOK, Block
  <2>2. Addr(b) \in Nat
    BY <2>1 DEF Addr
  <2> QED
    BY <2>2, AlignedFacts DEF AlignInv
<1> QED
  BY <1>1, <1>2, <1>3, PTL DEF Spec
===============================================================================
