-------------------------------- MODULE BootMem --------------------------------
(***************************************************************************)
(* The boot memory allocator (mm/bootmem.c), the kernel's only allocator:  *)
(* a page bitmap searched first-fit, and a bump pointer (last_alloc_pfn,   *)
(* last_alloc_offset) that packs blocks smaller than a page into one page. *)
(* bootmem_alloc runs under bootmem.spin_lock with interrupts off, so it   *)
(* is one step here (SpinLock shows what the lock promises); bootmem_free  *)
(* takes no lock, so its read-modify-write of a bitmap byte is two.        *)
(***************************************************************************)
EXTENDS Naturals, FiniteSets

CONSTANTS PAGE,      \* 0x1000
          ALIGN,     \* 64
          NPages,    \* pages below 64GB, the bitmap's size in bits
          BYTE,      \* 8, pages per byte of the bitmap
          Kernel,    \* pages below 16MB
          Default,   \* pages cleared when the firmware reports no memory (4GB)
          Maps,      \* the firmware memory maps considered: sets of regions, in
                     \* pages (UEFI memory descriptors are page-granular)
          Sizes,     \* the sizes requested
          MaxFrees   \* bootmem_free calls in progress at a time (0: never called)

Page == 0 .. NPages - 1
Region == [base : Nat, length : Nat, type : Nat]

ASSUME BootMemAssumption ==
    /\ PAGE \in Nat \ {0} /\ ALIGN \in Nat \ {0} /\ PAGE % ALIGN = 0
    /\ NPages \in Nat /\ BYTE \in Nat \ {0}
    /\ Kernel \in 1 .. NPages /\ Default \in 0 .. NPages
    /\ \A m \in Maps : \A r \in m : r \in Region
    /\ Sizes \subseteq Nat
    /\ MaxFrees \in Nat

VARIABLES bitmap,   \* the pages whose bit is set: in use, reserved or no memory
          pfn,      \* bootmem.last_alloc_pfn
          offset,   \* bootmem.last_alloc_offset
          ram,      \* the map the firmware reported (never changes)
          blocks,   \* the blocks handed out and not freed
          freeing   \* the bitmap bytes bootmem_free calls have read: {[page, seen]}

vars == <<bitmap, pfn, offset, ram, blocks, freeing>>

Block == [pfn : Nat, off : Nat, size : Nat]
Addr(b) == b.pfn * PAGE + b.off

(* roundup of math.h *)
roundup(x, y) == ((x + (y - 1)) \div y) * y

(* The pages set_bootmem_bitmap_area and its clear twin visit, from page p:  *)
(* one every PAGE bytes while the address is below the end of the area.      *)
Area(p, size) == {q \in Page : q >= p /\ (q - p) * PAGE < size}

(* find_free_bitmap: the places where a second address, PAGE steps further   *)
(* on, is at least size away and every page up to it, itself included, is    *)
(* free.  The lowest is taken; there is none if it returns -1.               *)
Holes(size) == {p \in Page : \E m \in 0 .. NPages - 1 - p :
                                /\ m * PAGE >= size
                                /\ \A q \in p .. p + m : q \notin bitmap}
find_free_bitmap(size) == {p \in Holes(size) : \A q \in Holes(size) : p <= q}

-------------------------------------------------------------------------------
(* bootmem_init: everything reserved, then usable regions that end below the *)
(* 64GB limit are cleared (4GB if the map is empty), then the kernel's 16MB  *)
(* is reserved again.  ForgetKernel leaves that out.                         *)
Usable(r) == r.type = 1 /\ r.base + r.length <= NPages
ForgetKernel(m) ==
    Page \ (IF m = {} THEN 0 .. Default - 1
            ELSE UNION {r.base .. r.base + r.length - 1 : r \in {x \in m : Usable(x)}})
bootmem_init(m) ==
    (Page \ (IF m = {} THEN 0 .. Default - 1
             ELSE UNION {r.base .. r.base + r.length - 1 : r \in {x \in m : Usable(x)}}))
    \cup 0 .. Kernel - 1

Init == /\ ram \in Maps
        /\ bitmap = bootmem_init(ram)
        /\ pfn = 1 /\ offset = 0
        /\ blocks = {} /\ freeing = {}

HandOut(p, off, size) == blocks' = blocks \cup {[pfn |-> p, off |-> off, size |-> size]}
Quiet == UNCHANGED <<ram, freeing>>

(* size >= 0x1000: whole pages; the current bump page is abandoned, even if  *)
(* nothing is found.                                                         *)
AllocPages(size) ==
    /\ size >= PAGE
    /\ offset' = 0
    /\ \E p \in find_free_bitmap(size) :
          bitmap' = bitmap \cup Area(p, size) /\ HandOut(p, 0, size)
    /\ UNCHANGED pfn /\ Quiet

(* A small block that fits behind the last one.  KeepOffset rounds the bump  *)
(* offset down, Unrounded does not round it.                                 *)
KeepOffset(size) ==
    /\ size < PAGE /\ offset + size <= PAGE /\ offset # 0
    /\ HandOut(pfn, offset, size)
    /\ offset' = offset + (size \div ALIGN) * ALIGN
    /\ UNCHANGED <<bitmap, pfn>> /\ Quiet
Unrounded(size) ==
    /\ size < PAGE /\ offset + size <= PAGE /\ offset # 0
    /\ HandOut(pfn, offset, size)
    /\ offset' = (offset + size) % PAGE
    /\ UNCHANGED <<bitmap, pfn>> /\ Quiet
BumpAlloc(size) ==
    /\ size < PAGE /\ offset + size <= PAGE /\ offset # 0
    /\ HandOut(pfn, offset, size)
    /\ offset' = roundup((offset + size) % PAGE, ALIGN)
    /\ UNCHANGED <<bitmap, pfn>> /\ Quiet

(* A small block when there is no bump page: the first free page becomes it. *)
(* SkipMark does not set its bit.                                            *)
SkipMark(size) ==
    /\ size < PAGE /\ offset = 0
    /\ \E p \in find_free_bitmap(PAGE) : HandOut(p, 0, size) /\ pfn' = p
    /\ offset' = roundup(size % PAGE, ALIGN)
    /\ UNCHANGED bitmap /\ Quiet
NewBumpPage(size) ==
    /\ size < PAGE /\ offset = 0
    /\ \E p \in find_free_bitmap(PAGE) :
          /\ HandOut(p, 0, size) /\ pfn' = p
          /\ bitmap' = bitmap \cup Area(p, size)
    /\ offset' = roundup((offset + size) % PAGE, ALIGN)
    /\ Quiet

(* A small block that does not fit on the bump page, which is in use: a page *)
(* of its own, with the bump offset back at 0.                               *)
SpillToNewPage(size) ==
    /\ size < PAGE /\ offset + size > PAGE /\ pfn \in bitmap
    /\ \E p \in find_free_bitmap(PAGE) :
          /\ HandOut(p, 0, size) /\ pfn' = p
          /\ bitmap' = bitmap \cup Area(p, size)
    /\ offset' = 0
    /\ Quiet

(* The same when the bump page's bit is clear (the code tests the page at    *)
(* pfn * 0x1000 + size, which is the bump page as size < 0x1000): the block  *)
(* runs over its end and the page after it becomes the bump page.  Only      *)
(* bootmem_free clears that bit.  Past the last page the code would index    *)
(* the bitmap out of its bounds; what happens then is not modelled.          *)
SpillOverEnd(size) ==
    /\ size < PAGE /\ offset + size > PAGE /\ pfn \in Page \ bitmap
    /\ HandOut(pfn, offset, size)
    /\ bitmap' = bitmap \cup {pfn}
    /\ offset' = roundup((offset + size) % PAGE, ALIGN)
    /\ pfn' = pfn + 1
    /\ Quiet

(* No room: bootmem_alloc returns 0.  Only a large request has touched the   *)
(* bump pointer by then.                                                     *)
AllocFails(size) ==
    /\ \/ size >= PAGE /\ Holes(size) = {} /\ offset' = 0
       \/ /\ size < PAGE /\ Holes(PAGE) = {} /\ UNCHANGED offset
          /\ \/ offset = 0
             \/ offset + size > PAGE /\ pfn \in bitmap
    /\ UNCHANGED <<bitmap, pfn, blocks>> /\ Quiet

bootmem_alloc(size) ==
    \/ AllocPages(size) \/ BumpAlloc(size) \/ NewBumpPage(size)
    \/ SpillToNewPage(size) \/ SpillOverEnd(size) \/ AllocFails(size)

(* bootmem_free, without the lock: the byte of the block's first page is     *)
(* read, and later written back without that page's bit.  If an allocation   *)
(* is setting a bit of the byte at that moment, its write can be the last.   *)
ByteOf(p) == {q \in Page : q \div BYTE = p \div BYTE}
FreeRead(b) ==
    /\ Cardinality(freeing) < MaxFrees /\ b \in blocks /\ b.pfn \in Page
    /\ blocks' = blocks \ {b}
    /\ freeing' = freeing \cup {[page |-> b.pfn, seen |-> bitmap \cap ByteOf(b.pfn)]}
    /\ UNCHANGED <<bitmap, pfn, offset, ram>>
FreeWrite(f) ==
    /\ f \in freeing
    /\ \/ bitmap' = (bitmap \ ByteOf(f.page)) \cup (f.seen \ {f.page})
       \/ UNCHANGED bitmap
    /\ freeing' = freeing \ {f}
    /\ UNCHANGED <<pfn, offset, ram, blocks>>

Next == \/ \E size \in Sizes : bootmem_alloc(size)
        \/ \E b \in blocks : FreeRead(b)
        \/ \E f \in freeing : FreeWrite(f)

Spec == Init /\ [][Next]_vars

-------------------------------------------------------------------------------
TypeOK == /\ bitmap \subseteq Page
          /\ pfn \in Nat /\ offset \in 0 .. PAGE
          /\ ram \in Maps
          /\ blocks \subseteq Block
          /\ \A f \in freeing : f.page \in Page /\ f.seen \subseteq Page

Before(a, b) == Addr(a) + a.size <= Addr(b)

(* No two blocks bootmem_alloc has handed out share a byte, whatever the     *)
(* mix of large blocks, bumped blocks and blocks that did not fit on the     *)
(* bump page (lines 91-126).                                                 *)
NoOverlap == \A a, b \in blocks :
                 a # b /\ a.size > 0 /\ b.size > 0 => Before(a, b) \/ Before(b, a)

(* Every byte handed out is memory the firmware reported as usable (or the   *)
(* 4GB default), below the 64GB limit and outside the kernel image           *)
(* (bootmem_init and find_free_bitmap).                                      *)
Backed(q) == /\ q \in Page /\ q >= Kernel
             /\ \/ ram = {} /\ q < Default
                \/ \E r \in ram : r.type = 1 /\ q \in r.base .. r.base + r.length - 1
InUsableMemory ==
    \A b \in blocks, q \in 0 .. NPages :
        q >= b.pfn /\ (q - b.pfn) * PAGE < b.off + b.size => Backed(q)

(* Blocks start on a 64-byte boundary, which the roundup of the bump offset  *)
(* is for.                                                                   *)
BlocksAligned == \A b \in blocks : Addr(b) % ALIGN = 0

(* The kernel image stays reserved and no block starts in it, even when      *)
(* bootmem_free races with allocations (line 165).                           *)
KernelImageSafe == /\ 0 .. Kernel - 1 \subseteq bitmap
                   /\ \A b \in blocks : b.pfn >= Kernel

(* "First Fit allocation." (line 2): a new block of whole pages lies in the  *)
(* lowest run of free pages that can hold it.                                *)
FirstFit ==
    [][\A b \in blocks' \ blocks :
          b.size >= PAGE => \A p \in 0 .. b.pfn - 1 :
             \E i \in 0 .. NPages : i * PAGE < b.size /\ p + i \notin Page \ bitmap]_vars

(* What makes NoOverlap and InUsableMemory inductive where nothing is freed: *)
(* the pages of every block are marked, the bump page has no block beyond    *)
(* the bump offset, and the pages that are free, or bumped on, are backed.   *)
Touches(b, q) == b.size > 0 /\ q >= b.pfn /\ (q - b.pfn) * PAGE < b.off + b.size
BlocksMarked == \A b \in blocks, q \in Page : Touches(b, q) => q \in bitmap
BlocksPlaced == \A b \in blocks : b.size > 0 => b.pfn \in Page /\ b.off < PAGE
BumpPageOwned ==
    offset # 0 => /\ pfn \in bitmap /\ Backed(pfn)
                  /\ \A b \in blocks : b.size > 0 =>
                        \/ Addr(b) + b.size <= pfn * PAGE + offset
                        \/ Addr(b) >= pfn * PAGE + PAGE
FreeBacked == \A q \in Page \ bitmap : Backed(q)
IInv == /\ TypeOK /\ NoOverlap /\ BlocksMarked /\ BlocksPlaced /\ BumpPageOwned
        /\ FreeBacked /\ InUsableMemory /\ freeing = {}

(* What makes KernelImageSafe inductive, frees included: the byte a free has *)
(* read shows the kernel's pages, and the bump page is not one of them.      *)
KernelInv == /\ TypeOK /\ KernelImageSafe
             /\ offset # 0 => pfn >= Kernel
             /\ \A f \in freeing : /\ f.page >= Kernel
                                   /\ (0 .. Kernel - 1) \cap ByteOf(f.page) \subseteq f.seen
===============================================================================
