---------------------------------- MODULE Gpu ----------------------------------
(***************************************************************************)
(* The driver of the NVIDIA GPU (drivers/gpu/nvidia): its allocation of    *)
(* video memory and of BAR1 addresses, the page table of BAR1, and the     *)
(* channel: a push buffer of command words, a ring of indirect buffer      *)
(* entries that point into it, and a fence.  The GPU fetches and executes  *)
(* the commands on its own.                                                *)
(*                                                                         *)
(* A page of video memory holds a row of pixels; a command is a run of     *)
(* equal words.                                                            *)
(***************************************************************************)
EXTENDS Integers, Sequences

CONSTANTS VPages, BPages,        \* pages of video memory, and of BAR1
          Block,                 \* pages below one page directory entry
          PtEntries,             \* entries in the memory of a page table
          FbPages,               \* pages of the frame buffer
          Max, IbSize,           \* words of the push buffer, entries of the indirect buffer
          SetSize, CopySize, FenceSize, InitWords,   \* words of the commands
          WORD                   \* the modulus of 32-bit arithmetic

(* The indirect buffer is full before the push buffer is: in the code, 1024   *)
(* entries, 16384 words, and 2, 10, 6 and 32 words.  A page table has memory  *)
(* for 4096 entries, of the 32768 of a block and the 8192 of the frame buffer.*)
ASSUME GpuAssumption ==
  /\ {VPages, BPages, Block, PtEntries, FbPages, Max, IbSize, SetSize, CopySize, FenceSize, InitWords} \subseteq Nat \ {0}
  /\ IbSize * (SetSize + CopySize) + InitWords < Max /\ IbSize > CopySize + 2 /\ WORD > 2 * Max
  /\ VPages >= FbPages + BPages + 8 /\ BPages >= FbPages + 4 /\ BPages <= Block

VARIABLES mm,      \* vram, its pages' entries; pages given out (vused, bused); BAR1: on, a block's table; fb
          chan,    \* ib_status_host, fence_sequence and the number of commands
          push, ib,
          gpu,     \* ib_put and ib_get of the user registers, get, fence, and the words of the entry fetched
          todo     \* what the display's code has still to do

gpuVars == <<mm, chan, push, ib, gpu>>

IbMax == IbSize - 1
NoPage == -1
U32(x) == x % WORD
SizeOf(op) == CASE op = "set" -> SetSize [] op \in {"copy", "fill"} -> CopySize
                [] op \in {"emit", "sync"} -> FenceSize [] op = "nop" -> InitWords

GpuInit ==
  /\ mm = [vram |-> [p \in 0 .. VPages - 1 |-> 0], vused |-> 0, bused |-> 0, on |-> FALSE,
           entry |-> [p \in 0 .. VPages - 1 |-> [i \in 0 .. PtEntries - 1 |-> NoPage]],
           pt |-> [b \in 0 .. BPages \div Block |-> NoPage], runlist |-> NoPage, fb |-> [v |-> 0, p |-> 0]]
  /\ chan = [free |-> 0, current |-> 0, put |-> 0, ib_free |-> 0, ib_put |-> 0,
             wrap |-> FALSE, seq |-> 0, no |-> 0]
  /\ push = [w \in 0 .. Max - 1 |-> [op |-> "nop", arg |-> 0, no |-> 0]]
  /\ ib = [e \in 0 .. IbMax |-> [off |-> 0, len |-> 0]]
  /\ gpu = [put |-> 0, ib_get |-> 0, get |-> -1, got |-> 0, fence |-> 0, last |-> 0, ok |-> TRUE]
  /\ todo = <<>>

--------------------------------------------------------------------------------
(* Memory.  Nothing is given back, so that the bitmaps of the video memory   *)
(* and of BAR1 are prefixes; a zeroed object's pages are cleared.            *)
nvkm_memory_new(m, n) == [m EXCEPT !.vused = @ + n]
nvkm_vma_new(m, n) == [m EXCEPT !.bused = @ + n]
nvkm_gpuobj_new(m, n, zero) ==
  LET new == IF zero THEN m.vused .. m.vused + n - 1 ELSE {}
  IN  [nvkm_memory_new(m, n) EXCEPT
         !.vram = [p \in DOMAIN @ |-> IF p \in new THEN 0 ELSE @[p]],
         !.entry = [p \in DOMAIN @ |-> [i \in DOMAIN @[p] |-> IF p \in new THEN NoPage ELSE @[p][i]]]]

(* An entry is where its index puts it: the first PtEntries of a block are in *)
(* the memory of its table, which is made when the block is first used, and   *)
(* the others in whatever comes after it.                                     *)
TableOf(m, v) == m.pt[v \div Block] + (v % Block) \div PtEntries
Slot(v) == (v % Block) % PtEntries
Pte(m, v) == m.entry[TableOf(m, v)][Slot(v)]
nvidia_mmu_map_page(m, v, p) ==
  LET b == v \div Block
      n == IF m.pt[b] # NoPage THEN m ELSE [nvkm_gpuobj_new(m, 1, TRUE) EXCEPT !.pt[b] = m.vused]
  IN  [n EXCEPT !.entry[TableOf(n, v)][Slot(v)] = p]
nvkm_map_area(m, v, p, n) ==
  LET mapped[i \in 0 .. n] ==
        IF i = 0 THEN m ELSE nvidia_mmu_map_page(mapped[i - 1], v + i - 1, p + i - 1)
  IN  mapped[n]

(* A new object of n pages (or, without one, system memory), mapped in BAR1. *)
MapNew(m, n) == LET o == nvkm_gpuobj_new(m, n, TRUE)
                IN  nvkm_map_area(nvkm_vma_new(o, n), m.bused, m.vused, n)
MapSysRam(m) == nvidia_mmu_map_page(nvkm_vma_new(m, 1), m.bused, VPages)

nvidia_gpu_memory_init(m) == [nvkm_gpuobj_new(m, FbPages, FALSE) EXCEPT !.fb.p = m.vused]
nvidia_gpu_bar_init(m) ==
  LET o == nvkm_gpuobj_new(nvkm_gpuobj_new(m, 1, TRUE), 1, TRUE)      \* inst_mem, pgd
  IN  [nvkm_map_area(nvkm_vma_new(o, FbPages), o.bused, o.fb.p, FbPages)
         EXCEPT !.fb.v = o.bused, !.on = TRUE]
nvidia_fifo_runlist_init(m) ==     \* two runlists, of a table's size, and user_mem
  [MapNew(nvkm_gpuobj_new(nvkm_gpuobj_new(m, 1, FALSE), 1, FALSE), 1) EXCEPT !.runlist = m.vused]
nvidia_fifo_channel_new(m) == MapSysRam(nvkm_gpuobj_new(m, 1, TRUE))  \* the instance; the push buffer

(* The channel is entered in the first runlist, at its start. *)
nvidia_fifo_runlist_commit(m) == [m EXCEPT !.entry[m.runlist][0] = NoPage]

(* nvidia_gpu_probe: the memory of the frame buffer first, then that of BAR1, *)
(* the channel, its fence and the buffer that fills are copied from.         *)
ProbeMemory(m) ==
  MapSysRam(MapNew(nvidia_fifo_runlist_commit(nvidia_fifo_channel_new(nvidia_fifo_runlist_init(
    nvidia_gpu_bar_init(nvidia_gpu_memory_init(m))))), 1))

(* BAR1 shows video memory as it is, until it is switched to its page table. *)
Bar1(v) == IF mm.on THEN Pte(mm, v) ELSE v

--------------------------------------------------------------------------------
(* The channel. *)
Command(op, arg) == [do |-> "space", op |-> op, arg |-> arg]
Fire == [do |-> "fire"]
FenceWait == [do |-> "wait"]

nvidia_memory_copy(op, arg) == <<Command("set", 0), Command(op, arg), Fire>>
nvidia_fence_emit32 == <<Command("emit", 0), Fire>>
nvidia_fence_sync32 == <<Command("sync", 0), Fire>>

(* The channel starts with words that do nothing, which are not fired. *)
nvidia_ib_init ==
  /\ chan' = [chan EXCEPT !.ib_free = IbMax, !.current = InitWords, !.free = Max - InitWords, !.seq = 1, !.no = 1]
  /\ push' = [w \in DOMAIN push |-> [op |-> "nop", arg |-> 0, no |-> 1]]

Doing(d) == todo # <<>> /\ Head(todo).do = d
Need == SizeOf(Head(todo).op)

(* Mutant: an empty ring counts as full. *)
WaitIbStrict ==
  /\ Doing("space") /\ ~ chan.wrap /\ chan.ib_free < Need + 1
  /\ LET d == gpu.ib_get - chan.ib_put
     IN  chan' = [chan EXCEPT !.ib_free = IF d < 0 THEN d + IbMax ELSE d]
  /\ UNCHANGED <<mm, push, ib, gpu, todo>>
(* The first loop of nv_dma_wait: entries are counted as if each word needed *)
(* one.                                                                      *)
WaitIb ==
  /\ Doing("space") /\ ~ chan.wrap /\ chan.ib_free < Need + 1
  /\ LET d == gpu.ib_get - chan.ib_put
     IN  chan' = [chan EXCEPT !.ib_free = IF d <= 0 THEN d + IbMax ELSE d]
  /\ UNCHANGED <<mm, push, ib, gpu, todo>>

(* -1 when the GPU's address is not in the push buffer: before its first     *)
(* command.                                                                  *)
READ_GET == gpu.get

(* Mutant: the entry is not counted. *)
FiredUncounted(c) == IF c.current = c.put THEN c
                     ELSE [c EXCEPT !.ib_put = (@ + 1) % IbSize, !.put = c.current]
(* FIRE_RING: what is between put and current, in one entry. *)
Fired(c) == IF c.current = c.put THEN c
            ELSE [c EXCEPT !.ib_put = (@ + 1) % IbSize, !.ib_free = @ - 1, !.put = c.current]
FIRE_RING ==
  /\ chan' = Fired(chan)
  /\ ib' = IF chan.current = chan.put THEN ib
           ELSE [ib EXCEPT ![chan.ib_put] = [off |-> chan.put, len |-> chan.current - chan.put]]
  /\ gpu' = [gpu EXCEPT !.put = Fired(chan).ib_put]

(* The second loop: room behind current, or after the GPU at the start.      *)
WaitFree ==
  /\ Doing("space") /\ ~ chan.wrap /\ chan.ib_free >= Need + 1 /\ chan.free < Need
  /\ IF READ_GET <= chan.current
     THEN IF Max - chan.current >= Need
          THEN chan' = [chan EXCEPT !.free = Max - chan.current] /\ UNCHANGED <<ib, gpu>>
          ELSE /\ chan' = [Fired(chan) EXCEPT !.wrap = TRUE]
               /\ ib' = IF chan.current = chan.put THEN ib
                        ELSE [ib EXCEPT ![chan.ib_put] = [off |-> chan.put, len |-> chan.current - chan.put]]
               /\ gpu' = [gpu EXCEPT !.put = Fired(chan).ib_put]
     ELSE /\ chan' = [chan EXCEPT !.free = U32(READ_GET - chan.current - 1)]
          /\ UNCHANGED <<ib, gpu>>
  /\ UNCHANGED <<mm, push, todo>>

Wrap ==
  /\ chan.wrap /\ READ_GET # 0
  /\ chan' = [chan EXCEPT !.current = 0, !.put = 0, !.free = U32(READ_GET - 1), !.wrap = FALSE]
  /\ UNCHANGED <<mm, push, ib, gpu, todo>>

(* RING_SPACE succeeds, and the command is put in with OUT_RING. *)
OUT_RING ==
  /\ Doing("space") /\ ~ chan.wrap /\ chan.ib_free >= Need + 1 /\ chan.free >= Need
  /\ LET h == Head(todo)
         w == [op |-> h.op, arg |-> IF h.op \in {"emit", "sync"} THEN chan.seq ELSE h.arg, no |-> chan.no + 1]
     IN  push' = [i \in DOMAIN push |->
                    IF i \in chan.current .. chan.current + Need - 1 THEN w ELSE push[i]]
  /\ chan' = [chan EXCEPT !.free = @ - Need, !.current = @ + Need, !.no = @ + 1]
  /\ todo' = Tail(todo) /\ UNCHANGED <<mm, ib, gpu>>

FireStep == Doing("fire") /\ FIRE_RING /\ todo' = Tail(todo) /\ UNCHANGED <<mm, push>>

nvidia_fence_wait ==
  /\ Doing("wait") /\ gpu.fence = chan.seq
  /\ chan' = [chan EXCEPT !.seq = @ + 1]
  /\ todo' = Tail(todo) /\ UNCHANGED <<mm, push, ib, gpu>>

RingStep == WaitIb \/ WaitFree \/ Wrap \/ OUT_RING \/ FireStep \/ nvidia_fence_wait

--------------------------------------------------------------------------------
(* The GPU: it fetches a command of its oldest entry and executes it; a      *)
(* command that waits for a fence is fetched when the fence has come, and    *)
(* one that uses an address without a page faults: the GPU stops.            *)
Row(r) == Pte(mm, mm.fb.v + r)
GpuCopy(sy, n) ==       \* n rows from sy to the top, in ascending order
  LET rows[i \in 0 .. n] == IF i = 0 THEN mm.vram
                            ELSE [rows[i - 1] EXCEPT ![Row(i - 1)] = rows[i - 1][Row(sy + i - 1)]]
  IN  rows[n]

GpuStep(sy, n) ==
  /\ gpu.ib_get # gpu.put
  /\ LET e == ib[gpu.ib_get]
         at == e.off + gpu.got
         w == push[at]
         words == at .. at + SizeOf(w.op) - 1
         end == gpu.got + SizeOf(w.op)
         rows == CASE w.op = "copy" -> 0 .. sy + n - 1 [] w.op = "fill" -> {w.arg} [] OTHER -> {}
     IN  /\ w.op = "sync" => gpu.fence >= w.arg
         /\ \A r \in rows : Row(r) # NoPage
         /\ gpu' = [gpu EXCEPT
              !.get = at + SizeOf(w.op), !.last = w.no,
              !.ok = @ /\ end <= e.len /\ words \subseteq DOMAIN push /\ \A i \in words : push[i] = w,
              !.fence = IF w.op = "emit" THEN w.arg ELSE @,
              !.got = IF end >= e.len THEN 0 ELSE end,
              !.ib_get = IF end >= e.len THEN (@ + 1) % IbSize ELSE @]
         /\ mm' = CASE w.op = "copy" -> [mm EXCEPT !.vram = GpuCopy(sy, n)]
                    [] w.op = "fill" -> [mm EXCEPT !.vram[Row(w.arg)] = 0]
                    [] OTHER -> mm
  /\ UNCHANGED <<chan, push, ib, todo>>
================================================================================
