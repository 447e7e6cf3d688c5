-------------------------------- MODULE Console --------------------------------
(***************************************************************************)
(* What printk shows (drivers/console, drivers/video/fbdev): the graphic   *)
(* console's cursor and its scrolling, on the boot frame buffer, which the *)
(* processor draws, and from its probe on through the GPU, which copies    *)
(* and fills while the processor goes on.                                  *)
(*                                                                         *)
(* printk writes its characters under one lock: they come one by one, and  *)
(* a character is a new line or a visible one.  A row of pixels holds the  *)
(* number of the line of text drawn there last.                            *)
(***************************************************************************)
EXTENDS Gpu

CONSTANTS FW, FH,          \* the font's size
          Width, Heights,  \* the screen's
          Chars            \* bound on the characters written

ASSUME ConsoleAssumption == /\ {FW, FH, Width, Chars} \subseteq Nat /\ Heights \subseteq 2 * FH .. FbPages
                            /\ FW \in 1 .. Width /\ FH > 1

VARIABLES con,       \* cursor_x, cursor_y, height; the number of the line and the lines with text
          fbops,     \* "boot", "probed", "nvidia"
          left       \* characters left

vars == <<mm, chan, push, ib, gpu, todo, con, fbops, left>>
displayVars == <<con, fbops, left>>

Init == /\ GpuInit
        /\ \E h \in Heights : con = [x |-> 0, y |-> 0, height |-> h, line |-> 1, inked |-> {}]
        /\ fbops = "boot" /\ left = Chars

rounddown(x, n) == (x \div n) * n
Scrolled == rounddown(con.height - FH, FH)      \* the rows that move up

--------------------------------------------------------------------------------
(* The operations of the frame buffer in use: the program each one runs.     *)
imageblit == IF fbops = "nvidia" THEN nvidia_fence_emit32 \o <<[do |-> "blit", y |-> con.y, line |-> con.line]>>
             ELSE <<[do |-> "blit", y |-> con.y, line |-> con.line]>>

nvidia_fb_copyarea == nvidia_memory_copy("copy", 0) \o nvidia_fence_emit32 \o nvidia_fence_sync32
                        \o <<FenceWait>>

(* Mutant: nothing waits for the GPU. *)
FillNoWait(dy) ==
  LET pages[i \in 0 .. FH] == IF i = 0 THEN <<>> ELSE pages[i - 1] \o nvidia_memory_copy("fill", dy + i - 1)
  IN  pages[FH] \o nvidia_fence_emit32 \o nvidia_fence_sync32
(* A copy of the host buffer for each page. *)
nvidia_fb_fillrect(dy) ==
  LET pages[i \in 0 .. FH] == IF i = 0 THEN <<>> ELSE pages[i - 1] \o nvidia_memory_copy("fill", dy + i - 1)
  IN  pages[FH] \o nvidia_fence_emit32 \o nvidia_fence_sync32 \o <<FenceWait>>

(* The rows below the first line move up; the rows from the last one of the  *)
(* line before are cleared.                                                  *)
fbcon_scroll ==
  IF fbops = "nvidia" THEN nvidia_fb_copyarea \o nvidia_fb_fillrect(Scrolled - 1)
  ELSE <<[do |-> "copy", sy |-> FH, dy |-> 0, n |-> Scrolled], [do |-> "fill", dy |-> Scrolled - 1]>>

--------------------------------------------------------------------------------
(* write_console of one character. *)
NextLine(full) ==
  IF full THEN [con EXCEPT !.x = 0, !.line = @ + 1]
  ELSE [con EXCEPT !.x = 0, !.y = @ + FH, !.line = @ + 1]

WriteNewline ==
  LET full == con.y + FH * 2 > con.height
  IN  /\ todo' = IF full THEN fbcon_scroll ELSE <<>>
      /\ con' = NextLine(full)

WriteVisible ==
  LET wrap == con.x + FW * 2 > Width
      full == con.y + FH * 2 >= con.height
  IN  /\ todo' = imageblit \o IF wrap /\ full THEN fbcon_scroll ELSE <<>>
      /\ con' = [(IF wrap THEN NextLine(full) ELSE [con EXCEPT !.x = @ + FW])
                   EXCEPT !.inked = @ \cup {con.line}]

graphic_con_write_char ==
  /\ todo = <<>> /\ left > 0 /\ left' = left - 1
  /\ WriteNewline \/ WriteVisible
  /\ UNCHANGED <<mm, chan, push, ib, gpu, fbops>>

(* The processor draws in the frame buffer.  boot_fb_copyarea goes through   *)
(* the rows downwards or upwards, whichever reads a row before it is         *)
(* overwritten.  What it writes to an address without a page is lost, and it *)
(* reads no line from there.                                                 *)
Rows(a) == {Bar1(r) : r \in a .. a + FH - 1}
Draw(rows, line) == [mm EXCEPT !.vram = [p \in DOMAIN @ |-> IF p \in rows THEN line ELSE @[p]]]
boot_fb_imageblit == /\ Doing("blit") /\ mm' = Draw(Rows(Head(todo).y), Head(todo).line)
                     /\ todo' = Tail(todo) /\ UNCHANGED <<chan, push, ib, gpu, displayVars>>
boot_fb_fillrect == /\ Doing("fill") /\ mm' = Draw(Rows(Head(todo).dy), 0)
                    /\ todo' = Tail(todo) /\ UNCHANGED <<chan, push, ib, gpu, displayVars>>
CopiedRows(c) ==
  LET rows[i \in 0 .. c.n] ==
        IF i = 0 THEN mm.vram
        ELSE LET j == IF c.dy < c.sy THEN i - 1 ELSE c.n - i
                 from == Bar1(c.sy + j)
             IN  [p \in DOMAIN mm.vram |-> IF p # Bar1(c.dy + j) THEN rows[i - 1][p]
                                           ELSE IF from = NoPage THEN 0 ELSE rows[i - 1][from]]
  IN  rows[c.n]
boot_fb_copyarea == /\ Doing("copy") /\ mm' = [mm EXCEPT !.vram = CopiedRows(Head(todo))]
                    /\ todo' = Tail(todo) /\ UNCHANGED <<chan, push, ib, gpu, displayVars>>

(* The probe of the GPU, and then its operations replace the boot ones.      *)
nvidia_gpu_probe ==
  /\ todo = <<>> /\ fbops = "boot" /\ fbops' = "probed"
  /\ mm' = ProbeMemory(mm) /\ nvidia_ib_init
  /\ UNCHANGED <<ib, gpu, todo, con, left>>
register_nvidia_fb ==
  /\ todo = <<>> /\ fbops = "probed" /\ fbops' = "nvidia"
  /\ UNCHANGED <<mm, chan, push, ib, gpu, todo, con, left>>

Display == \/ boot_fb_imageblit \/ boot_fb_fillrect \/ boot_fb_copyarea
           \/ RingStep /\ UNCHANGED displayVars
Device == GpuStep(FH, Scrolled) /\ UNCHANGED displayVars

Next == graphic_con_write_char \/ nvidia_gpu_probe \/ register_nvidia_fb \/ Display \/ Device

(* printk's caller runs with interrupts off until it has written; the GPU    *)
(* executes what it is given.                                                *)
Spec == Init /\ [][Next]_vars /\ WF_vars(Display) /\ WF_vars(Device)

--------------------------------------------------------------------------------
(* The GPU executes the commands that the driver put into the push buffer,   *)
(* each once, in order and whole, across the laps of the push buffer and of  *)
(* the indirect buffer: no word is overwritten before it is fetched.         *)
CommandsInOrder == [][gpu'.last # gpu.last => gpu'.last = gpu.last + 1 /\ gpu'.ok]_vars

(* When printk has returned, every line of text is on the screen in its      *)
(* place: the processor never drew while a copy of the GPU was under way,    *)
(* although imageblit's fences repeat the sequence number that the next wait *)
(* looks for; no line is overdrawn or lost; and the pages the GPU scrolls    *)
(* are the ones on the screen.  The last row of a line is left out: the      *)
(* scroll clears the one of the line before last.                            *)
TextShown ==
  todo = <<>> =>
    \A k \in 0 .. con.y \div FH :
      LET line == con.line - (con.y \div FH - k)
      IN  \A r \in k * FH .. k * FH + FH - 2 :
            mm.vram[r] = IF line \in con.inked THEN line ELSE 0

(* The exception: the entries of a screen that is larger than a page table's *)
(* memory are in the runlist (nvidia_gpu_drv.c:91), where                    *)
(* nvidia_fifo_runlist_commit overwrites the first one.                      *)
Mapped == con.height <= PtEntries

(* The text is on the screen (TextShown), except on a screen beyond one page *)
(* table.                                                                    *)
TextIntact == Mapped => TextShown

(* printk returns: neither the room in the buffers nor a fence is waited for *)
(* for ever.  The exception is the same: the GPU stops at the missing page.  *)
PrintkReturns == (todo # <<>> /\ Mapped) ~> (todo = <<>>)
================================================================================
