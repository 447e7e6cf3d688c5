------------------------------- MODULE MCConsole -------------------------------
(***************************************************************************)
(* Bounds for TLC: a screen of two lines of two characters, in a height  *)
(* that is a multiple of the font's and one that is not, and one of four   *)
(* lines that a page table has no memory for; enough characters for the    *)
(* text to scroll several times and for both buffers of the channel to     *)
(* wrap.  MCConsoleWide checks TextShown on the larger screen, without     *)
(* TextIntact's exception.                                                 *)
(***************************************************************************)
EXTENDS Console
================================================================================
