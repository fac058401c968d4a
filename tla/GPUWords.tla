------------------------------ MODULE GPUWords ------------------------------
(***************************************************************************)
(* The words a program sends to GP0, decoded (GPU::process_cmd).  A word   *)
(* is a command or a parameter by its position alone, so every word says   *)
(* what it would be as a command and, for the dimensions of a blit,        *)
(* whether the height in its upper half is 0.                              *)
(***************************************************************************)
EXTENDS Integers

(* What the top byte asks for.  "zero" is the top byte 0; "other" is what
   the parser ignores: lines, VRAM copies, the environment commands E1 to E6
   (they belong to case 7 of a switch that looks for them in case 0) and the
   rest of case 0. *)
Drawings == {"quickrect", "polygon", "rect"}
Blits == {"cvblit", "vcblit"}
Commands == Drawings \cup Blits

Word == [cmd : Commands \cup {"zero", "other"},
         tex : BOOLEAN, quad : BOOLEAN, gouraud : BOOLEAN,      \* polygon
         var : BOOLEAN,                                         \* rect: VAR
         y0 : BOOLEAN]                                          \* height 0

(* A word with the attributes the kind of command does not look at at rest. *)
Plain(kind) == [cmd |-> kind, tex |-> FALSE, quad |-> FALSE, gouraud |-> FALSE,
                var |-> FALSE, y0 |-> FALSE]

NoCmd == [Plain("other") EXCEPT !.cmd = "none"]

Vertices(w) == IF w.quad THEN 4 ELSE 3
=============================================================================
