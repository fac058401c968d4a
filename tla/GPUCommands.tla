----------------------------- MODULE GPUCommands -----------------------------
(***************************************************************************)
(* What the command parser of the GPU promises: the words that arrive are  *)
(* cut into commands of fixed lengths, and the renderer is handed, for     *)
(* each command, the words of that command and of no other, each in its    *)
(* place.  A word is named by its number within its command, from 1.       *)
(***************************************************************************)
EXTENDS GPUWords, Sequences

VARIABLES cmd,          \* the command that is being read, or NoCmd
          got,          \* how many of its words have been read
          given         \* what the last command handed over, and its words

cmdVars == <<cmd, got, given>>

(* The lengths: a polygon repeats the colour with each vertex if it is
   shaded, and also if it has no texture. *)
Length(w) ==
  CASE w.cmd = "quickrect" -> 3
    [] w.cmd = "polygon" ->
         IF ~w.tex THEN 2 * Vertices(w)
         ELSE IF w.gouraud THEN 3 * Vertices(w) ELSE 1 + 2 * Vertices(w)
    [] w.cmd = "rect" -> 2 + (IF w.tex THEN 1 ELSE 0) + (IF w.var THEN 1 ELSE 0)
    [] OTHER -> 3

(* The words the renderer looks at; the command word of a blit is no
   parameter. *)
Handed(w) == IF w.cmd \in Blits THEN <<2, 3>> ELSE [n \in 1 .. Length(w) |-> n]

NoneGiven == [cmd |-> NoCmd, words |-> <<>>]

CmdInit == cmd = NoCmd /\ got = 0 /\ given = NoneGiven

Begin ==
  /\ cmd = NoCmd
  /\ cmd' \in {w \in Word : w.cmd \in Commands}
  /\ got' = 1
  /\ given' = NoneGiven

Take ==
  /\ cmd # NoCmd /\ got + 1 < Length(cmd)
  /\ got' = got + 1
  /\ UNCHANGED <<cmd, given>>

Draw ==
  /\ cmd.cmd \in Drawings /\ got + 1 = Length(cmd)
  /\ given' = [cmd |-> cmd, words |-> Handed(cmd)]
  /\ cmd' = NoCmd /\ got' = 0

BeginTransfer ==
  /\ cmd.cmd \in Blits /\ got + 1 = Length(cmd)
  /\ given' = [cmd |-> cmd, words |-> Handed(cmd)]
  /\ got' = got + 1 /\ UNCHANGED cmd

EndTransfer ==
  /\ cmd.cmd \in Blits /\ got = Length(cmd)
  /\ cmd' = NoCmd /\ got' = 0
  /\ UNCHANGED given

CmdNext == Begin \/ Take \/ Draw \/ BeginTransfer \/ EndTransfer

CmdSpec == CmdInit /\ [][CmdNext]_cmdVars
=============================================================================
