-------------------------------- MODULE GPU --------------------------------
(***************************************************************************)
(* The GPU (src/src/core/GPU.cpp): the command queue between the program,  *)
(* which stores words to GP0, and the parser, which takes one of them per  *)
(* tick; the parser's state machine over the union of command records; the *)
(* reads of GPUREAD that end a transfer; the vertical blank.               *)
(*                                                                         *)
(* System::tick lets the CPU run, then the GPU: turn says which is next.   *)
(* A word of a command is represented in the command record by its number  *)
(* within the command, and a word of an earlier command by 0: what can go  *)
(* wrong is which word stands in which field.                              *)
(***************************************************************************)
EXTENDS IntCtl, GPUWords, Fifo

CONSTANTS Words,        \* the words the program stores to GP0
          FramePeriod,  \* 883000 ticks in the code
          ClkSize       \* m_clk is a u32: 2^32 values

ASSUME GPUAssumption ==
  /\ "VBLANK" \in Irqs
  /\ Words \subseteq Word
  /\ FramePeriod \in Nat \ {0}
  /\ ClkSize \in Nat \ {0}

VARIABLES m_cmdbuf, m_clk,
          m_state, state_ind,   \* m_cmd.state, m_cmd.state_ind
          m_cmd,                \* the union of records, by word
          m_attr,               \* m_cmd.polygon, m_cmd.rect: the attributes
          m_y0,                 \* m_cmd.cvblit.dims.y is 0
          rdy_vram,             \* m_stat.rdy_vram
          turn,
          h_cmd, h_got,         \* history: the command, its words so far
          h_given,              \* history: what the renderer got last
          h_frame,              \* history: ticks since the last blank
          h_reset               \* history: the program has reset the GPU

parseVars == <<m_state, state_ind, m_cmd, m_attr, m_y0, h_cmd, h_got, h_given>>
vars == <<m_cmdbuf, m_clk, parseVars, rdy_vram, turn, h_frame, h_reset, intcVars>>

States == {"START", "QUICKRECT_TOPLEFT", "QUICKRECT_DIMS",
           "POLYGON_COLOR", "POLYGON_VERT", "POLYGON_UV",
           "CVBLIT_SRC", "CVBLIT_DIMS", "CVBLIT_INPROGRESS",
           "VCBLIT_SRC", "VCBLIT_DIMS", "VCBLIT_INPROGRESS",
           "RECT_SRC", "RECT_UV", "RECT_DIMS"}

(* The words of the union.  The records overlap: the colour of the third
   vertex of a polygon and the uv of a rectangle are the same word. *)
Cells == 0 .. 11
Col(i) == i
Vert(i) == 4 + i
UV(i) == 8 + i
RectCol == 0
RectSrc == 1
RectUV == 2
RectDims == 3
BlitSrc == 0
BlitDims == 1

GPUTypeOK ==
  /\ IntCtlTypeOK
  /\ m_cmdbuf \in Fifos(Word)
  /\ m_clk \in 0 .. ClkSize - 1
  /\ m_state \in States /\ state_ind \in 0 .. 4
  /\ m_cmd \in [Cells -> 0 .. 12]
  /\ m_attr \in Word /\ m_y0 \in BOOLEAN
  /\ rdy_vram \in BOOLEAN
  /\ turn \in {"cpu", "gpu"}
  /\ h_cmd \in Word \cup {NoCmd} /\ h_got \in 0 .. 12
  /\ h_given \in [cmd : Word \cup {NoCmd}, words : Seq(0 .. 12)]
  /\ h_frame \in Nat /\ h_reset \in BOOLEAN

NoneGiven == [cmd |-> NoCmd, words |-> <<>>]

(* m_clk and m_stat start with any content. *)
GPUInit ==
  /\ IntCtlInit
  /\ m_cmdbuf = NewFifo(Plain("zero"))
  /\ m_clk \in 0 .. ClkSize - 1
  /\ m_state = "START" /\ state_ind = 0
  /\ m_cmd = [c \in Cells |-> 0] /\ m_attr = Plain("other") /\ m_y0 = FALSE
  /\ rdy_vram \in BOOLEAN
  /\ turn = "cpu"
  /\ h_cmd = NoCmd /\ h_got = 0 /\ h_given = NoneGiven
  /\ h_frame = 0 /\ h_reset = FALSE

-----------------------------------------------------------------------------
(* The CPU's turn: at most one access. *)

Cpu == turn = "cpu" /\ turn' = "gpu" /\ UNCHANGED <<m_clk, h_frame>>

Idle == Cpu /\ UNCHANGED <<m_cmdbuf, parseVars, rdy_vram, h_reset, intcVars>>

(* A word with top byte 0 is dropped where a command is expected. *)
Drops(w) == m_state = "START" /\ w.cmd = "zero"

(* wr_gp0; at a full queue it panics. *)
WriteGp0 ==
  /\ Cpu
  /\ \E w \in Words :
       m_cmdbuf' = IF Drops(w) \/ FifoFull(m_cmdbuf) THEN m_cmdbuf
                                                    ELSE FifoPush(m_cmdbuf, w)
  /\ UNCHANGED <<parseVars, rdy_vram, h_reset, intcVars>>

Cleared(q) == [q EXCEPT !.f = q.b]

(* gp1_01 empties the queue, gp1_00 does so too and resets the registers;
   both leave the parser where it is. *)
ClearGp1 ==
  /\ Cpu
  /\ m_cmdbuf' = Cleared(m_cmdbuf)
  /\ UNCHANGED <<parseVars, rdy_vram, h_reset, intcVars>>

ResetGp1 ==
  /\ Cpu
  /\ m_cmdbuf' = Cleared(m_cmdbuf)
  /\ rdy_vram' = FALSE
  /\ h_reset' = TRUE
  /\ UNCHANGED <<parseVars, intcVars>>

(* The parser is done with a command. *)
ToStart == m_state' = "START" /\ h_cmd' = NoCmd /\ h_got' = 0

(* blit_cv, blit_valid: the height decides, the position does not. *)
BlitGoesOn == m_y0

(* rd_gpuread drives a transfer from VRAM; it ends with its first word. *)
ReadGpuread ==
  /\ Cpu
  /\ IF m_state = "VCBLIT_INPROGRESS" /\ ~BlitGoesOn
     THEN ToStart /\ rdy_vram' = FALSE
     ELSE UNCHANGED <<m_state, h_cmd, h_got, rdy_vram>>
  /\ UNCHANGED <<state_ind, m_cmd, m_attr, m_y0, h_given>>
  /\ UNCHANGED <<m_cmdbuf, h_reset, intcVars>>

AckVblank ==
  /\ Cpu
  /\ WriteStat({})
  /\ UNCHANGED <<m_cmdbuf, parseVars, rdy_vram, h_reset>>

CpuTurn == Idle \/ WriteGp0 \/ ClearGp1 \/ ResetGp1 \/ ReadGpuread \/ AckVblank

-----------------------------------------------------------------------------
(* process_cmd: one action for each state it finds. *)

(* The word is stored in a field of the record. *)
Store(cell) == m_cmd' = [m_cmd EXCEPT ![cell] = h_got + 1]

Goto(s) == m_state' = s /\ h_got' = h_got + 1 /\ UNCHANGED <<h_cmd, h_given>>

(* The renderer is handed the command. *)
Hand(words) == h_given' = [cmd |-> h_cmd, words |-> words]

Reads(s) == m_state = s

(* The words of the commands before are not the new command's. *)
BeginsWith(w, s) ==
  /\ m_state' = s
  /\ h_cmd' = w /\ h_got' = 1 /\ h_given' = NoneGiven
  /\ UNCHANGED m_y0

StartDrawing_Mut(w) ==                   \* Mutant: goes on with the old vertex
  /\ Reads("START") /\ w.cmd \in Drawings
  /\ BeginsWith(w, CASE w.cmd = "quickrect" -> "QUICKRECT_TOPLEFT"
                     [] w.cmd = "polygon"   -> "POLYGON_VERT"
                     [] w.cmd = "rect"      -> "RECT_SRC")
  /\ m_cmd' = [c \in Cells |-> IF c = Col(0) THEN 1 ELSE 0]
  /\ m_attr' = IF w.cmd = "quickrect" THEN m_attr ELSE w
  /\ state_ind' = state_ind

StartDrawing(w) ==
  /\ Reads("START") /\ w.cmd \in Drawings
  /\ BeginsWith(w, CASE w.cmd = "quickrect" -> "QUICKRECT_TOPLEFT"
                     [] w.cmd = "polygon"   -> "POLYGON_VERT"
                     [] w.cmd = "rect"      -> "RECT_SRC")
  /\ m_cmd' = [c \in Cells |-> IF c = Col(0) THEN 1 ELSE 0]
  /\ m_attr' = IF w.cmd = "quickrect" THEN m_attr ELSE w
  /\ state_ind' = IF w.cmd = "polygon" THEN 0 ELSE state_ind

StartBlit(w) ==
  /\ Reads("START") /\ w.cmd \in Blits
  /\ BeginsWith(w, IF w.cmd = "cvblit" THEN "CVBLIT_SRC" ELSE "VCBLIT_SRC")
  /\ m_cmd' = [c \in Cells |-> 0]
  /\ UNCHANGED <<m_attr, state_ind>>

StartNothing(w) ==
  /\ Reads("START") /\ w.cmd \notin Commands
  /\ UNCHANGED parseVars

QuickRect(w) ==
  \/ /\ Reads("QUICKRECT_TOPLEFT")
     /\ Store(1) /\ Goto("QUICKRECT_DIMS")
     /\ UNCHANGED <<state_ind, m_attr, m_y0>>
  \/ /\ Reads("QUICKRECT_DIMS")
     /\ Store(2) /\ ToStart
     /\ Hand(<<m_cmd[0], m_cmd[1], h_got + 1>>)
     /\ UNCHANGED <<state_ind, m_attr, m_y0>>

(* What the renderer finds in the record of a polygon that is complete: the
   fields its attributes say it has, vertex by vertex. *)
VertexWords(cells, i) ==
  IF ~m_attr.tex THEN <<cells[Col(i)], cells[Vert(i)]>>
  ELSE IF m_attr.gouraud \/ i = 0
       THEN <<cells[Col(i)], cells[Vert(i)], cells[UV(i)]>>
       ELSE <<cells[Vert(i)], cells[UV(i)]>>

PolygonWords(cells) ==
  VertexWords(cells, 0) \o VertexWords(cells, 1) \o VertexWords(cells, 2)
  \o (IF Vertices(m_attr) = 4 THEN VertexWords(cells, 3) ELSE <<>>)

(* POLYGON_DONE: the record is drawn in the same call. *)
NextVertex_Mut(s) ==                     \* Mutant: one vertex too many
  /\ state_ind' = state_ind + 1
  /\ IF state_ind = Vertices(m_attr)
     THEN ToStart /\ Hand(PolygonWords(m_cmd'))
     ELSE Goto(s)

NextVertex(s) ==
  /\ state_ind' = state_ind + 1
  /\ IF state_ind + 1 = Vertices(m_attr)
     THEN ToStart /\ Hand(PolygonWords(m_cmd'))
     ELSE Goto(s)

Polygon(w) ==
  /\ \/ /\ Reads("POLYGON_COLOR")
        /\ Store(Col(state_ind)) /\ Goto("POLYGON_VERT") /\ UNCHANGED state_ind
     \/ /\ Reads("POLYGON_VERT")
        /\ Store(Vert(state_ind))
        /\ IF m_attr.tex THEN Goto("POLYGON_UV") /\ UNCHANGED state_ind
                         ELSE NextVertex("POLYGON_COLOR")
     \/ /\ Reads("POLYGON_UV")
        /\ Store(UV(state_ind))
        /\ NextVertex(IF m_attr.gouraud THEN "POLYGON_COLOR" ELSE "POLYGON_VERT")
  /\ UNCHANGED <<m_attr, m_y0>>

DrawRect ==
  ToStart /\ Hand(<<m_cmd'[RectCol], m_cmd'[RectSrc]>>
                  \o (IF m_attr.tex THEN <<m_cmd'[RectUV]>> ELSE <<>>)
                  \o (IF m_attr.var THEN <<m_cmd'[RectDims]>> ELSE <<>>))

Rect(w) ==
  /\ \/ /\ Reads("RECT_SRC")
        /\ Store(RectSrc)
        /\ IF m_attr.tex THEN Goto("RECT_UV")
           ELSE IF m_attr.var THEN Goto("RECT_DIMS") ELSE DrawRect
     \/ /\ Reads("RECT_UV")
        /\ Store(RectUV)
        /\ IF m_attr.var THEN Goto("RECT_DIMS") ELSE DrawRect
     \/ /\ Reads("RECT_DIMS")
        /\ Store(RectDims)
        /\ DrawRect
  /\ UNCHANGED <<state_ind, m_attr, m_y0>>

(* The header of a transfer.  The word that completes it hands the renderer
   the rectangle, although no pixel has moved yet. *)
Header(w, src, dims, inProgress) ==
  /\ \/ /\ Reads(src)
        /\ Store(BlitSrc) /\ Goto(dims) /\ UNCHANGED m_y0
     \/ /\ Reads(dims)
        /\ Store(BlitDims)
        /\ m_state' = inProgress /\ h_got' = h_got + 1 /\ UNCHANGED h_cmd
        /\ m_y0' = w.y0
        /\ Hand(<<m_cmd[BlitSrc], h_got + 1>>)
  /\ UNCHANGED <<state_ind, m_attr>>

(* A word of pixels; blit_valid lets a transfer end with its first pixel. *)
Pixels ==
  /\ Reads("CVBLIT_INPROGRESS")
  /\ IF BlitGoesOn THEN UNCHANGED <<m_state, h_cmd, h_got>> ELSE ToStart
  /\ UNCHANGED <<state_ind, m_cmd, m_attr, m_y0, h_given>>

(* Words that arrive while the program should be reading. *)
Ignored == Reads("VCBLIT_INPROGRESS") /\ UNCHANGED parseVars

ProcessCmd(w) ==
  \/ StartDrawing(w) \/ StartBlit(w) \/ StartNothing(w)
  \/ QuickRect(w) \/ Polygon(w) \/ Rect(w)
  \/ Header(w, "CVBLIT_SRC", "CVBLIT_DIMS", "CVBLIT_INPROGRESS")
  \/ Header(w, "VCBLIT_SRC", "VCBLIT_DIMS", "VCBLIT_INPROGRESS")
  \/ Pixels \/ Ignored

Gpu == turn = "gpu" /\ turn' = "cpu" /\ UNCHANGED h_reset

IsBlank_Mut(clk) == clk = FramePeriod            \* Mutant: once a wrap
IsBlank(clk) == clk % FramePeriod = 0

Clock ==
  LET clk == (m_clk + 1) % ClkSize
  IN /\ m_clk' = clk
     /\ IF IsBlank(clk) THEN SetInterrupt("VBLANK") /\ h_frame' = 0
                        ELSE UNCHANGED intcVars /\ h_frame' = h_frame + 1

TickIdle ==
  /\ Gpu /\ Clock
  /\ FifoEmpty(m_cmdbuf)
  /\ UNCHANGED <<m_cmdbuf, parseVars, rdy_vram>>

(* pop(); nothing reads the slot again before it is written, so what it held
   is forgotten. *)
Taken(q) == FifoPop([q EXCEPT !.data[q.f] = Plain("zero")])

TickCommand_Mut ==                       \* Mutant: a blank takes the tick
  /\ Gpu /\ Clock
  /\ ~FifoEmpty(m_cmdbuf)
  /\ IF h_frame' = 0
     THEN UNCHANGED <<m_cmdbuf, parseVars, rdy_vram>>
     ELSE /\ m_cmdbuf' = Taken(m_cmdbuf)
          /\ ProcessCmd(FifoFront(m_cmdbuf))
          /\ rdy_vram' = (rdy_vram \/ (m_state = "VCBLIT_DIMS"))

TickCommand ==
  /\ Gpu /\ Clock
  /\ ~FifoEmpty(m_cmdbuf)
  /\ m_cmdbuf' = Taken(m_cmdbuf)
  /\ ProcessCmd(FifoFront(m_cmdbuf))
  /\ rdy_vram' = (rdy_vram \/ (m_state = "VCBLIT_DIMS"))

GpuTurn == TickIdle \/ TickCommand

GPUNext == CpuTurn \/ GpuTurn

GPUSpec == GPUInit /\ [][GPUNext]_vars

-----------------------------------------------------------------------------
(* Properties. *)

Parser == INSTANCE GPUCommands WITH cmd <- h_cmd, got <- h_got, given <- h_given

(* Whatever the program does between the words of a command, the parser cuts
   the stream into commands, and no field the renderer reads holds a word of
   another command or of another field, although the records share memory and
   state_ind and the attributes outlive the commands. *)
ImplementsCommands == Parser!CmdSpec

(* The queue is empty whenever the program may store: wr_gp0 never panics,
   and the state by which it drops a word is the one in which the parser
   would have read it. *)
StoresSeeParser == turn = "cpu" => FifoEmpty(m_cmdbuf)

(* A program that has reset the GPU and sees rdy_vram can read the transfer
   it asked for: GPUREAD is not read outside of one. *)
ReadyMeansReadable == h_reset /\ rdy_vram => m_state = "VCBLIT_INPROGRESS"

(* The parser indexes the arrays of a polygon with a vertex it has. *)
IndexInside ==
  m_state \in {"POLYGON_COLOR", "POLYGON_VERT", "POLYGON_UV"} =>
    state_ind < Vertices(m_attr)

(* The parser's state, its index and the status bit agree, whatever resets
   of the queue and of the GPU come between the words of a command. *)
ParserOK == IndexInside /\ ReadyMeansReadable

(* A vertical blank comes within a frame's time, also from any m_clk the
   program starts with and when m_clk wraps. *)
BlankInTime == h_frame < FramePeriod
=============================================================================
