----------------------------- MODULE GPUProofs -----------------------------
(***************************************************************************)
(* Proofs about GPU: its types, the queue between the program and the      *)
(* parser, the time between vertical blanks, and that the parser, whose    *)
(* records share memory, implements the commands of GPUCommands; then      *)
(* about Display, which shows what the renderer has drawn.                 *)
(*                                                                         *)
(* The parser's invariant says, for each of its states, how many words of  *)
(* the command it has read and in which fields they stand.                 *)
(***************************************************************************)
EXTENDS GPU, Display, FifoProofs

(* How many words a vertex takes, and which of them its colour, its position
   and its texture coordinates are. *)
PerVertex(w) == IF w.tex /\ w.gouraud THEN 3 ELSE 2
OwnColour(w) == w.gouraud \/ ~w.tex
ColourOf(cells, w, i) == cells[Col(i)] = PerVertex(w) * i + 1
PositionOf(cells, w, i) == cells[Vert(i)] = PerVertex(w) * i + 2
TextureOf(cells, w, i) == cells[UV(i)] = PerVertex(w) * i + 3

(* The fields of vertex i, as far as the command fills them. *)
HasColour(cells, w, i) == OwnColour(w) \/ i = 0 => ColourOf(cells, w, i)
HasVertex(cells, w, i) ==
  HasColour(cells, w, i) /\ PositionOf(cells, w, i) /\ (w.tex => TextureOf(cells, w, i))

(* Between two words of a polygon. *)
PolygonInv ==
  /\ h_cmd.cmd = "polygon" /\ m_attr = h_cmd
  /\ state_ind \in 0 .. Vertices(h_cmd) - 1
  /\ \A i \in 0 .. 3 : i < state_ind => HasVertex(m_cmd, h_cmd, i)
  /\ \/ /\ m_state = "POLYGON_COLOR"
        /\ OwnColour(h_cmd) /\ state_ind > 0
        /\ h_got = PerVertex(h_cmd) * state_ind
     \/ /\ m_state = "POLYGON_VERT"
        /\ HasColour(m_cmd, h_cmd, state_ind)
        /\ h_got = PerVertex(h_cmd) * state_ind + 1
     \/ /\ m_state = "POLYGON_UV"
        /\ h_cmd.tex /\ HasColour(m_cmd, h_cmd, state_ind) /\ PositionOf(m_cmd, h_cmd, state_ind)
        /\ h_got = PerVertex(h_cmd) * state_ind + 2

QuickRectInv ==
  /\ h_cmd.cmd = "quickrect"
  /\ m_cmd[0] = 1
  /\ \/ m_state = "QUICKRECT_TOPLEFT" /\ h_got = 1
     \/ m_state = "QUICKRECT_DIMS" /\ h_got = 2 /\ m_cmd[1] = 2

RectInv ==
  /\ h_cmd.cmd = "rect" /\ m_attr = h_cmd
  /\ m_cmd[RectCol] = 1
  /\ \/ m_state = "RECT_SRC" /\ h_got = 1
     \/ m_state = "RECT_UV" /\ h_got = 2 /\ m_cmd[RectSrc] = 2 /\ h_cmd.tex
     \/ /\ m_state = "RECT_DIMS" /\ m_cmd[RectSrc] = 2 /\ h_cmd.var
        /\ IF h_cmd.tex THEN h_got = 3 /\ m_cmd[RectUV] = 3 ELSE h_got = 2

BlitInv(kind, src, dims, inProgress) ==
  /\ h_cmd.cmd = kind
  /\ \/ m_state = src /\ h_got = 1
     \/ m_state = dims /\ h_got = 2 /\ m_cmd[BlitSrc] = 2
     \/ m_state = inProgress /\ h_got = 3

(* Where the parser stands in the command it reads, and which of its words
   are already in the record. *)
ParseInv ==
  \/ m_state = "START" /\ h_cmd = NoCmd /\ h_got = 0
  \/ QuickRectInv \/ PolygonInv \/ RectInv
  \/ BlitInv("cvblit", "CVBLIT_SRC", "CVBLIT_DIMS", "CVBLIT_INPROGRESS")
  \/ BlitInv("vcblit", "VCBLIT_SRC", "VCBLIT_DIMS", "VCBLIT_INPROGRESS")

FrameInv == h_frame <= m_clk % FramePeriod

QueueInv ==
  /\ turn = "cpu" => FifoLen(m_cmdbuf) = 0
  /\ turn = "gpu" => FifoLen(m_cmdbuf) <= 1

-----------------------------------------------------------------------------
(* The first k words of a command. *)
FirstWords(k) == [n \in 1 .. k |-> n]

LEMMA FirstWordsIs ==
  /\ FirstWords(2) = <<1, 2>>
  /\ FirstWords(3) = <<1, 2, 3>>
  BY DEF FirstWords

LEMMA FirstWordsSeq ==
  ASSUME NEW k \in Nat
  PROVE  /\ FirstWords(k) \in Seq(Nat) /\ Len(FirstWords(k)) = k
         /\ k <= 12 => FirstWords(k) \in Seq(0 .. 12)
  BY DEF FirstWords

(* The words of three vertices. *)
LEMMA TriangleOfTwo ==
  ASSUME NEW a, NEW b, NEW c,
         a = FirstWords(2), b = <<3, 4>>, c = <<5, 6>>
  PROVE  a \o b \o c = FirstWords(6)
  BY DEF FirstWords

LEMMA TriangleOfThree ==
  ASSUME NEW a, NEW b, NEW c,
         a = FirstWords(3), b = <<4, 5, 6>>, c = <<7, 8, 9>>
  PROVE  a \o b \o c = FirstWords(9)
  BY DEF FirstWords

LEMMA TriangleOfThreeAndTwo ==
  ASSUME NEW a, NEW b, NEW c,
         a = FirstWords(3), b = <<4, 5>>, c = <<6, 7>>
  PROVE  a \o b \o c = FirstWords(7)
  BY DEF FirstWords

-----------------------------------------------------------------------------
(* What the renderer is handed. *)

(* A polygon whose vertices are all there is handed over word by word. *)
LEMMA PolygonIsWhole ==
  ASSUME m_attr \in Word, m_attr.cmd = "polygon", NEW cells,
         \A i \in 0 .. Vertices(m_attr) - 1 : HasVertex(cells, m_attr, i)
  PROVE  PolygonWords(cells) = FirstWords(Parser!Length(m_attr))
<1> DEFINE n == Vertices(m_attr)
<1>1. /\ m_attr.tex \in BOOLEAN /\ m_attr.quad \in BOOLEAN /\ m_attr.gouraud \in BOOLEAN
      /\ Parser!Vertices(m_attr) = n
      /\ n = 3 \/ n = 4
  BY DEF Word, Vertices, Parser!Vertices
<1>2. \A i \in 0 .. n - 1 :
        /\ OwnColour(m_attr) \/ i = 0 => cells[Col(i)] = PerVertex(m_attr) * i + 1
        /\ cells[Vert(i)] = PerVertex(m_attr) * i + 2
        /\ m_attr.tex => cells[UV(i)] = PerVertex(m_attr) * i + 3
  BY DEF HasVertex, HasColour, ColourOf, PositionOf, TextureOf
<1>3. 0 \in 0 .. n - 1 /\ 1 \in 0 .. n - 1 /\ 2 \in 0 .. n - 1
      /\ (n = 4 => 3 \in 0 .. n - 1)
  BY <1>1
<1> DEFINE V(i) == VertexWords(cells, i)
<1>4. n = 3 => PolygonWords(cells) = V(0) \o V(1) \o V(2) \o <<>>
  BY DEF PolygonWords
<1>5. n = 4 => PolygonWords(cells) = V(0) \o V(1) \o V(2) \o V(3)
  BY DEF PolygonWords
<1>6. \A k \in Nat : FirstWords(k) \o <<>> = FirstWords(k)
  BY FirstWordsSeq, ConcatEmptySeq
<1>7. CASE ~m_attr.tex
  <2>1. PerVertex(m_attr) = 2 /\ OwnColour(m_attr) /\ Parser!Length(m_attr) = 2 * n
    BY <1>1, <1>7 DEF PerVertex, OwnColour, Parser!Length
  <2>2. V(0) = FirstWords(2) /\ V(1) = <<3, 4>> /\ V(2) = <<5, 6>>
    BY <1>2, <1>3, <1>7, <2>1, FirstWordsIs DEF VertexWords
  <2>3. V(0) \o V(1) \o V(2) = FirstWords(6)
    BY <2>2, TriangleOfTwo
  <2>4. CASE n = 3
    <3>1. Parser!Length(m_attr) = 6
      BY <2>1, <2>4
    <3>2. FirstWords(6) \o <<>> = FirstWords(6)
      BY <1>6
    <3>3. PolygonWords(cells) = FirstWords(6)
      BY <1>4, <2>3, <2>4, <3>2
    <3> QED  BY <3>1, <3>3
  <2>5. CASE n = 4
    <3>1. V(3) = <<7, 8>>
      BY <1>2, <1>3, <1>7, <2>1, <2>5 DEF VertexWords
    <3>2. FirstWords(6) \o <<7, 8>> = FirstWords(8)
      BY DEF FirstWords
    <3>3. PolygonWords(cells) = FirstWords(8)
      BY <1>5, <2>3, <2>5, <3>1, <3>2
    <3>4. Parser!Length(m_attr) = 8
      BY <2>1, <2>5
    <3> QED  BY <3>3, <3>4
  <2> QED  BY <1>1, <2>4, <2>5
<1>8. CASE m_attr.tex /\ m_attr.gouraud
  <2>1. PerVertex(m_attr) = 3 /\ OwnColour(m_attr) /\ Parser!Length(m_attr) = 3 * n
    BY <1>1, <1>8 DEF PerVertex, OwnColour, Parser!Length
  <2>2. V(0) = FirstWords(3) /\ V(1) = <<4, 5, 6>> /\ V(2) = <<7, 8, 9>>
    BY <1>2, <1>3, <1>8, <2>1, FirstWordsIs DEF VertexWords
  <2>3. V(0) \o V(1) \o V(2) = FirstWords(9)
    BY <2>2, TriangleOfThree
  <2>4. CASE n = 3
    <3>1. Parser!Length(m_attr) = 9
      BY <2>1, <2>4
    <3>2. FirstWords(9) \o <<>> = FirstWords(9)
      BY <1>6
    <3>3. PolygonWords(cells) = FirstWords(9)
      BY <1>4, <2>3, <2>4, <3>2
    <3> QED  BY <3>1, <3>3
  <2>5. CASE n = 4
    <3>1. V(3) = <<10, 11, 12>>
      BY <1>2, <1>3, <1>8, <2>1, <2>5 DEF VertexWords
    <3>2. FirstWords(9) \o <<10, 11, 12>> = FirstWords(12)
      BY DEF FirstWords
    <3>3. PolygonWords(cells) = FirstWords(12)
      BY <1>5, <2>3, <2>5, <3>1, <3>2
    <3>4. Parser!Length(m_attr) = 12
      BY <2>1, <2>5
    <3> QED  BY <3>3, <3>4
  <2> QED  BY <1>1, <2>4, <2>5
<1>9. CASE m_attr.tex /\ ~m_attr.gouraud
  <2>1. PerVertex(m_attr) = 2 /\ ~OwnColour(m_attr) /\ Parser!Length(m_attr) = 1 + 2 * n
    BY <1>1, <1>9 DEF PerVertex, OwnColour, Parser!Length
  <2>2. V(0) = FirstWords(3) /\ V(1) = <<4, 5>> /\ V(2) = <<6, 7>>
    BY <1>2, <1>3, <1>9, <2>1, FirstWordsIs DEF VertexWords
  <2>3. V(0) \o V(1) \o V(2) = FirstWords(7)
    BY <2>2, TriangleOfThreeAndTwo
  <2>4. CASE n = 3
    <3>1. Parser!Length(m_attr) = 7
      BY <2>1, <2>4
    <3>2. FirstWords(7) \o <<>> = FirstWords(7)
      BY <1>6
    <3>3. PolygonWords(cells) = FirstWords(7)
      BY <1>4, <2>3, <2>4, <3>2
    <3> QED  BY <3>1, <3>3
  <2>5. CASE n = 4
    <3>1. V(3) = <<8, 9>>
      BY <1>2, <1>3, <1>9, <2>1, <2>5 DEF VertexWords
    <3>2. FirstWords(7) \o <<8, 9>> = FirstWords(9)
      BY DEF FirstWords
    <3>3. PolygonWords(cells) = FirstWords(9)
      BY <1>5, <2>3, <2>5, <3>1, <3>2
    <3>4. Parser!Length(m_attr) = 9
      BY <2>1, <2>5
    <3> QED  BY <3>3, <3>4
  <2> QED  BY <1>1, <2>4, <2>5
<1> QED  BY <1>1, <1>7, <1>8, <1>9

LEMMA Lengths ==
  ASSUME NEW w \in Word
  PROVE  /\ w.cmd = "quickrect" => Parser!Length(w) = 3
         /\ w.cmd = "polygon" =>
              Parser!Length(w) = PerVertex(w) * Vertices(w) + (IF OwnColour(w) THEN 0 ELSE 1)
         /\ w.cmd = "rect" =>
              Parser!Length(w) = 2 + (IF w.tex THEN 1 ELSE 0) + (IF w.var THEN 1 ELSE 0)
         /\ w.cmd \in Blits => Parser!Length(w) = 3 /\ Parser!Handed(w) = <<2, 3>>
         /\ w.cmd \in Drawings => Parser!Handed(w) = FirstWords(Parser!Length(w))
         /\ w # NoCmd
<1>1. w.cmd \in {"quickrect", "polygon", "rect", "cvblit", "vcblit", "zero", "other"}
      /\ w.tex \in BOOLEAN /\ w.quad \in BOOLEAN /\ w.gouraud \in BOOLEAN /\ w.var \in BOOLEAN
  BY DEF Word, Commands, Drawings, Blits
<1>2. w.cmd = "quickrect" => Parser!Length(w) = 3
  BY DEF Parser!Length
<1>3. w.cmd = "rect" =>
        Parser!Length(w) = 2 + (IF w.tex THEN 1 ELSE 0) + (IF w.var THEN 1 ELSE 0)
  BY DEF Parser!Length
<1>4. w.cmd \in Blits => Parser!Length(w) = 3 /\ Parser!Handed(w) = <<2, 3>>
  BY DEF Parser!Length, Parser!Handed, Blits, Parser!Blits
<1>5. w.cmd \in Drawings => Parser!Handed(w) = FirstWords(Parser!Length(w))
  BY DEF Parser!Handed, FirstWords, Drawings, Parser!Blits
<1>6. w.cmd = "polygon" =>
        Parser!Length(w) = PerVertex(w) * Vertices(w) + (IF OwnColour(w) THEN 0 ELSE 1)
  <2>1. Parser!Vertices(w) = Vertices(w)
    BY DEF Vertices, Parser!Vertices
  <2> QED  BY <1>1, <2>1 DEF Parser!Length, PerVertex, OwnColour, Vertices
<1>7. w # NoCmd
  BY <1>1 DEF NoCmd, Plain
<1> QED  BY <1>2, <1>3, <1>4, <1>5, <1>6, <1>7

-----------------------------------------------------------------------------
(* A word the parser takes is a step of the command it belongs to. *)

ParseType ==
  /\ m_state \in States /\ state_ind \in 0 .. 4
  /\ m_cmd \in [Cells -> 0 .. 12]
  /\ m_attr \in Word /\ m_y0 \in BOOLEAN
  /\ h_cmd \in Word \cup {NoCmd} /\ h_got \in 0 .. 12
  /\ h_given \in [cmd : Word \cup {NoCmd}, words : Seq(0 .. 12)]

ParseStep == ParseType' /\ ParseInv' /\ [Parser!CmdNext]_<<h_cmd, h_got, h_given>>

LEMMA KeepsParse ==
  ASSUME ParseType, ParseInv, UNCHANGED parseVars
  PROVE  ParseStep
<1>1. ParseType'
  BY DEF ParseType, parseVars
<1>2. ParseInv'
  BY DEF ParseInv, QuickRectInv, PolygonInv, RectInv, BlitInv, HasVertex, HasColour,
         ColourOf, PositionOf, TextureOf, parseVars
<1> QED  BY <1>1, <1>2 DEF ParseStep, parseVars

LEMMA InCommand ==
  ASSUME ParseType, h_cmd.cmd \in Commands
  PROVE  h_cmd \in Word /\ h_cmd # NoCmd
  BY DEF ParseType, NoCmd, Plain, Commands, Drawings, Blits

LEMMA StartStep ==
  ASSUME ParseType, ParseInv, NEW w \in Word, StartDrawing(w) \/ StartBlit(w)
  PROVE  ParseStep
<1>1. m_state = "START" /\ h_cmd = NoCmd /\ h_got = 0
  BY DEF StartDrawing, StartBlit, Reads, ParseInv, QuickRectInv, PolygonInv, RectInv, BlitInv
<1>2. /\ h_cmd' = w /\ h_got' = 1 /\ h_given' = NoneGiven /\ w.cmd \in Commands
      /\ m_y0' = m_y0
  BY DEF StartDrawing, StartBlit, BeginsWith, Commands
<1>3. Parser!CmdNext
  BY <1>1, <1>2 DEF Parser!CmdNext, Parser!Begin, NoCmd, Parser!NoCmd, Plain, Parser!Plain,
     Commands, Parser!Commands, Drawings, Parser!Drawings, Blits, Parser!Blits, Word, Parser!Word,
     NoneGiven, Parser!NoneGiven
<1>4. ParseType' /\ ParseInv'
  <2>1. h_given' \in [cmd : Word \cup {NoCmd}, words : Seq(0 .. 12)]
    BY <1>2, EmptySeq DEF NoneGiven
  <2>2. CASE StartDrawing(w)
    <3>1. m_cmd' \in [Cells -> 0 .. 12] /\ m_cmd'[0] = 1
      BY <2>2 DEF StartDrawing, Cells, Col
    <3>2. w.cmd \in {"quickrect", "polygon", "rect"}
      BY <2>2 DEF StartDrawing, Drawings
    <3>3. CASE w.cmd = "quickrect"
      <4>1. m_state' = "QUICKRECT_TOPLEFT" /\ m_attr' = m_attr /\ state_ind' = state_ind
        BY <2>2, <3>3 DEF StartDrawing, BeginsWith
      <4> QED  BY <1>2, <2>1, <3>1, <3>3, <4>1 DEF ParseType, ParseInv, QuickRectInv, States
    <3>4. CASE w.cmd = "polygon"
      <4>1. m_state' = "POLYGON_VERT" /\ m_attr' = w /\ state_ind' = 0
        BY <2>2, <3>4 DEF StartDrawing, BeginsWith
      <4>2. PerVertex(w) \in {2, 3} /\ Vertices(w) \in {3, 4}
        BY DEF PerVertex, Vertices
      <4>3. PolygonInv'
        BY <1>2, <3>1, <3>4, <4>1, <4>2 DEF PolygonInv, HasColour, ColourOf, Col
      <4> QED  BY <1>2, <2>1, <3>1, <4>1, <4>3 DEF ParseType, ParseInv, States
    <3>5. CASE w.cmd = "rect"
      <4>1. m_state' = "RECT_SRC" /\ m_attr' = w /\ state_ind' = state_ind
        BY <2>2, <3>5 DEF StartDrawing, BeginsWith
      <4> QED  BY <1>2, <2>1, <3>1, <3>5, <4>1 DEF ParseType, ParseInv, RectInv, RectCol, States
    <3> QED  BY <3>2, <3>3, <3>4, <3>5
  <2>3. CASE StartBlit(w)
    <3>1. m_cmd' \in [Cells -> 0 .. 12] /\ m_attr' = m_attr /\ state_ind' = state_ind
          /\ w.cmd \in {"cvblit", "vcblit"}
          /\ m_state' = IF w.cmd = "cvblit" THEN "CVBLIT_SRC" ELSE "VCBLIT_SRC"
      BY <2>3 DEF StartBlit, BeginsWith, Cells, Blits
    <3> QED  BY <1>2, <2>1, <3>1 DEF ParseType, ParseInv, BlitInv, States
  <2> QED  BY <2>2, <2>3
<1> QED  BY <1>3, <1>4 DEF ParseStep

(* A word that is stored in the middle of a command. *)
LEMMA Taking ==
  ASSUME ParseType, h_cmd.cmd \in Commands,
         h_got + 1 < Parser!Length(h_cmd), h_got' = h_got + 1, UNCHANGED <<h_cmd, h_given>>
  PROVE  Parser!CmdNext
  BY InCommand DEF Parser!CmdNext, Parser!Take, NoCmd, Parser!NoCmd, Plain, Parser!Plain

(* The word that completes a drawing. *)
LEMMA Drawing ==
  ASSUME ParseType, h_cmd.cmd \in Drawings, h_got + 1 = Parser!Length(h_cmd),
         ToStart, Hand(FirstWords(Parser!Length(h_cmd)))
  PROVE  Parser!CmdNext
<1>1. Parser!Handed(h_cmd) = FirstWords(Parser!Length(h_cmd))
  BY InCommand, Lengths DEF Commands
<1>2. Parser!Draw
  BY <1>1 DEF Parser!Draw, ToStart, Hand, Drawings, Parser!Drawings,
     NoCmd, Parser!NoCmd, Plain, Parser!Plain
<1> QED  BY <1>2 DEF Parser!CmdNext

LEMMA StoreType ==
  ASSUME ParseType, NEW c \in Cells, h_got + 1 \in 0 .. 12, Store(c)
  PROVE  /\ m_cmd' \in [Cells -> 0 .. 12]
         /\ m_cmd'[c] = h_got + 1
         /\ \A d \in Cells \ {c} : m_cmd'[d] = m_cmd[d]
  BY DEF Store, ParseType

LEMMA HandType ==
  ASSUME ParseType, NEW n \in 0 .. 12, Hand(FirstWords(n))
  PROVE  h_given' \in [cmd : Word \cup {NoCmd}, words : Seq(0 .. 12)]
  BY FirstWordsSeq DEF Hand, ParseType

LEMMA BackAtStart ==
  ASSUME ParseType, ToStart, m_cmd' \in [Cells -> 0 .. 12], m_attr' \in Word, m_y0' \in BOOLEAN,
         state_ind' \in 0 .. 4, h_given' \in [cmd : Word \cup {NoCmd}, words : Seq(0 .. 12)]
  PROVE  ParseType' /\ ParseInv'
  BY DEF ParseType, ParseInv, ToStart, States

LEMMA QuickRectStep ==
  ASSUME ParseType, ParseInv, NEW w, QuickRect(w)
  PROVE  ParseStep
<1>1. QuickRectInv /\ h_cmd.cmd = "quickrect" /\ h_cmd.cmd \in Drawings /\ h_cmd.cmd \in Commands
  BY DEF QuickRect, Reads, ParseInv, QuickRectInv, PolygonInv, RectInv, BlitInv, Drawings, Commands
<1>2. Parser!Length(h_cmd) = 3
  BY <1>1, InCommand, Lengths
<1>3. 0 \in Cells /\ 1 \in Cells /\ 2 \in Cells
  BY DEF Cells
<1>4. CASE m_state = "QUICKRECT_TOPLEFT"
  <2>1. h_got = 1 /\ Store(1) /\ Goto("QUICKRECT_DIMS") /\ UNCHANGED <<state_ind, m_attr, m_y0>>
    BY <1>1, <1>4 DEF QuickRect, Reads, QuickRectInv
  <2>2. m_cmd' \in [Cells -> 0 .. 12] /\ m_cmd'[1] = 2 /\ m_cmd'[0] = 1
    BY <1>1, <1>3, <2>1, StoreType DEF QuickRectInv
  <2>3. Parser!CmdNext
    BY <1>1, <1>2, <2>1, Taking DEF Goto
  <2> QED
    BY <1>1, <2>1, <2>2, <2>3 DEF ParseStep, ParseType, ParseInv, QuickRectInv, Goto, States
<1>5. CASE m_state = "QUICKRECT_DIMS"
  <2>1. /\ h_got = 2 /\ Store(2) /\ ToStart /\ UNCHANGED <<state_ind, m_attr, m_y0>>
        /\ Hand(<<m_cmd[0], m_cmd[1], 3>>) /\ m_cmd[0] = 1 /\ m_cmd[1] = 2
    BY <1>1, <1>5 DEF QuickRect, Reads, QuickRectInv
  <2>2. m_cmd' \in [Cells -> 0 .. 12]
    BY <1>3, <2>1, StoreType
  <2>3. Hand(FirstWords(3))
    BY <2>1, FirstWordsIs
  <2>4. Parser!CmdNext
    BY <1>1, <1>2, <2>1, <2>3, Drawing
  <2>5. h_given' \in [cmd : Word \cup {NoCmd}, words : Seq(0 .. 12)]
    BY <2>3, HandType
  <2>6. ParseType' /\ ParseInv'
    BY <2>1, <2>2, <2>5, BackAtStart DEF ParseType
  <2> QED  BY <2>4, <2>6 DEF ParseStep
<1> QED  BY <1>1, <1>4, <1>5 DEF QuickRectInv

LEMMA RectIsWhole ==
  ASSUME m_attr \in Word, m_attr.cmd = "rect", NEW cells,
         cells[RectCol] = 1, cells[RectSrc] = 2,
         m_attr.tex => cells[RectUV] = 3,
         m_attr.var => cells[RectDims] = IF m_attr.tex THEN 4 ELSE 3
  PROVE  <<cells[RectCol], cells[RectSrc]>>
         \o (IF m_attr.tex THEN <<cells[RectUV]>> ELSE <<>>)
         \o (IF m_attr.var THEN <<cells[RectDims]>> ELSE <<>>)
         = FirstWords(Parser!Length(m_attr))
<1>1. m_attr.tex \in BOOLEAN /\ m_attr.var \in BOOLEAN
  BY DEF Word
<1>2. <<cells[RectCol], cells[RectSrc]>> = FirstWords(2)
  BY FirstWordsIs
<1>3. \A k \in Nat : FirstWords(k) \o <<>> = FirstWords(k)
  BY FirstWordsSeq, ConcatEmptySeq
<1>4. FirstWords(2) \o <<3>> = FirstWords(3) /\ FirstWords(3) \o <<4>> = FirstWords(4)
  BY DEF FirstWords
<1>5. Parser!Length(m_attr) = 2 + (IF m_attr.tex THEN 1 ELSE 0) + (IF m_attr.var THEN 1 ELSE 0)
  BY Lengths
<1>6. CASE m_attr.tex
  <2>1. m_attr.var => Parser!Length(m_attr) = 4
    BY <1>5, <1>6
  <2>2. ~m_attr.var => Parser!Length(m_attr) = 3
    BY <1>5, <1>6
  <2>3. m_attr.var => cells[RectDims] = 4
    BY <1>6
  <2> QED  BY <1>2, <1>3, <1>4, <1>6, <2>1, <2>2, <2>3
<1>7. CASE ~m_attr.tex
  <2>1. m_attr.var => Parser!Length(m_attr) = 3
    BY <1>5, <1>7
  <2>2. ~m_attr.var => Parser!Length(m_attr) = 2
    BY <1>5, <1>7
  <2>3. m_attr.var => cells[RectDims] = 3
    BY <1>7
  <2> QED  BY <1>2, <1>3, <1>4, <1>7, <2>1, <2>2, <2>3
<1> QED  BY <1>6, <1>7

(* The word that completes a rectangle. *)
LEMMA DrawRectStep ==
  ASSUME ParseType, h_cmd.cmd = "rect", m_attr = h_cmd,
         DrawRect, h_got + 1 = Parser!Length(h_cmd),
         UNCHANGED <<state_ind, m_attr, m_y0>>, m_cmd' \in [Cells -> 0 .. 12],
         m_cmd'[RectCol] = 1, m_cmd'[RectSrc] = 2,
         m_attr.tex => m_cmd'[RectUV] = 3,
         m_attr.var => m_cmd'[RectDims] = IF m_attr.tex THEN 4 ELSE 3
  PROVE  ParseStep
<1>1. h_cmd \in Word /\ h_cmd.cmd \in Drawings
  BY InCommand DEF Commands, Drawings
<1>2. Hand(FirstWords(Parser!Length(h_cmd))) /\ ToStart
  BY <1>1, RectIsWhole DEF DrawRect
<1>3. Parser!Length(h_cmd) \in 0 .. 12
  BY <1>1, Lengths
<1>4. h_given' \in [cmd : Word \cup {NoCmd}, words : Seq(0 .. 12)]
  BY <1>2, <1>3, HandType
<1>5. Parser!CmdNext
  BY <1>1, <1>2, Drawing
<1>6. ParseType' /\ ParseInv'
  BY <1>2, <1>4, BackAtStart DEF ParseType
<1> QED  BY <1>5, <1>6 DEF ParseStep

LEMMA RectStep ==
  ASSUME ParseType, ParseInv, NEW w, Rect(w)
  PROVE  ParseStep
<1>1. RectInv /\ h_cmd.cmd = "rect" /\ h_cmd.cmd \in Commands /\ m_attr = h_cmd
  BY DEF Rect, Reads, ParseInv, QuickRectInv, PolygonInv, RectInv, BlitInv, Drawings, Commands
<1>2. /\ h_cmd \in Word /\ h_cmd.tex \in BOOLEAN /\ h_cmd.var \in BOOLEAN
      /\ Parser!Length(h_cmd) = 2 + (IF h_cmd.tex THEN 1 ELSE 0) + (IF h_cmd.var THEN 1 ELSE 0)
  BY <1>1, InCommand, Lengths DEF Word
<1>3. /\ RectCol \in Cells /\ RectSrc \in Cells /\ RectUV \in Cells /\ RectDims \in Cells
      /\ RectCol # RectSrc /\ RectCol # RectUV /\ RectCol # RectDims
      /\ RectSrc # RectUV /\ RectSrc # RectDims /\ RectUV # RectDims
  BY DEF Cells, RectCol, RectSrc, RectUV, RectDims
<1>4. UNCHANGED <<state_ind, m_attr, m_y0>> /\ m_cmd[RectCol] = 1
  BY <1>1 DEF Rect, RectInv
<1>5. CASE m_state = "RECT_SRC"
  <2>1. /\ h_got = 1 /\ Store(RectSrc)
        /\ IF m_attr.tex THEN Goto("RECT_UV")
           ELSE IF m_attr.var THEN Goto("RECT_DIMS") ELSE DrawRect
    BY <1>1, <1>5 DEF Rect, Reads, RectInv
  <2>2. m_cmd' \in [Cells -> 0 .. 12] /\ m_cmd'[RectSrc] = 2 /\ m_cmd'[RectCol] = 1
    BY <1>3, <1>4, <2>1, StoreType
  <2>3. CASE m_attr.tex
    <3>1. Goto("RECT_UV") /\ h_got + 1 < Parser!Length(h_cmd)
      BY <1>1, <1>2, <2>1, <2>3
    <3>2. Parser!CmdNext
      BY <1>1, <3>1, Taking DEF Goto
    <3> QED  BY <1>1, <1>4, <2>1, <2>2, <2>3, <3>1, <3>2
             DEF ParseStep, ParseType, ParseInv, RectInv, Goto, States
  <2>4. CASE ~m_attr.tex /\ m_attr.var
    <3>1. Goto("RECT_DIMS") /\ h_got + 1 < Parser!Length(h_cmd)
      BY <1>1, <1>2, <2>1, <2>4
    <3>2. Parser!CmdNext
      BY <1>1, <3>1, Taking DEF Goto
    <3> QED  BY <1>1, <1>4, <2>1, <2>2, <2>4, <3>1, <3>2
             DEF ParseStep, ParseType, ParseInv, RectInv, Goto, States
  <2>5. CASE ~m_attr.tex /\ ~m_attr.var
    <3>1. DrawRect /\ h_got + 1 = Parser!Length(h_cmd)
      BY <1>1, <1>2, <2>1, <2>5
    <3> QED  BY <1>1, <1>4, <2>2, <2>5, <3>1, DrawRectStep
  <2> QED  BY <2>3, <2>4, <2>5
<1>6. CASE m_state = "RECT_UV"
  <2>1. /\ h_got = 2 /\ m_cmd[RectSrc] = 2 /\ m_attr.tex /\ Store(RectUV)
        /\ IF m_attr.var THEN Goto("RECT_DIMS") ELSE DrawRect
    BY <1>1, <1>6 DEF Rect, Reads, RectInv
  <2>2. /\ m_cmd' \in [Cells -> 0 .. 12] /\ m_cmd'[RectUV] = 3
        /\ m_cmd'[RectSrc] = 2 /\ m_cmd'[RectCol] = 1
    BY <1>3, <1>4, <2>1, StoreType
  <2>3. CASE m_attr.var
    <3>1. Goto("RECT_DIMS") /\ h_got + 1 < Parser!Length(h_cmd)
      BY <1>1, <1>2, <2>1, <2>3
    <3>2. Parser!CmdNext
      BY <1>1, <3>1, Taking DEF Goto
    <3> QED  BY <1>1, <1>4, <2>1, <2>2, <2>3, <3>1, <3>2
             DEF ParseStep, ParseType, ParseInv, RectInv, Goto, States
  <2>4. CASE ~m_attr.var
    <3>1. DrawRect /\ h_got + 1 = Parser!Length(h_cmd)
      BY <1>1, <1>2, <2>1, <2>4
    <3> QED  BY <1>1, <1>4, <2>2, <2>4, <3>1, DrawRectStep
  <2> QED  BY <2>3, <2>4
<1>7. CASE m_state = "RECT_DIMS"
  <2>1. /\ m_cmd[RectSrc] = 2 /\ m_attr.var /\ Store(RectDims) /\ DrawRect
        /\ IF m_attr.tex THEN h_got = 3 /\ m_cmd[RectUV] = 3 ELSE h_got = 2
    BY <1>1, <1>7 DEF Rect, Reads, RectInv
  <2>2. h_got + 1 = Parser!Length(h_cmd) /\ h_got + 1 \in 0 .. 12
        /\ h_got + 1 = IF m_attr.tex THEN 4 ELSE 3
    BY <1>1, <1>2, <2>1
  <2>3. /\ m_cmd' \in [Cells -> 0 .. 12] /\ m_cmd'[RectDims] = h_got + 1
        /\ m_cmd'[RectSrc] = 2 /\ m_cmd'[RectCol] = 1 /\ m_cmd'[RectUV] = m_cmd[RectUV]
    BY <1>3, <1>4, <2>1, <2>2, StoreType
  <2>4. m_attr.tex => m_cmd'[RectUV] = 3
    BY <2>1, <2>3
  <2> QED  BY <1>1, <1>4, <2>1, <2>2, <2>3, <2>4, DrawRectStep
<1> QED  BY <1>1, <1>5, <1>6, <1>7 DEF RectInv

-----------------------------------------------------------------------------
(* The vertices of a polygon. *)

(* Storing a field of vertex v keeps the fields of the vertices before it. *)
LEMMA VertexKept ==
  ASSUME ParseType, NEW w, NEW v \in 0 .. 3, NEW c \in {Col(v), Vert(v), UV(v)},
         NEW i \in 0 .. 3, i < v, HasVertex(m_cmd, w, i),
         \A d \in Cells \ {c} : m_cmd'[d] = m_cmd[d]
  PROVE  HasVertex(m_cmd', w, i)
<1>1. {Col(i), Vert(i), UV(i)} \subseteq Cells \ {c}
  BY DEF Col, Vert, UV, Cells
<1> QED  BY <1>1 DEF HasVertex, HasColour, ColourOf, PositionOf, TextureOf

(* The last field of vertex state_ind has been stored: either the next vertex
   begins or the polygon is drawn. *)
LEMMA NextVertexStep ==
  ASSUME ParseType, PolygonInv, NEW s, NextVertex(s), UNCHANGED <<m_attr, m_y0>>,
         s = IF OwnColour(h_cmd) THEN "POLYGON_COLOR" ELSE "POLYGON_VERT",
         m_cmd' \in [Cells -> 0 .. 12],
         \A i \in 0 .. 3 : i <= state_ind => HasVertex(m_cmd', h_cmd, i),
         h_got + 1 = PerVertex(h_cmd) * (state_ind + 1) + (IF OwnColour(h_cmd) THEN 0 ELSE 1)
  PROVE  ParseStep
<1> DEFINE n == Vertices(h_cmd)
<1>1. /\ h_cmd.cmd = "polygon" /\ m_attr = h_cmd /\ h_cmd \in Word
      /\ h_cmd.cmd \in Drawings /\ h_cmd.cmd \in Commands
      /\ n \in {3, 4} /\ state_ind \in 0 .. n - 1
  BY InCommand DEF PolygonInv, Drawings, Commands, Vertices
<1>2. /\ PerVertex(h_cmd) \in {2, 3} /\ OwnColour(h_cmd) \in BOOLEAN
      /\ (~OwnColour(h_cmd) => PerVertex(h_cmd) = 2)
  BY <1>1 DEF PerVertex, OwnColour, Word
<1>3. Parser!Length(h_cmd) = PerVertex(h_cmd) * n + (IF OwnColour(h_cmd) THEN 0 ELSE 1)
  BY <1>1, Lengths
<1>4. state_ind' = state_ind + 1 /\ state_ind' \in 0 .. n
  BY <1>1 DEF NextVertex
<1>5. CASE state_ind + 1 = n
  <2>1. ToStart /\ Hand(PolygonWords(m_cmd'))
    BY <1>1, <1>5 DEF NextVertex
  <2>2. h_got + 1 = Parser!Length(h_cmd) /\ Parser!Length(h_cmd) \in 0 .. 12
    BY <1>1, <1>2, <1>3, <1>5
  <2>3. \A i \in 0 .. Vertices(m_attr) - 1 : HasVertex(m_cmd', m_attr, i)
    BY <1>1, <1>5
  <2>4. Hand(FirstWords(Parser!Length(h_cmd)))
    BY <1>1, <2>1, <2>3, PolygonIsWhole
  <2>5. Parser!CmdNext
    BY <1>1, <2>1, <2>2, <2>4, Drawing
  <2>6. h_given' \in [cmd : Word \cup {NoCmd}, words : Seq(0 .. 12)]
    BY <2>2, <2>4, HandType
  <2>7. ParseType' /\ ParseInv'
    BY <1>1, <1>4, <2>1, <2>6, BackAtStart DEF ParseType
  <2> QED  BY <2>5, <2>7 DEF ParseStep
<1>6. CASE state_ind + 1 # n
  <2>1. Goto(s) /\ state_ind + 1 < n
    BY <1>1, <1>6 DEF NextVertex
  <2>2. h_got + 1 < Parser!Length(h_cmd) /\ h_got + 1 \in 0 .. 12
    BY <1>1, <1>2, <1>3, <2>1
  <2>3. Parser!CmdNext
    BY <1>1, <2>1, <2>2, Taking DEF Goto
  <2>4. /\ m_state' = s /\ h_got' = h_got + 1 /\ h_cmd' = h_cmd /\ h_given' = h_given
    BY <2>1 DEF Goto
  <2>5. ParseType'
    BY <1>1, <1>4, <2>2, <2>4 DEF ParseType, States
  <2>6. /\ \A i \in 0 .. 3 : i < state_ind' => HasVertex(m_cmd', h_cmd', i)
        /\ h_cmd'.cmd = "polygon" /\ m_attr' = h_cmd' /\ state_ind' \in 0 .. n - 1
    BY <1>1, <1>4, <2>1, <2>4
  <2>7. CASE OwnColour(h_cmd)
    <3>1. m_state' = "POLYGON_COLOR" /\ state_ind' > 0 /\ OwnColour(h_cmd')
          /\ h_got' = PerVertex(h_cmd') * state_ind'
      BY <1>1, <1>2, <1>4, <2>4, <2>7
    <3> QED  BY <2>3, <2>4, <2>5, <2>6, <3>1 DEF ParseStep, ParseInv, PolygonInv
  <2>8. CASE ~OwnColour(h_cmd)
    <3>1. m_state' = "POLYGON_VERT" /\ state_ind' # 0 /\ ~OwnColour(h_cmd')
          /\ h_got' = PerVertex(h_cmd') * state_ind' + 1
      BY <1>1, <1>2, <1>4, <2>4, <2>8
    <3>2. HasColour(m_cmd', h_cmd', state_ind')
      BY <3>1 DEF HasColour
    <3> QED  BY <2>3, <2>4, <2>5, <2>6, <3>1, <3>2 DEF ParseStep, ParseInv, PolygonInv
  <2> QED  BY <2>7, <2>8
<1> QED  BY <1>5, <1>6

LEMMA PolygonStep ==
  ASSUME ParseType, ParseInv, NEW w, Polygon(w)
  PROVE  ParseStep
<1> DEFINE p == PerVertex(h_cmd)
           v == state_ind
<1>1. PolygonInv
  BY DEF Polygon, Reads, ParseInv, QuickRectInv, PolygonInv, RectInv, BlitInv
<1>2. /\ h_cmd.cmd = "polygon" /\ m_attr = h_cmd /\ h_cmd \in Word /\ h_cmd.cmd \in Commands
      /\ h_cmd.tex \in BOOLEAN /\ h_cmd.gouraud \in BOOLEAN
      /\ Vertices(h_cmd) \in {3, 4} /\ v \in 0 .. Vertices(h_cmd) - 1 /\ v \in 0 .. 3
  BY <1>1, InCommand DEF PolygonInv, Drawings, Commands, Vertices, Word
<1>3. /\ p = IF h_cmd.tex /\ h_cmd.gouraud THEN 3 ELSE 2
      /\ OwnColour(h_cmd) <=> h_cmd.gouraud \/ ~h_cmd.tex
      /\ Parser!Length(h_cmd) = p * Vertices(h_cmd) + (IF OwnColour(h_cmd) THEN 0 ELSE 1)
  BY <1>2, Lengths DEF PerVertex, OwnColour
<1>4. /\ Col(v) \in Cells /\ Vert(v) \in Cells /\ UV(v) \in Cells
      /\ Col(v) # Vert(v) /\ Col(v) # UV(v) /\ Vert(v) # UV(v)
  BY <1>2 DEF Col, Vert, UV, Cells
<1>5. UNCHANGED <<m_attr, m_y0>> /\ \A i \in 0 .. 3 : i < v => HasVertex(m_cmd, h_cmd, i)
  BY <1>1 DEF Polygon, PolygonInv
<1>6. CASE m_state = "POLYGON_COLOR"
  <2>1. /\ Store(Col(v)) /\ Goto("POLYGON_VERT") /\ state_ind' = v
        /\ OwnColour(h_cmd) /\ v > 0 /\ h_got = p * v
    BY <1>1, <1>6 DEF Polygon, Reads, PolygonInv
  <2>2. h_got + 1 = p * v + 1 /\ h_got + 1 < Parser!Length(h_cmd) /\ h_got + 1 \in 0 .. 12
    BY <1>2, <1>3, <2>1
  <2>3. m_cmd' \in [Cells -> 0 .. 12] /\ m_cmd'[Col(v)] = h_got + 1
        /\ \A d \in Cells \ {Col(v)} : m_cmd'[d] = m_cmd[d]
    BY <1>4, <2>1, <2>2, StoreType
  <2>4. Parser!CmdNext
    BY <1>2, <2>1, <2>2, Taking DEF Goto
  <2>5. /\ \A i \in 0 .. 3 : i < v => HasVertex(m_cmd', h_cmd, i)
        /\ HasColour(m_cmd', h_cmd, v)
    BY <1>2, <1>5, <2>2, <2>3, VertexKept DEF HasColour, ColourOf
  <2> QED  BY <1>2, <1>5, <2>1, <2>2, <2>3, <2>4, <2>5
           DEF ParseStep, ParseType, ParseInv, PolygonInv, Goto, States
<1>7. CASE m_state = "POLYGON_VERT"
  <2>1. /\ Store(Vert(v)) /\ HasColour(m_cmd, h_cmd, v) /\ h_got = p * v + 1
        /\ IF h_cmd.tex THEN Goto("POLYGON_UV") /\ UNCHANGED state_ind
                        ELSE NextVertex("POLYGON_COLOR")
    BY <1>1, <1>2, <1>7 DEF Polygon, Reads, PolygonInv
  <2>2. h_got + 1 = p * v + 2 /\ h_got + 1 \in 0 .. 12
    BY <1>2, <1>3, <2>1
  <2>3. m_cmd' \in [Cells -> 0 .. 12] /\ m_cmd'[Vert(v)] = h_got + 1
        /\ \A d \in Cells \ {Vert(v)} : m_cmd'[d] = m_cmd[d]
    BY <1>4, <2>1, <2>2, StoreType
  <2>4. /\ \A i \in 0 .. 3 : i < v => HasVertex(m_cmd', h_cmd, i)
        /\ HasColour(m_cmd', h_cmd, v) /\ PositionOf(m_cmd', h_cmd, v)
    BY <1>2, <1>4, <1>5, <2>1, <2>2, <2>3, VertexKept DEF HasColour, ColourOf, PositionOf
  <2>5. CASE h_cmd.tex
    <3>1. Goto("POLYGON_UV") /\ state_ind' = v /\ h_got + 1 < Parser!Length(h_cmd)
      BY <1>2, <1>3, <2>1, <2>2, <2>5
    <3>2. Parser!CmdNext
      BY <1>2, <3>1, Taking DEF Goto
    <3> QED  BY <1>2, <1>5, <2>2, <2>3, <2>4, <2>5, <3>1, <3>2
             DEF ParseStep, ParseType, ParseInv, PolygonInv, Goto, States
  <2>6. CASE ~h_cmd.tex
    <3>1. /\ NextVertex("POLYGON_COLOR") /\ OwnColour(h_cmd)
          /\ h_got + 1 = p * (v + 1) + 0
      BY <1>2, <1>3, <2>1, <2>2, <2>6
    <3>2. \A i \in 0 .. 3 : i <= v => HasVertex(m_cmd', h_cmd, i)
      BY <1>2, <2>4, <2>6 DEF HasVertex
    <3> QED  BY <1>1, <1>5, <2>3, <3>1, <3>2, NextVertexStep
  <2> QED  BY <2>5, <2>6
<1>8. CASE m_state = "POLYGON_UV"
  <2>1. /\ Store(UV(v)) /\ h_cmd.tex /\ h_got = p * v + 2
        /\ HasColour(m_cmd, h_cmd, v) /\ PositionOf(m_cmd, h_cmd, v)
        /\ NextVertex(IF h_cmd.gouraud THEN "POLYGON_COLOR" ELSE "POLYGON_VERT")
    BY <1>1, <1>2, <1>8 DEF Polygon, Reads, PolygonInv
  <2>2. h_got + 1 = p * v + 3 /\ h_got + 1 \in 0 .. 12
    BY <1>2, <1>3, <2>1
  <2>3. m_cmd' \in [Cells -> 0 .. 12] /\ m_cmd'[UV(v)] = h_got + 1
        /\ \A d \in Cells \ {UV(v)} : m_cmd'[d] = m_cmd[d]
    BY <1>4, <2>1, <2>2, StoreType
  <2>4. /\ \A i \in 0 .. 3 : i < v => HasVertex(m_cmd', h_cmd, i)
        /\ HasVertex(m_cmd', h_cmd, v)
    BY <1>2, <1>4, <1>5, <2>1, <2>2, <2>3, VertexKept
       DEF HasVertex, HasColour, ColourOf, PositionOf, TextureOf
  <2>5. /\ \A i \in 0 .. 3 : i <= v => HasVertex(m_cmd', h_cmd, i)
        /\ h_got + 1 = p * (v + 1) + (IF OwnColour(h_cmd) THEN 0 ELSE 1)
        /\ NextVertex(IF OwnColour(h_cmd) THEN "POLYGON_COLOR" ELSE "POLYGON_VERT")
    BY <1>2, <1>3, <2>1, <2>2, <2>4
  <2> QED  BY <1>1, <1>5, <2>3, <2>5, NextVertexStep
<1> QED  BY <1>1, <1>6, <1>7, <1>8 DEF PolygonInv

-----------------------------------------------------------------------------
(* Transfers. *)

LEMMA HeaderStep ==
  ASSUME ParseType, ParseInv, NEW w \in Word,
         \/ Header(w, "CVBLIT_SRC", "CVBLIT_DIMS", "CVBLIT_INPROGRESS")
         \/ Header(w, "VCBLIT_SRC", "VCBLIT_DIMS", "VCBLIT_INPROGRESS")
  PROVE  ParseStep
<1>1. /\ h_cmd.cmd \in Blits /\ h_cmd.cmd \in Commands /\ h_cmd \in Word
      /\ Parser!Length(h_cmd) = 3 /\ Parser!Handed(h_cmd) = <<2, 3>>
  <2>1. h_cmd.cmd \in Blits
    BY DEF Header, Reads, ParseInv, QuickRectInv, PolygonInv, RectInv, BlitInv, Blits
  <2> QED  BY <2>1, InCommand, Lengths DEF Commands
<1>2. BlitSrc \in Cells /\ BlitDims \in Cells /\ BlitSrc # BlitDims
  BY DEF BlitSrc, BlitDims, Cells
<1>3. w.y0 \in BOOLEAN
  BY DEF Word
<1>4. ASSUME NEW kind \in Blits, NEW src \in States, NEW dims \in States,
             NEW inProgress \in States,
             BlitInv(kind, src, dims, inProgress), Header(w, src, dims, inProgress),
             src # dims, dims # inProgress, src # inProgress
      PROVE  ParseType' /\ BlitInv(kind, src, dims, inProgress)' /\ Parser!CmdNext
  <2>1. CASE m_state = src
    <3>1. /\ h_cmd.cmd = kind /\ h_got = 1 /\ Store(BlitSrc) /\ Goto(dims)
          /\ UNCHANGED <<m_y0, state_ind, m_attr>>
      BY <1>4, <2>1 DEF Header, Reads, BlitInv
    <3>2. m_cmd' \in [Cells -> 0 .. 12] /\ m_cmd'[BlitSrc] = 2
      BY <1>2, <3>1, StoreType
    <3>3. Parser!CmdNext
      BY <1>1, <3>1, Taking DEF Goto
    <3> QED  BY <1>4, <3>1, <3>2, <3>3 DEF ParseType, BlitInv, Goto
  <2>2. CASE m_state = dims
    <3>1. /\ h_cmd.cmd = kind /\ h_got = 2 /\ m_cmd[BlitSrc] = 2 /\ Store(BlitDims)
          /\ m_state' = inProgress /\ h_got' = 3 /\ h_cmd' = h_cmd /\ m_y0' = w.y0
          /\ Hand(<<2, 3>>) /\ UNCHANGED <<state_ind, m_attr>>
      BY <1>4, <2>2 DEF Header, Reads, BlitInv
    <3>2. m_cmd' \in [Cells -> 0 .. 12]
      BY <1>2, <3>1, StoreType
    <3>3. h_given' \in [cmd : Word \cup {NoCmd}, words : Seq(0 .. 12)]
      BY <3>1 DEF Hand, ParseType
    <3>4. Parser!BeginTransfer
      BY <1>1, <3>1 DEF Parser!BeginTransfer, Hand, Blits, Parser!Blits
    <3> QED  BY <1>3, <1>4, <3>1, <3>2, <3>3, <3>4 DEF ParseType, BlitInv, Parser!CmdNext
  <2> QED  BY <1>4, <2>1, <2>2 DEF Header, Reads
<1>5. CASE Header(w, "CVBLIT_SRC", "CVBLIT_DIMS", "CVBLIT_INPROGRESS")
  <2>1. BlitInv("cvblit", "CVBLIT_SRC", "CVBLIT_DIMS", "CVBLIT_INPROGRESS")
    BY <1>5 DEF Header, Reads, ParseInv, QuickRectInv, PolygonInv, RectInv, BlitInv
  <2>2. ParseType' /\ BlitInv("cvblit", "CVBLIT_SRC", "CVBLIT_DIMS", "CVBLIT_INPROGRESS")'
        /\ Parser!CmdNext
    BY <1>4, <1>5, <2>1 DEF Blits, States
  <2> QED  BY <2>2 DEF ParseStep, ParseInv
<1>6. CASE Header(w, "VCBLIT_SRC", "VCBLIT_DIMS", "VCBLIT_INPROGRESS")
  <2>1. BlitInv("vcblit", "VCBLIT_SRC", "VCBLIT_DIMS", "VCBLIT_INPROGRESS")
    BY <1>6 DEF Header, Reads, ParseInv, QuickRectInv, PolygonInv, RectInv, BlitInv
  <2>2. ParseType' /\ BlitInv("vcblit", "VCBLIT_SRC", "VCBLIT_DIMS", "VCBLIT_INPROGRESS")'
        /\ Parser!CmdNext
    BY <1>4, <1>6, <2>1 DEF Blits, States
  <2> QED  BY <2>2 DEF ParseStep, ParseInv
<1> QED  BY <1>5, <1>6

(* A transfer ends, by a word of pixels or by a read. *)
LEMMA EndStep ==
  ASSUME ParseType, ParseInv, m_state \in {"CVBLIT_INPROGRESS", "VCBLIT_INPROGRESS"},
         ToStart, UNCHANGED <<state_ind, m_cmd, m_attr, m_y0, h_given>>
  PROVE  ParseStep
<1>1. h_cmd.cmd \in Blits /\ h_got = 3
  BY DEF ParseInv, QuickRectInv, PolygonInv, RectInv, BlitInv, Blits
<1>2. Parser!Length(h_cmd) = 3
  BY <1>1, InCommand, Lengths DEF Commands
<1>3. Parser!EndTransfer
  BY <1>1, <1>2 DEF Parser!EndTransfer, ToStart, Blits, Parser!Blits,
     NoCmd, Parser!NoCmd, Plain, Parser!Plain
<1>4. ParseType' /\ ParseInv'
  BY BackAtStart DEF ParseType
<1> QED  BY <1>3, <1>4 DEF ParseStep, Parser!CmdNext

LEMMA ProcessStep ==
  ASSUME ParseType, ParseInv, NEW w \in Word, ProcessCmd(w)
  PROVE  ParseStep
<1>1. CASE StartDrawing(w) \/ StartBlit(w)
  BY <1>1, StartStep
<1>2. CASE StartNothing(w) \/ Ignored
  BY <1>2, KeepsParse DEF StartNothing, Ignored
<1>3. CASE QuickRect(w)
  BY <1>3, QuickRectStep
<1>4. CASE Polygon(w)
  BY <1>4, PolygonStep
<1>5. CASE Rect(w)
  BY <1>5, RectStep
<1>6. CASE \/ Header(w, "CVBLIT_SRC", "CVBLIT_DIMS", "CVBLIT_INPROGRESS")
           \/ Header(w, "VCBLIT_SRC", "VCBLIT_DIMS", "VCBLIT_INPROGRESS")
  BY <1>6, HeaderStep
<1>7. CASE Pixels
  <2>1. CASE BlitGoesOn
    BY <1>7, <2>1, KeepsParse DEF Pixels, parseVars
  <2>2. CASE ~BlitGoesOn
    BY <1>7, <2>2, EndStep DEF Pixels, Reads
  <2> QED  BY <2>1, <2>2
<1> QED  BY <1>1, <1>2, <1>3, <1>4, <1>5, <1>6, <1>7 DEF ProcessCmd

-----------------------------------------------------------------------------
(* The queue: the program stores at most one word before the parser runs. *)

QueueType == m_cmdbuf \in Fifos(Word) /\ turn \in {"cpu", "gpu"}

LEMMA CpuQueue ==
  ASSUME QueueType, QueueInv, CpuTurn
  PROVE  QueueType' /\ QueueInv'
<1>1. turn = "cpu" /\ turn' = "gpu" /\ FifoLen(m_cmdbuf) = 0
  BY DEF CpuTurn, Idle, WriteGp0, ClearGp1, ResetGp1, ReadGpuread, AckVblank, Cpu, QueueInv
<1>2. CASE m_cmdbuf' = m_cmdbuf
  BY <1>1, <1>2 DEF QueueType, QueueInv
<1>3. CASE WriteGp0 /\ m_cmdbuf' # m_cmdbuf
  <2>1. PICK w \in Words : m_cmdbuf' = FifoPush(m_cmdbuf, w)
    BY <1>3 DEF WriteGp0
  <2>2. w \in Word
    BY GPUAssumption
  <2>3. /\ m_cmdbuf' \in Fifos(Word)
        /\ FifoContent(m_cmdbuf') = Append(FifoContent(m_cmdbuf), w)
    BY <1>1, <2>1, <2>2, PushAppends, FifoAssumption DEF QueueType
  <2>4. Len(FifoContent(m_cmdbuf')) = 1
    BY <1>1, <2>2, <2>3, ContentIsSeq, AppendProperties DEF QueueType
  <2> QED  BY <1>1, <2>3, <2>4, ContentIsSeq DEF QueueType, QueueInv
<1>4. CASE ClearGp1 \/ ResetGp1
  <2>1. m_cmdbuf' = [m_cmdbuf EXCEPT !.f = m_cmdbuf.b]
    BY <1>4 DEF ClearGp1, ResetGp1, Cleared
  <2>2. m_cmdbuf.b \in Slots
    BY LenIs DEF QueueType
  <2>3. m_cmdbuf' \in Fifos(Word) /\ m_cmdbuf'.f = m_cmdbuf'.b
    BY <2>1, <2>2 DEF QueueType, Fifos
  <2>4. FifoLen(m_cmdbuf') = 0
    BY <2>2, <2>3, LenIs DEF Slots
  <2> QED  BY <1>1, <2>3, <2>4 DEF QueueType, QueueInv
<1> QED
  BY <1>2, <1>3, <1>4 DEF CpuTurn, Idle, ReadGpuread, AckVblank

LEMMA GpuQueue ==
  ASSUME QueueType, QueueInv, GpuTurn
  PROVE  QueueType' /\ QueueInv' /\ (TickCommand => FifoFront(m_cmdbuf) \in Word)
<1>1. turn = "gpu" /\ turn' = "cpu" /\ FifoLen(m_cmdbuf) <= 1
  BY DEF GpuTurn, TickIdle, TickCommand, Gpu, QueueInv
<1>2. FifoLen(m_cmdbuf) \in 0 .. FifoCap /\ m_cmdbuf.f \in Slots /\ m_cmdbuf.b \in Slots
  BY LenIs DEF QueueType
<1>3. FifoFront(m_cmdbuf) \in Word
  BY <1>2 DEF QueueType, FifoFront, Fifos
<1>4. CASE TickIdle
  <2>1. FifoLen(m_cmdbuf) = 0 /\ m_cmdbuf' = m_cmdbuf
    BY <1>4, SizeAtBounds DEF TickIdle, QueueType
  <2> QED  BY <1>1, <1>3, <2>1 DEF QueueType, QueueInv
<1>5. CASE TickCommand
  <2> DEFINE q == [m_cmdbuf EXCEPT !.data[m_cmdbuf.f] = Plain("zero")]
  <2>1. Plain("zero") \in Word
    BY DEF Plain, Word
  <2>2. q \in Fifos(Word) /\ q.f = m_cmdbuf.f /\ q.b = m_cmdbuf.b
    BY <1>2, <2>1 DEF QueueType, Fifos
  <2>3. FifoLen(m_cmdbuf) = 1
    BY <1>1, <1>2, <1>5, SizeAtBounds, FifoAssumption DEF TickCommand, QueueType
  <2>4. FifoLen(q) = 1
    BY <2>2, <2>3 DEF FifoLen
  <2>5. m_cmdbuf' = FifoPop(q)
    BY <1>5 DEF TickCommand, Taken
  <2> HIDE DEF q
  <2>6. m_cmdbuf' \in Fifos(Word) /\ FifoContent(m_cmdbuf') = Tail(FifoContent(q))
    BY <2>2, <2>4, <2>5, PopIsTail
  <2>7. Len(FifoContent(q)) = 1 /\ FifoContent(q) \in Seq(Word)
    BY <2>2, <2>4, ContentIsSeq
  <2>8. Len(Tail(FifoContent(q))) = 0
    BY <2>7, HeadTailProperties, EmptySeq
  <2>9. FifoLen(m_cmdbuf') = 0
    BY <2>6, <2>8, ContentIsSeq
  <2> QED  BY <1>1, <1>3, <2>6, <2>9 DEF QueueType, QueueInv
<1> QED  BY <1>4, <1>5 DEF GpuTurn

-----------------------------------------------------------------------------
(* The clock: the ticks since the last blank are at most m_clk past the last
   multiple of the period, also when m_clk starts anywhere or wraps. *)

LEMMA Remainder ==
  ASSUME NEW n \in Nat \ {0}, NEW q \in Int, NEW r \in 0 .. n - 1, NEW x \in Int,
         x = n * q + r
  PROVE  x % n = r
<1> DEFINE q2 == x \div n
           r2 == x % n
<1>1. r2 \in 0 .. n - 1 /\ q2 \in Int /\ n * q + r = n * q2 + r2
  OBVIOUS
<1> HIDE DEF q2, r2
<1>2. n * (q - q2) = r2 - r
  BY <1>1
<1>3. CASE q - q2 >= 1
  <2>1. n * (q - q2) >= n
    BY <1>1, <1>3
  <2> QED  BY <1>1, <1>2, <2>1
<1>4. CASE q - q2 <= -1
  <2>1. n * (q - q2) <= -n
    BY <1>1, <1>4
  <2> QED  BY <1>1, <1>2, <2>1
<1>5. CASE q - q2 = 0
  BY <1>1, <1>2, <1>5 DEF r2
<1> QED  BY <1>1, <1>3, <1>4, <1>5

LEMMA NextRemainder ==
  ASSUME NEW n \in Nat \ {0}, NEW x \in Nat, (x + 1) % n # 0
  PROVE  (x + 1) % n = (x % n) + 1
<1> DEFINE r == x % n
           q == x \div n
<1>1. r \in 0 .. n - 1 /\ q \in Int /\ x = n * q + r
  OBVIOUS
<1> HIDE DEF r, q
<1>2. CASE r + 1 < n
  <2>1. x + 1 = n * q + (r + 1) /\ r + 1 \in 0 .. n - 1
    BY <1>1, <1>2
  <2>2. (x + 1) % n = r + 1
    BY <1>1, <2>1, Remainder
  <2> QED  BY <2>2 DEF r
<1>3. CASE r + 1 = n
  <2>1. x + 1 = n * (q + 1) + 0 /\ q + 1 \in Int /\ 0 \in 0 .. n - 1
    BY <1>1, <1>3
  <2>2. (x + 1) % n = 0
    BY <2>1, Remainder
  <2> QED  BY <2>2
<1> QED  BY <1>1, <1>2, <1>3

FrameType == m_clk \in 0 .. ClkSize - 1 /\ h_frame \in Nat

LEMMA ClockStep ==
  ASSUME FrameType, FrameInv, Clock, IntCtlTypeOK
  PROVE  FrameType' /\ FrameInv' /\ IntCtlTypeOK'
<1> DEFINE clk == (m_clk + 1) % ClkSize
<1>1. m_clk \in Nat /\ ClkSize \in Nat \ {0} /\ FramePeriod \in Nat \ {0}
      /\ m_clk + 1 \in Nat /\ m_clk + 1 <= ClkSize
  BY GPUAssumption DEF FrameType
<1>2. clk \in 0 .. ClkSize - 1 /\ m_clk' = clk
  BY <1>1 DEF Clock
<1>3. IntCtlTypeOK'
  BY GPUAssumption DEF Clock, SetInterrupt, IntCtlTypeOK, intcVars
<1>4. CASE clk % FramePeriod = 0
  <2>1. h_frame' = 0
    BY <1>4 DEF Clock, IsBlank
  <2> QED  BY <1>2, <1>3, <1>4, <2>1 DEF FrameType, FrameInv
<1>5. CASE clk % FramePeriod # 0
  <2>1. h_frame' = h_frame + 1
    BY <1>5 DEF Clock, IsBlank
  <2>2. clk # 0
    BY <1>1, <1>5
  <2>3. clk = m_clk + 1
    <3>1. CASE m_clk + 1 = ClkSize
      <4>1. clk = 0
        BY <1>1, <3>1
      <4> QED  BY <2>2, <4>1
    <3>2. CASE m_clk + 1 < ClkSize
      BY <1>1, <3>2
    <3> QED  BY <1>1, <3>1, <3>2
  <2>4. clk % FramePeriod = (m_clk % FramePeriod) + 1
    BY <1>1, <1>5, <2>3, NextRemainder
  <2>5. m_clk % FramePeriod \in Nat /\ h_frame \in Nat /\ h_frame <= m_clk % FramePeriod
    BY <1>1 DEF FrameType, FrameInv
  <2> QED  BY <1>2, <1>3, <2>1, <2>4, <2>5 DEF FrameType, FrameInv
<1> QED  BY <1>4, <1>5

-----------------------------------------------------------------------------
(* The theorems. *)

IInv == GPUTypeOK /\ ParseInv /\ QueueInv /\ FrameInv /\ ReadyMeansReadable

LEMMA TypeParts ==
  GPUTypeOK <=> /\ IntCtlTypeOK /\ ParseType /\ QueueType /\ FrameType
                /\ rdy_vram \in BOOLEAN /\ h_reset \in BOOLEAN
  BY DEF GPUTypeOK, ParseType, QueueType, FrameType

LEMMA NextHolds ==
  ASSUME ParseStep, QueueType', QueueInv', FrameType', FrameInv', IntCtlTypeOK',
         rdy_vram' \in BOOLEAN, h_reset' \in BOOLEAN, ReadyMeansReadable'
  PROVE  IInv'
<1>1. GPUTypeOK'
  BY DEF GPUTypeOK, ParseStep, ParseType, QueueType, FrameType
<1> QED  BY <1>1 DEF IInv, ParseStep

LEMMA InitHolds ==
  ASSUME GPUInit
  PROVE  IInv /\ Parser!CmdInit
<1>1. Plain("zero") \in Word /\ Plain("other") \in Word
  BY DEF Plain, Word
<1>2. m_cmdbuf \in Fifos(Word) /\ m_cmdbuf.f = 0 /\ m_cmdbuf.b = 0
  BY <1>1, FifoAssumption DEF GPUInit, NewFifo, Fifos, Slots
<1>3. FifoLen(m_cmdbuf) = 0
  BY <1>2, LenIs
<1>4. m_clk % FramePeriod \in Nat /\ m_clk \in 0 .. ClkSize - 1
  BY GPUAssumption DEF GPUInit
<1>5. GPUTypeOK
  <2>1. NoneGiven \in [cmd : Word \cup {NoCmd}, words : Seq(0 .. 12)]
    BY EmptySeq DEF NoneGiven
  <2>2. IntCtlTypeOK
    BY DEF GPUInit, IntCtlInit, IntCtlTypeOK
  <2>3. m_cmd \in [Cells -> 0 .. 12]
    BY DEF GPUInit
  <2>4. h_given \in [cmd : Word \cup {NoCmd}, words : Seq(0 .. 12)]
    BY <2>1 DEF GPUInit
  <2>5. m_attr \in Word /\ m_y0 \in BOOLEAN /\ h_cmd \in Word \cup {NoCmd}
    BY <1>1 DEF GPUInit
  <2>6. m_state \in States /\ state_ind \in 0 .. 4 /\ h_got \in 0 .. 12
    BY DEF GPUInit, States
  <2>7. ParseType
    BY <2>3, <2>4, <2>5, <2>6 DEF ParseType
  <2>8. QueueType /\ FrameType
    BY <1>2, <1>4 DEF GPUInit, QueueType, FrameType
  <2> QED  BY <2>2, <2>7, <2>8, TypeParts DEF GPUInit
<1>6. ParseInv /\ ReadyMeansReadable
  BY DEF GPUInit, ParseInv, ReadyMeansReadable
<1>7. QueueInv /\ FrameInv
  BY <1>3, <1>4 DEF GPUInit, QueueInv, FrameInv
<1>8. Parser!CmdInit
  BY DEF GPUInit, Parser!CmdInit, NoneGiven, Parser!NoneGiven, NoCmd, Parser!NoCmd,
     Plain, Parser!Plain
<1> QED  BY <1>5, <1>6, <1>7, <1>8 DEF IInv

LEMMA CpuStep ==
  ASSUME IInv, CpuTurn
  PROVE  IInv' /\ [Parser!CmdNext]_<<h_cmd, h_got, h_given>>
<1>1. ParseType /\ QueueType /\ FrameType /\ IntCtlTypeOK /\ rdy_vram \in BOOLEAN
      /\ h_reset \in BOOLEAN /\ ParseInv /\ QueueInv /\ FrameInv /\ ReadyMeansReadable
  BY TypeParts DEF IInv
<1>2. QueueType' /\ QueueInv'
  BY <1>1, CpuQueue
<1>3. FrameType' /\ FrameInv'
  BY <1>1 DEF CpuTurn, Idle, WriteGp0, ClearGp1, ResetGp1, ReadGpuread, AckVblank, Cpu,
     FrameType, FrameInv
<1>4. IntCtlTypeOK'
  BY <1>1 DEF CpuTurn, Idle, WriteGp0, ClearGp1, ResetGp1, ReadGpuread, AckVblank,
     IntCtlTypeOK, intcVars, WriteStat
<1>5. CASE ReadGpuread
  <2>1. CASE m_state = "VCBLIT_INPROGRESS" /\ ~BlitGoesOn
    <3>1. ParseStep /\ rdy_vram' = FALSE /\ h_reset' = h_reset
      BY <1>1, <1>5, <2>1, EndStep DEF ReadGpuread
    <3> QED  BY <1>1, <1>2, <1>3, <1>4, <3>1, NextHolds DEF ParseStep, ReadyMeansReadable
  <2>2. CASE ~(m_state = "VCBLIT_INPROGRESS" /\ ~BlitGoesOn)
    <3>1. UNCHANGED parseVars /\ UNCHANGED <<rdy_vram, h_reset>>
      BY <1>5, <2>2 DEF ReadGpuread, parseVars
    <3>2. ParseStep /\ m_state' = m_state
      BY <1>1, <3>1, KeepsParse DEF parseVars
    <3> QED  BY <1>1, <1>2, <1>3, <1>4, <3>1, <3>2, NextHolds DEF ParseStep, ReadyMeansReadable
  <2> QED  BY <2>1, <2>2
<1>6. CASE ~ReadGpuread
  <2>1. UNCHANGED parseVars
    BY <1>6 DEF CpuTurn, Idle, WriteGp0, ClearGp1, ResetGp1, AckVblank
  <2>2. ParseStep /\ m_state' = m_state
    BY <1>1, <2>1, KeepsParse DEF parseVars
  <2>3. (rdy_vram' = FALSE /\ h_reset' = TRUE) \/ UNCHANGED <<rdy_vram, h_reset>>
    BY <1>6 DEF CpuTurn, Idle, WriteGp0, ClearGp1, ResetGp1, AckVblank
  <2>4. rdy_vram' \in BOOLEAN /\ h_reset' \in BOOLEAN
    BY <1>1, <2>3
  <2>5. CASE rdy_vram' = FALSE
    BY <1>2, <1>3, <1>4, <2>2, <2>4, <2>5, NextHolds DEF ParseStep, ReadyMeansReadable
  <2>6. CASE UNCHANGED <<rdy_vram, h_reset>>
    <3>1. ReadyMeansReadable'
      BY <1>1, <2>2, <2>6 DEF ReadyMeansReadable
    <3> QED  BY <1>2, <1>3, <1>4, <2>2, <2>4, <3>1, NextHolds DEF ParseStep
  <2> QED  BY <2>3, <2>5, <2>6
<1> QED  BY <1>5, <1>6

LEMMA GpuStep ==
  ASSUME IInv, GpuTurn
  PROVE  IInv' /\ [Parser!CmdNext]_<<h_cmd, h_got, h_given>>
<1>1. ParseType /\ QueueType /\ FrameType /\ IntCtlTypeOK /\ rdy_vram \in BOOLEAN
      /\ h_reset \in BOOLEAN /\ ParseInv /\ QueueInv /\ FrameInv /\ ReadyMeansReadable
  BY TypeParts DEF IInv
<1>2. QueueType' /\ QueueInv' /\ (TickCommand => FifoFront(m_cmdbuf) \in Word)
  BY <1>1, GpuQueue
<1>3. FrameType' /\ FrameInv' /\ IntCtlTypeOK'
  BY <1>1, ClockStep DEF GpuTurn, TickIdle, TickCommand
<1>4. h_reset' = h_reset
  BY DEF GpuTurn, TickIdle, TickCommand, Gpu
<1>5. CASE TickIdle
  <2>1. UNCHANGED parseVars /\ rdy_vram' = rdy_vram
    BY <1>5 DEF TickIdle
  <2>2. ParseStep /\ m_state' = m_state
    BY <1>1, <2>1, KeepsParse DEF parseVars
  <2> QED  BY <1>1, <1>2, <1>3, <1>4, <2>1, <2>2, NextHolds DEF ParseStep, ReadyMeansReadable
<1>6. CASE TickCommand
  <2> DEFINE w == FifoFront(m_cmdbuf)
  <2>1. w \in Word /\ ProcessCmd(w) /\ rdy_vram' = (rdy_vram \/ m_state = "VCBLIT_DIMS")
    BY <1>2, <1>6 DEF TickCommand
  <2> HIDE DEF w
  <2>2. ParseStep
    BY <1>1, <2>1, ProcessStep
  <2>3. rdy_vram' \in BOOLEAN
    BY <1>1, <2>1
  <2>4. m_state \in {"VCBLIT_DIMS", "VCBLIT_INPROGRESS"} => m_state' = "VCBLIT_INPROGRESS"
    BY <2>1 DEF ProcessCmd, StartDrawing, StartBlit, StartNothing, QuickRect, Polygon, Rect,
       Header, Pixels, Ignored, Reads, parseVars
  <2>5. ReadyMeansReadable'
    BY <1>1, <1>4, <2>1, <2>4 DEF ReadyMeansReadable
  <2> QED  BY <1>1, <1>2, <1>3, <1>4, <2>2, <2>3, <2>5, NextHolds DEF ParseStep
<1> QED  BY <1>5, <1>6 DEF GpuTurn

LEMMA StutterStep ==
  ASSUME IInv, UNCHANGED vars
  PROVE  IInv'
<1>1. ParseType /\ QueueType /\ FrameType /\ IntCtlTypeOK /\ rdy_vram \in BOOLEAN
      /\ h_reset \in BOOLEAN /\ ParseInv /\ QueueInv /\ FrameInv /\ ReadyMeansReadable
  BY TypeParts DEF IInv
<1>2. ParseStep
  BY <1>1, KeepsParse DEF vars
<1>3. /\ QueueType' /\ FrameType' /\ IntCtlTypeOK' /\ rdy_vram' \in BOOLEAN
      /\ h_reset' \in BOOLEAN /\ QueueInv' /\ FrameInv' /\ ReadyMeansReadable'
  BY <1>1 DEF vars, parseVars, intcVars, QueueType, FrameType, IntCtlTypeOK, QueueInv,
     FrameInv, ReadyMeansReadable
<1> QED  BY <1>2, <1>3, NextHolds

LEMMA Inductive == GPUSpec => []IInv
<1>1. GPUInit => IInv
  BY InitHolds
<1>2. IInv /\ [GPUNext]_vars => IInv'
  BY CpuStep, GpuStep, StutterStep DEF GPUNext
<1> QED  BY <1>1, <1>2, PTL DEF GPUSpec

LEMMA Consequences ==
  ASSUME IInv
  PROVE  GPUTypeOK /\ StoresSeeParser /\ ReadyMeansReadable /\ IndexInside /\ BlankInTime
<1>1. StoresSeeParser
  BY SizeAtBounds DEF IInv, GPUTypeOK, QueueInv, StoresSeeParser
<1>2. IndexInside
  BY DEF IInv, ParseInv, QuickRectInv, PolygonInv, RectInv, BlitInv, IndexInside, Vertices
<1>3. BlankInTime
  <2>1. m_clk \in Nat /\ FramePeriod \in Nat \ {0} /\ h_frame \in Nat
    BY GPUAssumption DEF IInv, GPUTypeOK
  <2>2. m_clk % FramePeriod \in 0 .. FramePeriod - 1
    BY <2>1
  <2> QED  BY <2>1, <2>2 DEF IInv, FrameInv, BlankInTime
<1> QED  BY <1>1, <1>2, <1>3 DEF IInv

(* Every variable of the GPU keeps its type: the number of words of a
   command and the vertex index have bounds only because the parser knows how
   long its commands are (GPU::process_cmd). *)
THEOREM GPUTypeCorrect == GPUSpec => []GPUTypeOK
<1>1. IInv => GPUTypeOK
  BY Consequences
<1> QED  BY <1>1, Inductive, PTL

(* The queue is empty whenever the program may store, for a queue of any
   capacity: wr_gp0 never panics and never drops a word of a command. *)
THEOREM QueueIsDrained == GPUSpec => []StoresSeeParser
<1>1. IInv => StoresSeeParser
  BY Consequences
<1> QED  BY <1>1, Inductive, PTL

(* The vertex a word is stored for exists, and GPUREAD is announced only
   inside a transfer. *)
THEOREM ParserInside == GPUSpec => []ParserOK
<1>1. IInv => ParserOK
  BY Consequences DEF ParserOK
<1> QED  BY <1>1, Inductive, PTL

(* For every frame period, every size of the counter and every value it
   starts with, blanks are at most a period apart (GPU::tick). *)
THEOREM BlanksInTime == GPUSpec => []BlankInTime
<1>1. IInv => BlankInTime
  BY Consequences
<1> QED  BY <1>1, Inductive, PTL

(* For every program, the parser implements the commands of GPUCommands:
   each command gets its own words, each in its own field. *)
THEOREM CommandRefinement == GPUSpec => ImplementsCommands
<1>1. GPUInit => Parser!CmdInit
  BY InitHolds
<1>2. IInv /\ [GPUNext]_vars => [Parser!CmdNext]_Parser!cmdVars
  <2>1. ASSUME IInv, UNCHANGED vars
        PROVE  UNCHANGED Parser!cmdVars
    BY <2>1 DEF vars, parseVars, Parser!cmdVars
  <2> QED  BY <2>1, CpuStep, GpuStep DEF GPUNext, Parser!cmdVars
<1> QED  BY <1>1, <1>2, Inductive, PTL DEF GPUSpec, ImplementsCommands, Parser!CmdSpec

-----------------------------------------------------------------------------
(* The display, for any number of drawings.  Neither part of PicturesShown *)
(* is inductive: what makes them so is which thread holds the mutex at     *)
(* which point (Mutex), what each half of a copy holds at that point       *)
(* (Halves), and which flag stands for which difference (Flags).           *)
Mutex ==
  /\ vram_buf_mx = "emu" <=> emu_pc \in {"top", "bottom"}
  /\ vram_buf_mx = "app" <=> app_pc \in {"top", "bottom"}

Halves ==
  /\ IF emu_pc = "bottom" THEN vram_buf.top = m_vram
                          ELSE vram_buf.top = vram_buf.bottom
  /\ IF app_pc = "bottom" THEN vram_local_buf.top = vram_buf.top
                          ELSE vram_local_buf.top = vram_local_buf.bottom

Flags ==
  /\ emu_pc # "run" => m_dirty
  /\ ~m_dirty => vram_buf = Whole(m_vram)
  /\ app_pc = "loop" /\ ~vram_buf_updated /\ emu_pc # "bottom" =>
       vram_local_buf = vram_buf

DInv == DisplayTypeOK /\ Mutex /\ Halves /\ Flags

LEMMA DisplayInitInv == DisplayInit => DInv
<1> SUFFICES ASSUME DisplayInit PROVE DInv
  OBVIOUS
<1>1. 0 \in Pictures /\ Whole(0) \in Copy
  BY DrawAssumption DEF Pictures, Copy, Whole
<1>2. DisplayTypeOK
  BY <1>1 DEF DisplayInit, DisplayTypeOK
<1>3. Mutex /\ Halves /\ Flags
  BY DEF DisplayInit, Mutex, Halves, Flags, Whole
<1> QED  BY <1>2, <1>3 DEF DInv

(* A copy is determined by its halves. *)
LEMMA CopyIs ==
  ASSUME NEW c \in Copy
  PROVE  c = [top |-> c.top, bottom |-> c.bottom]
BY DEF Copy

LEMMA DisplayType ==
  ASSUME DisplayTypeOK, [DisplayNext]_displayVars
  PROVE  DisplayTypeOK'
<1>1. CASE DrawPicture
  <2>1. m_vram' \in Pictures
    BY <1>1, DrawAssumption DEF DrawPicture, DisplayTypeOK, Pictures
  <2> QED  BY <1>1, <2>1 DEF DrawPicture, DisplayTypeOK
<1>2. CASE Vblank
  BY <1>2 DEF Vblank, DisplayTypeOK, rendererVars
<1>3. CASE EmuLock
  BY <1>3 DEF EmuLock, DisplayTypeOK, rendererVars
<1>4. CASE EmuCopyTop
  BY <1>4 DEF EmuCopyTop, DisplayTypeOK, rendererVars, Copy
<1>5. CASE EmuCopyBottom
  BY <1>5 DEF EmuCopyBottom, DisplayTypeOK, rendererVars, Copy
<1>6. CASE AppLock
  BY <1>6 DEF AppLock, DisplayTypeOK, rendererVars
<1>7. CASE AppCopyTop
  BY <1>7 DEF AppCopyTop, DisplayTypeOK, rendererVars, Copy
<1>8. CASE AppCopyBottom
  BY <1>8 DEF AppCopyBottom, DisplayTypeOK, rendererVars, Copy
<1>9. CASE AppQuit
  BY <1>9 DEF AppQuit, DisplayTypeOK, rendererVars
<1>10. CASE UNCHANGED displayVars
  BY <1>10 DEF displayVars, rendererVars, DisplayTypeOK
<1> QED
  BY <1>1, <1>2, <1>3, <1>4, <1>5, <1>6, <1>7, <1>8, <1>9, <1>10
  DEF DisplayNext, Emulator, App

LEMMA DisplayStep ==
  ASSUME DInv, [DisplayNext]_displayVars
  PROVE  DInv'
<1> USE DEF DInv
<1>0. DisplayTypeOK'
  BY DisplayType
<1>1. CASE DrawPicture
  BY <1>0, <1>1 DEF DrawPicture, Mutex, Halves, Flags
<1>2. CASE Vblank
  BY <1>0, <1>2 DEF Vblank, Mutex, Halves, Flags, rendererVars, Whole
<1>3. CASE EmuLock
  BY <1>0, <1>3 DEF EmuLock, Mutex, Halves, Flags, rendererVars, Whole
<1>4. CASE EmuCopyTop
  <2>1. vram_buf'.top = m_vram'
    BY <1>4 DEF EmuCopyTop, rendererVars, DisplayTypeOK, Copy
  <2>2. Mutex' /\ app_pc \notin {"top", "bottom"}
    BY <1>4 DEF EmuCopyTop, Mutex
  <2> QED
    BY <1>0, <1>4, <2>1, <2>2 DEF EmuCopyTop, Halves, Flags, rendererVars
<1>5. CASE EmuCopyBottom
  <2>1. vram_buf' = Whole(m_vram')
    BY <1>5 DEF EmuCopyBottom, Whole, Halves, DisplayTypeOK, Copy
  <2>2. Mutex' /\ app_pc \notin {"top", "bottom"}
    BY <1>5 DEF EmuCopyBottom, Mutex
  <2> QED
    BY <1>0, <1>5, <2>1, <2>2 DEF EmuCopyBottom, Halves, Flags, Whole
<1>6. CASE AppLock
  BY <1>0, <1>6 DEF AppLock, Mutex, Halves, Flags, rendererVars, Whole
<1>7. CASE AppCopyTop
  <2>1. vram_local_buf'.top = vram_buf'.top
    BY <1>7 DEF AppCopyTop, DisplayTypeOK, Copy
  <2> QED
    BY <1>0, <1>7, <2>1 DEF AppCopyTop, Mutex, Halves, Flags, rendererVars, Whole
<1>8. CASE AppCopyBottom
  <2>1. vram_buf.top = vram_buf.bottom
    BY <1>8 DEF AppCopyBottom, Mutex, Halves
  <2>2. vram_local_buf' = vram_buf'
    BY <1>8, <2>1, CopyIs DEF AppCopyBottom, Halves, DisplayTypeOK, Copy
  <2> QED
    BY <1>0, <1>8, <2>1, <2>2
    DEF AppCopyBottom, Mutex, Halves, Flags, rendererVars, Whole
<1>9. CASE AppQuit
  BY <1>0, <1>9 DEF AppQuit, Mutex, Halves, Flags, rendererVars, Whole
<1>10. CASE UNCHANGED displayVars
  BY <1>0, <1>10 DEF displayVars, rendererVars, Mutex, Halves, Flags, Whole
<1> QED
  BY <1>1, <1>2, <1>3, <1>4, <1>5, <1>6, <1>7, <1>8, <1>9, <1>10
  DEF DisplayNext, Emulator, App

(* The window never shows halves of two pictures, and the two flags account
   for every difference between VRAM and the window. *)
THEOREM PicturesAreWhole == DisplaySpec => []PicturesShown
<1>1. DInv => PicturesShown
  BY DEF DInv, Halves, Flags, PicturesShown, NoTearing, FlagsAccount
<1> QED  BY <1>1, DisplayInitInv, DisplayStep, PTL DEF DisplaySpec
=============================================================================
