-------------------------------- MODULE GTE ---------------------------------
(***************************************************************************)
(* The geometry coprocessor (src/src/core/GTE.cpp, GTE.hpp): its 64        *)
(* registers with their widths, signs and side effects, the commands, and  *)
(* the countdown after which a command is executed.                        *)
(*                                                                         *)
(* The unit is the record [raw, mac, flag]: raw holds the registers as     *)
(* words, mac the wide accumulators, flag the set of the bits of register  *)
(* FLAG (raw[63] is not used).  Every width of the source is a multiple of *)
(* four constants, so that a small instance keeps their order:             *)
(*                                                                         *)
(*            Word  Half  Shift  Mac  Mac0  Color  ColorShift  Rgb  Screen *)
(*   source     32    16     12   44    48      8           4    5      11 *)
(*                                                                         *)
(* The division rounds to the nearest; the algorithm of the source is the  *)
(* subject of module UNR.                                                  *)
(***************************************************************************)
EXTENDS Integers, UNR

CONSTANTS Word,         \* bits of a register
          Shift,        \* fraction bits of a fixed-point number
          Color,        \* bits of a colour
          Screen,       \* bits of a screen coordinate
          Rgb,          \* bits of a colour in IRGB and ORGB
          Counter,      \* m_instr_rem_cycles counts modulo this
          Cycles,       \* m_op_times, a function of the opcodes
          Backgrounds,  \* what the registers may hold at the start
          Writes,       \* pairs of a register and a word: what is written
          Instrs,       \* the commands given
          MaxSteps      \* bound on the writes and commands of a behaviour

Half == Word \div 2
MacBits == Word + Shift
Mac0Bits == Word + Half
ColorShift == Shift - Color

ASSUME WidthAssumption ==
  /\ {Word, Shift, Color, Screen, Rgb, Counter} \subseteq Nat \ {0} /\ MaxSteps \in Nat
  /\ Word = 2 * Half /\ Word = 4 * Color /\ Screen < Half
  /\ Color < Shift /\ Shift < Half - 1 /\ Rgb < Shift /\ 3 * Rgb <= Half

(* Words are what a program can write, but to FLAG, which is a set here;   *)
(* the fields of a command are what its bits can hold.                     *)
ASSUME InputAssumption ==
  /\ \A b \in Backgrounds : \A i \in 0 .. 62 : b[i] \in 0 .. 2^Word - 1
  /\ \A w \in Writes : w[1] \in 0 .. 63 /\ (w[1] # 63 => w[2] \in 0 .. 2^Word - 1)
  /\ Instrs # {}
  /\ \A ins \in Instrs : /\ {"op", "sf", "lm", "mx", "v", "cv"} \subseteq DOMAIN ins
                        /\ {ins.sf, ins.lm} \subseteq {0, 1}
                        /\ {ins.mx, ins.v, ins.cv} \subseteq 0 .. 3
                        /\ Cycles[ins.op] \in 0 .. Counter - 1

VARIABLES m_regs, m_instr_inflight, m_instr_rem_cycles, m_instr_val,
          steps         \* writes and commands so far
vars == <<m_regs, m_instr_inflight, m_instr_rem_cycles, m_instr_val, steps>>

-----------------------------------------------------------------------------
(* Numbers *)

Low(x, n) == x % 2^n
Signed(x, n) == LET y == x % 2^n IN IF y >= 2^(n - 1) THEN y - 2^n ELSE y
Sar(x, n) == x \div 2^n
Clamp(x, l, h) == IF x < l THEN l ELSE IF x > h THEN h ELSE x

(* The registers whose whole value is 16 bits wide (REGATTR_16)            *)
Signed16 == {1, 3, 5, 8, 9, 10, 11, 36, 44, 52, 58, 59, 61, 62}
Unsigned16 == {7, 16, 17, 18, 19, 28, 29}

Errors == (13 .. 18) \cup (23 .. 30)
FlagWord(S) == LET f == S \cap (12 .. 30)
               IN  IF f \cap Errors # {} THEN f \cup {31} ELSE f

LeadingBits(x) ==       \* countl_zero of x, or of its complement
  LET y == IF x >= 2^(Word - 1) THEN 2^Word - 1 - x ELSE x
  IN  CHOOSE z \in 0 .. Word : 2^(Word - z) > y /\ (z = Word \/ 2^(Word - z - 1) <= y)

OfIR(u) ==              \* calc_ORGB
  LET c(i) == Clamp(Sar(Signed(u.raw[8 + i], Word), Shift - Rgb), 0, 2^Rgb - 1)
  IN  c(1) + c(2) * 2^Rgb + c(3) * 2^(2 * Rgb)

(* What a read leaves behind, and the word it returns: SXYP reads as SXY2, *)
(* IRGB and ORGB are computed from IR1..IR3, LZCR from LZCS.              *)
Refreshed(u, i) ==
  CASE i \in {28, 29} -> [u EXCEPT !.raw[28] = OfIR(u), !.raw[29] = OfIR(u)]
    [] i = 31 -> [u EXCEPT !.raw[31] = LeadingBits(u.raw[30])]
    [] OTHER -> u
Read(u, i) ==
  LET r == Refreshed(u, i).raw
  IN  CASE i = 63 -> u.flag
        [] i = 15 -> r[14]
        [] i \in Unsigned16 -> Low(r[i], Half)
        [] i \in Signed16 -> Low(Signed(r[i], Half), Word)
        [] OTHER -> r[i]

(* The halves and the colours packed into a register *)
Lo(u, i) == Signed(u.raw[i], Half)
Hi(u, i) == Signed(u.raw[i] \div 2^Half, Half)
Rgb8(u, i) == [k \in 1 .. 3 |-> Low(u.raw[i] \div 2^((k - 1) * Color), Color)]

(* write *)
PushSXY(u, x) ==
  [u EXCEPT !.raw[12] = u.raw[13], !.raw[13] = u.raw[14], !.raw[14] = x]
SpreadIRGB(u, x) ==
  LET c(k) == Low(x \div 2^((k - 1) * Rgb), Rgb) * 2^(Shift - Rgb)
  IN  [u EXCEPT !.raw[28] = Low(x, 3 * Rgb), !.raw[9] = c(1), !.raw[10] = c(2), !.raw[11] = c(3)]
Write_Mut(u, i, x) ==   \* Mutant: a 16-bit register is not sign-extended
  CASE i = 15 -> PushSXY(u, x)
    [] i = 28 -> [u EXCEPT !.raw[28] = Low(x, 3 * Rgb)]
    [] i \in 24 .. 27 -> [u EXCEPT !.raw[i] = x, !.mac[i - 24] = Signed(x, Word)]
    [] i = 63 -> [u EXCEPT !.flag = FlagWord(x)]
    [] OTHER -> [u EXCEPT !.raw[i] = IF i \in Signed16 \cup Unsigned16 THEN Low(x, Half) ELSE x]
Write(u, i, x) ==
  CASE i = 15 -> PushSXY(u, x)
    [] i = 28 -> SpreadIRGB(u, x)
    [] i \in Unsigned16 \ {28} -> [u EXCEPT !.raw[i] = Low(x, Half)]
    [] i \in Signed16 -> [u EXCEPT !.raw[i] = Low(Signed(x, Half), Word)]
    [] i \in 24 .. 27 -> [u EXCEPT !.raw[i] = x, !.mac[i - 24] = Signed(x, Word)]
    [] i = 63 -> [u EXCEPT !.flag = FlagWord(x)]
    [] OTHER -> [u EXCEPT !.raw[i] = x]

-----------------------------------------------------------------------------
(* Limits, accumulators, queues *)

Raise(u, bits) == [u EXCEPT !.flag = FlagWord(@ \cup bits)]       \* set_flag
Lim(x, l, h, bit) == IF Clamp(x, l, h) = x THEN {} ELSE {bit}
SetIR(u, i, x) == [u EXCEPT !.raw[8 + i] = Low(x, Word)]

(* calc_test *)
Overflow(i, x) ==
  LET bits == IF i = 0 THEN Word ELSE MacBits
  IN  CASE x > 2^(bits - 1) - 1 -> {IF i = 0 THEN 16 ELSE 31 - i}
        [] x < -(2^(bits - 1)) -> {IF i = 0 THEN 15 ELSE 28 - i}
        [] OTHER -> {}

(* _WRITE_MAC: the test is made before the shift and the wide value kept.  *)
SetMac(u, i, y) == [u EXCEPT !.raw[24 + i] = Low(y, Word), !.mac[i] = y]
Cut(i, x) == Signed(x, IF i = 0 THEN Mac0Bits ELSE MacBits)
WriteMac_MutTest(u, i, x, sf) ==        \* Mutant: the test is made after the shift
  SetMac(Raise(u, Overflow(i, Sar(Cut(i, x), sf * Shift))), i, Sar(Cut(i, x), sf * Shift))
WriteMac_MutWide(u, i, x, sf) ==        \* Mutant: the wide value is not cut
  SetMac(Raise(u, Overflow(i, x)), i, Sar(x, sf * Shift))
WriteMac(u, i, x, sf) ==
  SetMac(Raise(u, Overflow(i, x)), i, Sar(Cut(i, x), sf * Shift))
WriteMacs(u, x, sf) ==
  WriteMac(WriteMac(WriteMac(u, 1, x[1], sf), 2, x[2], sf), 3, x[3], sf)

(* MAC_INTO_IR: AS or AU of the word, not of the wide value *)
Least(lm) == IF lm = 0 THEN -(2^(Half - 1)) ELSE 0
Most == 2^(Half - 1) - 1
MacIntoIR1_Mut(u, i, lm) ==             \* Mutant: clamped as AU, tested as AS
  LET x == Signed(u.raw[24 + i], Word)
  IN  SetIR(Raise(u, Lim(x, Least(0), Most, 25 - i)), i, Clamp(x, Least(lm), Most))
MacIntoIR1(u, i, lm) ==
  LET x == Signed(u.raw[24 + i], Word)
  IN  SetIR(Raise(u, Lim(x, Least(lm), Most, 25 - i)), i, Clamp(x, Least(lm), Most))
MacIntoIR(u, lm) == MacIntoIR1(MacIntoIR1(MacIntoIR1(u, 1, lm), 2, lm), 3, lm)

(* PUSH_COLOR_MAC_SAR4 *)
PushColor(u) ==
  LET m == [k \in 1 .. 3 |-> Sar(Signed(u.raw[24 + k], Word), ColorShift)]
      top == 2^Color - 1
      c == [k \in 1 .. 3 |-> Clamp(m[k], 0, top)]
      code == u.raw[6] \div 2^(3 * Color)
  IN  Raise([u EXCEPT !.raw[20] = u.raw[21], !.raw[21] = u.raw[22],
                      !.raw[22] = c[1] + c[2] * 2^Color + c[3] * 2^(2 * Color)
                                   + code * 2^(3 * Color)],
            UNION {Lim(m[k], 0, top, 22 - k) : k \in 1 .. 3})

(* SHIFT_SZ2, then SZ2 *)
PushZ(u, z) ==
  Raise([u EXCEPT !.raw[16] = u.raw[17], !.raw[17] = u.raw[18], !.raw[18] = u.raw[19],
                  !.raw[19] = Clamp(z, 0, 2^Half - 1)],
        Lim(z, 0, 2^Half - 1, 18))

(* divide *)
Overflows(p, q) == p >= 2 * q
Quotient(p, q) ==
  IF Overflows(p, q) THEN 2^(Half + 1) - 1
  ELSE Clamp(((p * 2^(Half + 1)) \div q + 1) \div 2, 0, 2^(Half + 1) - 1)

-----------------------------------------------------------------------------
(* Commands.  An operand is a function from 1..3, a matrix one of those.   *)

Elem(u, base, k) == IF k % 2 = 1 THEN Lo(u, base + (k - 1) \div 2)
                                 ELSE Hi(u, base + (k - 1) \div 2)
Three(x, y, z) == <<x, y, z>>
IRs(u) == [i \in 1 .. 3 |-> Signed(u.raw[8 + i], Half)]
IR0(u) == Signed(u.raw[8], Half)
Words3(u, base) == [i \in 1 .. 3 |-> Signed(u.raw[base + i - 1], Word)]

Matrix(u, mx) ==        \* 3 is the garbage matrix
  IF mx = 3
  THEN LET r == Rgb8(u, 6)[1] * 2^ColorShift
       IN  Three(Three(-r, r, IR0(u)), [j \in 1 .. 3 |-> Elem(u, 32, 3)],
                 [j \in 1 .. 3 |-> Elem(u, 32, 5)])
  ELSE [i \in 1 .. 3 |-> [j \in 1 .. 3 |-> Elem(u, 32 + 8 * mx, 3 * (i - 1) + j)]]
Vector(u, v) == IF v = 3 THEN IRs(u)
                ELSE Three(Lo(u, 2 * v), Hi(u, 2 * v), Lo(u, 2 * v + 1))
Translation(u, cv) == IF cv = 3 THEN [i \in 1 .. 3 |-> 0] ELSE Words3(u, 37 + 8 * cv)

(* c * 2^Shift + a.b, every partial sum tested and cut to the accumulator. *)
(* With cv = 2 the first column only leaves its flags.                     *)
AddColumn(u, a, b, j, sf) ==
  WriteMacs(u, [i \in 1 .. 3 |-> u.mac[i] + a[i][j] * b[j]], sf)
Dropped(u, first, sf) ==
  WriteMacs(MacIntoIR(WriteMacs(u, first, sf), 0), Three(0, 0, 0), 0)
Sum(u, sf, a, b, c, cv) ==
  LET first == [i \in 1 .. 3 |-> c[i] * 2^Shift + a[i][1] * b[1]]
      start == IF cv = 2 THEN Dropped(u, first, sf) ELSE WriteMacs(u, first, 0)
  IN  AddColumn(AddColumn(start, a, b, 2, 0), a, b, 3, sf)
Products(u, sf, mx, v, cv) ==
  Sum(u, sf, Matrix(u, mx), Vector(u, v), Translation(u, cv), cv)

Mvmva(u, sf, mx, v, cv, lm) == MacIntoIR(Products(u, sf, mx, v, cv), lm)

(* rtp: IR3 is limited by lim_A3_SF, then come SZ2, the division and SXY2. *)
LimitDepth(u, wide, sf, lm) ==
  LET z == Sar(wide, Shift)
      ir3 == Clamp(Signed(Sar(wide, sf * Shift), Word), Least(lm), Most)
  IN  PushZ(SetIR(Raise(u, Lim(z, Least(0), Most, 22)), 3, ir3), z)
Project(u, sf, lm, v) ==
  LimitDepth(MacIntoIR1(MacIntoIR1(Products(u, sf, 0, v, 0), 1, lm), 2, lm),
             Products(u, 0, 0, v, 0).mac[3], sf, lm)

(* SX and SY are in MAC0 one after the other; P, if asked for, overwrites  *)
(* them and is limited into IR0.                                           *)
Scaled(u, base, factor, div) == WriteMac(u, 0, Signed(u.raw[base], Word) + factor * div, 0)
Edge == 2^(Screen - 1)
Pixel(s) == Low(Clamp(s, -Edge, Edge - 1), Half)
PushPixel(u, sx, sy) ==
  Write(Raise(u, Lim(sx, -Edge, Edge - 1, 14) \cup Lim(sy, -Edge, Edge - 1, 13)),
        15, Pixel(sx) + Pixel(sy) * 2^Half)
LimitFade(u, p) == SetIR(Raise(u, Lim(p, 0, 2^Shift, 12)), 0, Clamp(p, 0, 2^Shift))
Fade(u) == LimitFade(u, Sar(u.mac[0], Shift))
ToScreen(x, div, depth_queue) ==
  LET y == Scaled(x, 57, IRs(x)[2], div)
  IN  PushPixel(IF depth_queue THEN Fade(Scaled(y, 60, Lo(y, 59), div)) ELSE y,
                Sar(x.mac[0], Half), Sar(y.mac[0], Half))
Perspective(u, h, sz, depth_queue) ==
  LET div == Quotient(h, sz)
  IN  ToScreen(Scaled(Raise(u, IF Overflows(h, sz) THEN {17} ELSE {}), 56, IRs(u)[1], div),
               div, depth_queue)
Far(u, depth_queue) == Perspective(u, Low(u.raw[58], Half), u.raw[19], depth_queue)
Rtp(u, sf, lm, v, depth_queue) == Far(Project(u, sf, lm, v), depth_queue)

(* intpl_common *)
ToFar(u, m, sf) ==
  MacIntoIR(WriteMacs(u, [i \in 1 .. 3 |-> Words3(u, 53)[i] * 2^Shift - m[i]], sf), 0)
Blend(u, m, sf) == WriteMacs(u, [i \in 1 .. 3 |-> m[i] + IR0(u) * IRs(u)[i]], sf)
Interpolate(u, sf, lm) ==
  PushColor(MacIntoIR(Blend(ToFar(u, u.mac, sf), u.mac, sf), lm))

Dpc_Mut(u, sf, lm, from) ==     \* Mutant: use_rgb0 is forgotten
  Interpolate(WriteMacs(u, [i \in 1 .. 3 |-> Rgb8(u, 6)[i] * 2^(ColorShift + Shift)], 0),
              sf, lm)
Dpc(u, sf, lm, from) ==
  Interpolate(WriteMacs(u, [i \in 1 .. 3 |-> Rgb8(u, from)[i] * 2^(ColorShift + Shift)], 0),
              sf, lm)
Intpl(u, sf, lm) ==
  Interpolate(WriteMacs(u, [i \in 1 .. 3 |-> IRs(u)[i] * 2^Shift], 0), sf, lm)

Tinted(u) == [i \in 1 .. 3 |-> IRs(u)[i] * Rgb8(u, 6)[i] * 2^ColorShift]
Dcpl(u, sf, lm) == Interpolate(WriteMacs(u, Tinted(u), 0), sf, lm)
Light(u, sf, lm) == Mvmva(u, sf, 2, 3, 1, lm)
Normal(u, sf, lm, v) == Mvmva(u, sf, 1, v, 3, lm)
Cdp(u, sf, lm) == Dcpl(Light(u, sf, lm), sf, lm)
Tint(u, sf, lm) == MacIntoIR(PushColor(WriteMacs(u, Tinted(u), sf)), lm)
Cc(u, sf, lm) == Tint(Light(u, sf, lm), sf, lm)
Ncd(u, sf, lm, v) == Cdp(Normal(u, sf, lm, v), sf, lm)
Ncc(u, sf, lm, v) == Cc(Normal(u, sf, lm, v), sf, lm)
Nc(u, sf, lm, v) == PushColor(Light(Normal(u, sf, lm, v), sf, lm))

Sx(u, k) == Lo(u, 12 + k)
Sy(u, k) == Hi(u, 12 + k)
Nclip(u) ==
  LET cross(j, k) == Sx(u, j) * Sy(u, k) - Sx(u, k) * Sy(u, j)
  IN  WriteMac(u, 0, cross(0, 1) + cross(1, 2) + cross(2, 0), 0)

Op(u, sf, lm) ==
  LET ir == IRs(u)
      d == Three(Elem(u, 32, 1), Elem(u, 32, 5), Elem(u, 32, 9))
  IN  MacIntoIR(WriteMacs(u, Three(ir[3] * d[2] - ir[2] * d[3], ir[1] * d[3] - ir[3] * d[1],
                                   ir[2] * d[1] - ir[1] * d[2]), sf), lm)
Sqr(u, sf, lm) == MacIntoIR(WriteMacs(u, [i \in 1 .. 3 |-> IRs(u)[i] * IRs(u)[i]], sf), lm)

(* AVSZ3, AVSZ4: the average of the last n entries of the queue of depths *)
Average(u, n) ==
  LET z(k) == Low(u.raw[k], Half)
      sum == (IF n = 4 THEN z(16) ELSE 0) + z(17) + z(18) + z(19)
      otz == Signed(u.raw[58 + n], Half) * sum
      avg == Sar(otz, Shift)
  IN  WriteMac([Raise(u, Lim(avg, 0, 2^Half - 1, 18))
                  EXCEPT !.raw[7] = Clamp(avg, 0, 2^Half - 1)], 0, otz, 0)

Gp(u, sf, lm, base) ==
  PushColor(MacIntoIR(WriteMacs(u, [i \in 1 .. 3 |-> base[i] + IR0(u) * IRs(u)[i]], sf), lm))

(* The commands for a vertex or a colour, and those that run one of them   *)
(* three times, on what the run before left.                               *)
Single == [RTPT |-> "RTPS", NCDT |-> "NCDS", NCT |-> "NCS", NCCT |-> "NCCS",
           DPCT |-> "DPCS"]
Run(u, op, sf, lm, v, triple) ==
  CASE op = "RTPS" -> Rtp(u, sf, lm, v, triple => v = 2)
    [] op = "NCDS" -> Ncd(u, sf, lm, v)
    [] op = "NCCS" -> Ncc(u, sf, lm, v)
    [] op = "NCS"  -> Nc(u, sf, lm, v)
    [] op = "DPCS" -> Dpc(u, sf, lm, IF triple THEN 20 ELSE 6)
Thrice(u, op, sf, lm) ==        \* in sets of one, each computed before the next
  LET then(S, v) == {Run(x, op, sf, lm, v, TRUE) : x \in S}
  IN  CHOOSE x \in then(then(then({u}, 0), 1), 2) : TRUE

(* process_instr: an opcode that is not in m_op_table only clears FLAG.    *)
Executed(old, ins) ==
  LET u == [old EXCEPT !.flag = {}]
      sf == ins.sf
      lm == ins.lm
  IN  CASE ins.op \in DOMAIN Single -> Thrice(u, Single[ins.op], sf, lm)
        [] ins.op \in {Single[op] : op \in DOMAIN Single} -> Run(u, ins.op, sf, lm, 0, FALSE)
        [] ins.op = "NCLIP" -> Nclip(u)
        [] ins.op = "OP"    -> Op(u, sf, lm)
        [] ins.op = "INTPL" -> Intpl(u, sf, lm)
        [] ins.op = "MVMVA" -> Mvmva(u, sf, ins.mx, ins.v, ins.cv, lm)
        [] ins.op = "CDP"   -> Cdp(u, sf, lm)
        [] ins.op = "CC"    -> Cc(u, sf, lm)
        [] ins.op = "SQR"   -> Sqr(u, sf, lm)
        [] ins.op = "DCPL"  -> Dcpl(u, sf, lm)
        [] ins.op = "AVSZ3" -> Average(u, 3)
        [] ins.op = "AVSZ4" -> Average(u, 4)
        [] ins.op = "GPF"   -> Gp(u, sf, lm, [i \in 1 .. 3 |-> 0])
        [] ins.op = "GPL"   -> Gp(u, sf, lm, [i \in 1 .. 3 |-> u.mac[i] * 2^(sf * Shift)])
        [] OTHER -> u
-----------------------------------------------------------------------------
(* All registers read, and written back.  A program leaves out SXYP and    *)
(* IRGB; writing any of the others changes that one only (Write), so the   *)
(* order does not matter.                                                  *)
Snapshot(u) == [i \in 0 .. 63 |-> Read(u, i)]
Restored(u, w) ==
  LET one(i) == Write(u, i, w[i])
  IN  [raw |-> [i \in 0 .. 62 |-> IF i \in {15, 28} THEN u.raw[i] ELSE one(i).raw[i]],
       mac |-> [i \in 0 .. 3 |-> one(24 + i).mac[i]], flag |-> one(63).flag]
Blank == [raw |-> [i \in 0 .. 62 |-> 0], mac |-> [i \in 0 .. 3 |-> 0], flag |-> {}]

(* GTE() leaves the registers as memory held them: a behaviour starts when *)
(* the program has written them all.                                       *)
Init ==
  /\ \E b \in Backgrounds : m_regs = Restored(Blank, b)
  /\ m_instr_inflight = FALSE /\ m_instr_rem_cycles = 0
  /\ m_instr_val = CHOOSE ins \in Instrs : TRUE      \* not looked at before a Cmd
  /\ steps = 0

(* tick: a command is executed when its countdown ends, on the registers   *)
(* as they are then.                                                       *)
Tick ==
  /\ m_instr_inflight
  /\ m_instr_rem_cycles' = (m_instr_rem_cycles - 1) % Counter
  /\ m_instr_inflight' = (m_instr_rem_cycles' # 0)
  /\ m_regs' = IF m_instr_inflight' THEN m_regs ELSE Executed(m_regs, m_instr_val)
  /\ UNCHANGED <<m_instr_val, steps>>

(* to_data, to_ctrl: allowed while a command is counted down *)
To(i, x) ==
  /\ steps < MaxSteps
  /\ m_regs' = Write(m_regs, i, x)
  /\ steps' = steps + 1
  /\ UNCHANGED <<m_instr_inflight, m_instr_rem_cycles, m_instr_val>>

(* from_data, from_ctrl *)
From(i) ==
  /\ ~m_instr_inflight
  /\ m_regs' = Refreshed(m_regs, i)
  /\ UNCHANGED <<m_instr_inflight, m_instr_rem_cycles, m_instr_val, steps>>

Cmd(ins) ==
  /\ ~m_instr_inflight /\ steps < MaxSteps
  /\ m_instr_inflight' = TRUE
  /\ m_instr_rem_cycles' = Cycles[ins.op]
  /\ m_instr_val' = ins
  /\ steps' = steps + 1
  /\ UNCHANGED m_regs

Next ==
  \/ Tick
  \/ \E w \in Writes : To(w[1], w[2])
  \/ \E i \in 0 .. 63 : From(i)
  \/ \E ins \in Instrs : Cmd(ins)

GTESpec == Init /\ [][Next]_vars

-----------------------------------------------------------------------------
(* Every register holds a value of its width, sign-extended where the      *)
(* attributes of GTE.hpp say so; the wide accumulators hold no more than   *)
(* their bits, the register MACi is always the low word of accumulator i,  *)
(* and the summary bit of FLAG follows the error bits.                     *)
GTETypeOK ==
  /\ \A i \in 0 .. 62 : m_regs.raw[i] \in 0 .. 2^Word - 1
  /\ \A i \in Signed16 : m_regs.raw[i] = Low(Signed(m_regs.raw[i], Half), Word)
  /\ \A i \in Unsigned16 : m_regs.raw[i] < 2^Half
  /\ \A i \in 0 .. 3 : /\ m_regs.mac[i] = Signed(m_regs.mac[i], IF i = 0 THEN Mac0Bits ELSE MacBits)
                       /\ m_regs.raw[24 + i] = Low(m_regs.mac[i], Word)
  /\ m_regs.flag = FlagWord(m_regs.flag)
  /\ m_instr_inflight \in BOOLEAN /\ m_instr_rem_cycles \in 0 .. Counter - 1

(* The words a program reads from the 62 registers it may write back are   *)
(* all the readable state: written to a unit that held anything else, they *)
(* make every register read as before, the computed ones included.  (The   *)
(* bits of an accumulator above its register are not readable, and lost.)  *)
ContextSurvives ==
  LET words == Snapshot(m_regs) IN
  \A b \in Backgrounds : Snapshot(Restored(Restored(Blank, b), words)) = words

Completes(ops) ==
  m_instr_inflight /\ ~m_instr_inflight' /\ m_instr_val.op \in ops

(* The matrix product without intermediate cuts, the area of the triangle. *)
Exact(u, ins, i) ==
  LET mx == IF ins.op = "MVMVA" THEN ins.mx ELSE 0
      b == Vector(u, IF ins.op = "MVMVA" THEN ins.v ELSE 0)
      c == Translation(u, IF ins.op = "MVMVA" THEN ins.cv ELSE 0)
      a == Matrix(u, mx)[i]
  IN  c[i] * 2^Shift + a[1] * b[1] + a[2] * b[2] + a[3] * b[3]
Area(u) == (Sx(u, 1) - Sx(u, 0)) * (Sy(u, 2) - Sy(u, 0))
           + (-((Sx(u, 2) - Sx(u, 0)) * (Sy(u, 1) - Sy(u, 0))))

(* GTE::mvmva, op_NCLIP: an accumulator whose overflow bits stay clear     *)
(* holds the exact result, shifted but not cut; one that holds anything    *)
(* else is reported in FLAG.  (cv = 2 drops a column by design.)           *)
ExactOrFlagged ==
  [][/\ Completes({"MVMVA", "RTPS"}) /\ m_instr_val.cv # 2 =>
          \A i \in 1 .. 3 :
             \/ {31 - i, 28 - i} \cap m_regs'.flag # {}
             \/ m_regs'.mac[i] = Sar(Exact(m_regs, m_instr_val, i), m_instr_val.sf * Shift)
     /\ Completes({"NCLIP"}) =>
          \/ {15, 16} \cap m_regs'.flag # {}
          \/ Signed(m_regs'.raw[24], Word) = Area(m_regs)]_vars

(* MAC_INTO_IR: when a command that ends in it is done, IRi is MACi or the *)
(* limit MACi lies beyond, and a limited value is reported in FLAG.        *)
Saturated ==
  [][Completes({"MVMVA", "OP", "SQR", "GPF", "GPL", "DPCS", "DPCT", "INTPL", "DCPL",
                "NCDS", "NCDT", "NCCS", "NCCT", "NCS", "NCT", "CDP", "CC"}) =>
       \A i \in 1 .. 3 :
         LET mac == Signed(m_regs'.raw[24 + i], Word)
             ir == IRs(m_regs')[i]
         IN  /\ mac \in Least(m_instr_val.lm) .. Most => ir = mac
             /\ mac > Most => ir = Most
             /\ mac < Least(m_instr_val.lm) => ir = Least(m_instr_val.lm)
             /\ ir # mac => 25 - i \in m_regs'.flag]_vars

(* The command for three vertices or colours gives what three commands for *)
(* one would: entry k of its queue is what the single command computes for *)
(* input k from the registers as they were, so nothing one of the three    *)
(* leaves in IR, MAC or a queue reaches the next.  The flags of the single *)
(* command are reported too; for RTPT only its entries are compared.       *)
Alone(u, op, k) ==
  IF op = "DPCT"
  THEN [u EXCEPT !.raw[6] = Low(u.raw[20 + k], 3 * Color)
                            + (u.raw[6] \div 2^(3 * Color)) * 2^(3 * Color)]
  ELSE [u EXCEPT !.raw[0] = u.raw[2 * k], !.raw[1] = u.raw[2 * k + 1]]
SameEntry(u, op, k, one) ==
  IF op = "RTPT"
  THEN u.raw[12 + k] = one.raw[14] /\ u.raw[17 + k] = one.raw[19]
  ELSE u.raw[20 + k] = one.raw[22] /\ one.flag \subseteq u.flag
TripleIsThreeSingles ==
  [][Completes(DOMAIN Single) =>
       \A k \in 0 .. 2 :
         LET op == m_instr_val.op IN
         SameEntry(m_regs', op, k,
                   Executed(Alone(m_regs, op, k), [m_instr_val EXCEPT !.op = Single[op]]))]_vars
=============================================================================
