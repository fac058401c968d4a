---------------------------- MODULE DebugProofs -----------------------------
(***************************************************************************)
(* What the address map promises for every one of the 2^32 addresses, and  *)
(* what the unaligned accesses and the overflow tests of the CPU promise   *)
(* for every address and every word; then what the debug core promises,    *)
(* whose runs watch the accesses that go through the map, for every        *)
(* program, every breakpoint and every watchpoint.                         *)
(***************************************************************************)
EXTENDS Debug, Words, TLAPS

Devices == {"ram", "bios", "redux", "gpu", "scratch", "sio0", "intc"}

(* The result of the map, device by device, in linear arithmetic.          *)
LEMMA Regions ==
  ASSUME NEW off \in Nat, off < 536870912
  PROVE  /\ MapKuseg(off).at \in Nat
         /\ MapKuseg(off).dev = "ram" =>
              \E k \in Nat : off = MapKuseg(off).at + 2097152 * k /\ MapKuseg(off).at < 2097152
         /\ MapKuseg(off).dev = "bios" =>
              MapKuseg(off).at = off - 532676608 /\ MapKuseg(off).at < 4194304
         /\ MapKuseg(off).dev = "redux" =>
              MapKuseg(off).at = off - 528490624 /\ MapKuseg(off).at <= 4
         /\ MapKuseg(off).dev = "gpu" =>
              MapKuseg(off).at = off - 528488464 /\ MapKuseg(off).at <= 4
         /\ MapKuseg(off).dev = "scratch" =>
              MapKuseg(off).at = off - 528482304 /\ MapKuseg(off).at <= 1024
         /\ MapKuseg(off).dev = "sio0" =>
              MapKuseg(off).at = off - 528486464 /\ MapKuseg(off).at <= 14
         /\ MapKuseg(off).dev = "intc" =>
              MapKuseg(off).at = off - 528486512 /\ MapKuseg(off).at <= 4
<1>1. CASE off < 8388608
  <2>1. MapKuseg(off) = [dev |-> "ram", at |-> off % 2097152]
    BY SMT, <1>1 DEF MapKuseg
  <2>2. /\ off = 2097152 * (off \div 2097152) + (off % 2097152)
        /\ off % 2097152 \in Nat /\ off % 2097152 < 2097152 /\ off \div 2097152 \in Nat
    BY SMT
  <2> QED  BY SMT, <2>1, <2>2
<1>2. CASE off >= 8388608
  BY SMT, <1>2 DEF MapKuseg, Bios, Redux, Gpu, Scratch, Sio0, IntC, Crash, Dummy
<1> QED  BY SMT, <1>1, <1>2

(* Bus::map_addr with the assertions of MemBlockDevice: an access that is  *)
(* aligned to its width stays inside the device it is sent to, wherever it *)
(* starts, but for the address one behind the scratchpad.                  *)
THEOREM AlignedInside ==
  ASSUME NEW a, IsAddress(a), NEW w \in {1, 2, 4}, a.off % w = 0,
         MapAddr(a).dev \in Devices,
         ~(MapAddr(a).dev = "scratch" /\ MapAddr(a).at = 1024)
  PROVE  MapAddr(a).at \in Nat /\ MapAddr(a).at + w <= Size(MapAddr(a).dev)
<1>1. MapAddr(a) = MapKuseg(a.off) /\ a.off \in Nat /\ a.off < 536870912
  BY SMT DEF MapAddr, IsAddress, Devices, Crash, Dummy
<1>2. a.off \in Int
  BY SMT, <1>1
<1>3. \A x \in Int : x % 2 = 0 => \E y \in Int : x = 2 * y
  BY SMT
<1>4. \A x \in Int : x % 4 = 0 => \E y \in Int : x = 4 * y
  BY SMT
<1>5. CASE MapAddr(a).dev = "ram"
  <2>1. PICK k \in Nat : a.off = MapAddr(a).at + 2097152 * k
    BY SMT, <1>1, <1>5, Regions
  <2>2. MapAddr(a).at \in Nat /\ MapAddr(a).at < 2097152
    BY SMT, <1>1, <1>5, Regions
  <2>3. Size(MapAddr(a).dev) = 2097152
    BY SMT, <1>5 DEF Size
  <2>4. CASE w = 1
    BY SMT, <2>2, <2>3, <2>4
  <2>5. CASE w = 2
    <3>1. PICK y \in Int : a.off = 2 * y
      BY SMT, <1>2, <1>3, <2>5
    <3> QED  BY SMT, <2>1, <2>2, <2>3, <2>5, <3>1
  <2>6. CASE w = 4
    <3>1. PICK y \in Int : a.off = 4 * y
      BY SMT, <1>2, <1>4, <2>6
    <3> QED  BY SMT, <2>1, <2>2, <2>3, <2>6, <3>1
  <2> QED  BY SMT, <2>4, <2>5, <2>6
<1>6. CASE MapAddr(a).dev # "ram"
  <2>1. /\ MapAddr(a).at \in Nat
        /\ MapAddr(a).dev = "bios" => MapAddr(a).at = a.off - 532676608 /\ MapAddr(a).at < 4194304
        /\ MapAddr(a).dev = "scratch" => MapAddr(a).at = a.off - 528482304 /\ MapAddr(a).at < 1024
        /\ MapAddr(a).dev = "sio0" => MapAddr(a).at = a.off - 528486464 /\ MapAddr(a).at <= 14
        /\ MapAddr(a).dev \in {"redux", "gpu", "intc"} => MapAddr(a).at <= 4
    BY SMT, <1>1, Regions
  <2>2. Size(MapAddr(a).dev) = IF MapAddr(a).dev = "bios" THEN 4194304
                               ELSE IF MapAddr(a).dev = "scratch" THEN 1024
                               ELSE IF MapAddr(a).dev = "sio0" THEN 16 ELSE 8
    BY SMT, <1>6 DEF Size, Devices
  <2>3. MapAddr(a).dev \in {"bios", "scratch", "sio0"} \/ MapAddr(a).dev \in {"redux", "gpu", "intc"}
    BY SMT, <1>6 DEF Devices
  <2>4. CASE w = 1
    BY SMT, <2>1, <2>2, <2>3, <2>4
  <2>5. CASE w = 2
    <3>1. PICK y \in Int : a.off = 2 * y
      BY SMT, <1>2, <1>3, <2>5
    <3> QED  BY SMT, <2>1, <2>2, <2>3, <2>5, <3>1
  <2>6. CASE w = 4
    <3>1. PICK y \in Int : a.off = 4 * y
      BY SMT, <1>2, <1>4, <2>6
    <3> QED  BY SMT, <2>1, <2>2, <2>3, <2>6, <3>1
  <2> QED  BY SMT, <2>4, <2>5, <2>6
<1> QED  BY SMT, <1>5, <1>6

(* Bus::map_addr: outside of the cache registers, two addresses that reach *)
(* the same byte of a device differ in their segment only, or are two of   *)
(* the four images of the memory: no two regions overlap.                  *)
THEOREM OneAddress ==
  ASSUME NEW a, NEW b, IsAddress(a), IsAddress(b),
         MapAddr(a) = MapAddr(b), MapAddr(a).dev \in Devices
  PROVE  \/ a.off = b.off
         \/ MapAddr(a).dev = "ram" /\ a.off % 2097152 = b.off % 2097152
<1>1. /\ a.off \in Nat /\ a.off < 536870912
      /\ b.off \in Nat /\ b.off < 536870912
  BY SMT DEF IsAddress
<1>2. MapAddr(a) = MapKuseg(a.off) /\ MapAddr(b) = MapKuseg(b.off)
  BY SMT DEF MapAddr, IsAddress, Devices, Crash, Dummy
<1>3. a.off \in Int /\ b.off \in Int
  BY SMT, <1>1
<1>4. CASE MapAddr(a).dev = "ram"
  <2>1. MapAddr(a).at \in Nat /\ MapAddr(a).at < 2097152
    BY SMT, <1>2, <1>1, <1>4, Regions
  <2>2. MapKuseg(a.off).dev = "ram" /\ MapKuseg(b.off).dev = "ram"
        /\ MapKuseg(a.off).at = MapAddr(a).at /\ MapKuseg(b.off).at = MapAddr(a).at
    BY Zenon, <1>2, <1>4
  <2>3. \E k \in Nat : a.off = MapAddr(a).at + 2097152 * k
    BY SMT, <1>1, <2>2, Regions
  <2>4. \E k \in Nat : b.off = MapAddr(a).at + 2097152 * k
    BY SMT, <1>1, <2>2, Regions
  <2>5. a.off % 2097152 = MapAddr(a).at /\ b.off % 2097152 = MapAddr(a).at
    BY SMT, <1>3, <2>1, <2>3, <2>4
  <2> QED  BY SMT, <1>4, <2>5
<1>5. CASE MapAddr(a).dev \in Devices \ {"ram"}
  <2>1. \A d \in {"bios", "redux", "gpu", "scratch", "sio0", "intc"} :
          MapKuseg(a.off).dev = d /\ MapKuseg(b.off).dev = d
            /\ MapKuseg(a.off).at = MapKuseg(b.off).at => a.off = b.off
    <3>1. \A n \in Nat : a.off - n = b.off - n => a.off = b.off
      BY SMT, <1>3
    <3> QED  BY SMT, <1>1, <1>3, <3>1, Regions
  <2>2. MapKuseg(a.off).dev = MapAddr(a).dev /\ MapKuseg(b.off).dev = MapAddr(a).dev
        /\ MapKuseg(a.off).at = MapKuseg(b.off).at
    BY Zenon, <1>2
  <2>3. MapAddr(a).dev \in {"bios", "redux", "gpu", "scratch", "sio0", "intc"}
    BY SMT, <1>5 DEF Devices
  <2> QED  BY SMT, <2>1, <2>2, <2>3
<1> QED  BY SMT, <1>4, <1>5

-----------------------------------------------------------------------------
(* The aligned words around an address that is not aligned.                *)
LEMMA Alignment ==
  ASSUME NEW a \in Nat
  PROVE  /\ a % 4 \in Bytes /\ Base(a) \in Nat /\ a = Base(a) + (a % 4)
         /\ a % 4 = 0 => Base(a + 3) = Base(a) /\ (a + 3) % 4 = 3
         /\ a % 4 # 0 => Base(a + 3) = Base(a) + 4 /\ (a + 3) % 4 = (a % 4) - 1
  BY DEF Bytes, Base

(* LWR and LWL together load the word at any address, in either order      *)
(* (op_LWL, op_LWR).                                                       *)
THEOREM UnalignedLoads ==
  ASSUME NEW mem, NEW val, NEW a \in Nat
  PROVE  LoadsWhole(mem, a, val)
<1> DEFINE o == a % 4
           b == Base(a)
           lo == Read32(mem, b)
           hi == Read32(mem, Base(a + 3))
           p == (a + 3) % 4
<1>1. /\ o \in Bytes /\ b \in Nat /\ a = b + o
      /\ o = 0 => Base(a + 3) = b /\ p = 3
      /\ o # 0 => Base(a + 3) = b + 4 /\ p = o - 1
  BY Alignment
<1>2. \A i \in Bytes : lo[i] = mem[b + i] /\ hi[i] = mem[Base(a + 3) + i]
  BY DEF Read32
<1>3. ASSUME NEW v, NEW i \in Bytes
      PROVE  /\ Lwr(mem, a, v)[i] = IF i + o <= 3 THEN mem[a + i] ELSE v[i]
             /\ Lwl(mem, a + 3, v)[i] = IF i + o >= 4 \/ o = 0 THEN mem[a + i] ELSE v[i]
  <2>1. Lwr(mem, a, v)[i] = IF i + o <= 3 THEN lo[i + o] ELSE v[i]
    BY DEF Lwr
  <2>2. Lwl(mem, a + 3, v)[i] = IF i + p >= 3 THEN hi[i + p - 3] ELSE v[i]
    BY DEF Lwl
  <2>3. i + o <= 3 => lo[i + o] = mem[a + i]
    <3>1. i + o <= 3 => i + o \in Bytes /\ b + (i + o) = a + i
      BY <1>1 DEF Bytes
    <3> QED  BY <3>1, <1>2
  <2>4. i + p >= 3 => hi[i + p - 3] = mem[a + i]
    <3>1. i + p >= 3 => i + p - 3 \in Bytes /\ Base(a + 3) + (i + p - 3) = a + i
      BY <1>1 DEF Bytes
    <3> HIDE DEF hi, p
    <3> QED  BY <3>1, <1>2
  <2>5. i + p >= 3 <=> i + o >= 4 \/ o = 0
    BY <1>1 DEF Bytes
  <2> QED  BY <2>1, <2>2, <2>3, <2>4, <2>5
<1>4. /\ Lwl(mem, a + 3, Lwr(mem, a, val)) = [i \in Bytes |-> Lwl(mem, a + 3, Lwr(mem, a, val))[i]]
      /\ Lwr(mem, a, Lwl(mem, a + 3, val)) = [i \in Bytes |-> Lwr(mem, a, Lwl(mem, a + 3, val))[i]]
  BY DEF Lwl, Lwr
<1>5. ASSUME NEW i \in Bytes
      PROVE  /\ Lwl(mem, a + 3, Lwr(mem, a, val))[i] = mem[a + i]
             /\ Lwr(mem, a, Lwl(mem, a + 3, val))[i] = mem[a + i]
  <2>1. i + o <= 3 \/ i + o >= 4
    BY <1>1 DEF Bytes
  <2> HIDE DEF o
  <2> QED  BY <2>1, <1>3
<1> QED  BY <1>4, <1>5 DEF LoadsWhole, Read32

(* What a store leaves in each byte.                                       *)
LEMMA Written ==
  ASSUME NEW mem, NEW w, NEW a \in Nat, NEW d \in DOMAIN mem, d \in Int
  PROVE  /\ DOMAIN Write32(mem, a, w) = DOMAIN mem
         /\ Write32(mem, a, w)[d] = IF d >= a /\ d <= a + 3 THEN w[d - a] ELSE mem[d]
<1>1. d \in a .. a + 3 <=> d >= a /\ d <= a + 3
  OBVIOUS
<1> QED  BY <1>1 DEF Write32

(* SWR and SWL together store a word at any address, in either order, and  *)
(* change no byte around it (op_SWL, op_SWR).                              *)
THEOREM UnalignedStores ==
  ASSUME NEW mem, NEW src, NEW a \in Nat, DOMAIN mem = Nat
  PROVE  StoresWhole(mem, a, src)
<1> DEFINE o == a % 4
           b == Base(a)
           p == (a + 3) % 4
           c == Base(a + 3)
<1>1. /\ o \in Bytes /\ b \in Nat /\ a = b + o /\ c \in Nat
      /\ o = 0 => c = b /\ p = 3
      /\ o # 0 => c = b + 4 /\ p = o - 1
  <2>1. a + 3 \in Nat
    OBVIOUS
  <2> QED  BY <2>1, Alignment
<1>2. ASSUME NEW n, DOMAIN n = Nat, NEW d \in Nat
      PROVE  /\ DOMAIN Swr(n, a, src) = Nat /\ DOMAIN Swl(n, a + 3, src) = Nat
             /\ Swr(n, a, src)[d] = IF d >= a /\ d <= b + 3 THEN src[d - a] ELSE n[d]
             /\ Swl(n, a + 3, src)[d] = IF d >= c /\ d <= a + 3 THEN src[d - a] ELSE n[d]
  <2> DEFINE r == [i \in Bytes |-> IF i >= o THEN src[i - o] ELSE Read32(n, b)[i]]
             l == [i \in Bytes |-> IF i <= p THEN src[i + (3 - p)] ELSE Read32(n, c)[i]]
  <2>1. Swr(n, a, src) = Write32(n, b, r) /\ Swl(n, a + 3, src) = Write32(n, c, l)
    BY Zenon DEF Swr, Swl
  <2>2. \A i \in Bytes : Read32(n, b)[i] = n[b + i] /\ Read32(n, c)[i] = n[c + i]
    BY DEF Read32
  <2>3. d >= b /\ d <= b + 3 =>
          /\ d - b \in Bytes /\ b + (d - b) = d
          /\ d - b >= o <=> d >= a
          /\ (d - b) - o = d - a
    BY <1>1 DEF Bytes
  <2>4. d >= c /\ d <= c + 3 =>
          /\ d - c \in Bytes /\ c + (d - c) = d
          /\ d - c <= p <=> d <= a + 3
          /\ d - c <= p => (d - c) + (3 - p) = d - a
    BY <1>1 DEF Bytes
  <2>5. d >= b /\ d <= b + 3 => r[d - b] = IF d >= a THEN src[d - a] ELSE n[d]
    <3> HIDE DEF b, o
    <3> QED  BY <2>2, <2>3
  <2>6. d >= c /\ d <= c + 3 => l[d - c] = IF d <= a + 3 THEN src[d - a] ELSE n[d]
    <3> HIDE DEF c, p
    <3> QED  BY <2>2, <2>4
  <2>7. /\ DOMAIN Write32(n, b, r) = Nat /\ DOMAIN Write32(n, c, l) = Nat
        /\ Write32(n, b, r)[d] = IF d >= b /\ d <= b + 3 THEN r[d - b] ELSE n[d]
        /\ Write32(n, c, l)[d] = IF d >= c /\ d <= c + 3 THEN l[d - c] ELSE n[d]
    <3> HIDE DEF b, c, r, l
    <3> QED  BY <1>1, <1>2, Written
  <2>8. (d >= a => d >= b) /\ (d <= a + 3 => d <= c + 3)
    BY <1>1 DEF Bytes
  <2> HIDE DEF b, c, r, l
  <2> QED  BY <1>1, <2>1, <2>5, <2>6, <2>7, <2>8
<1>3. \A n : DOMAIN Write32(n, a, src) = DOMAIN n
  BY DEF Write32
<1>4. ASSUME NEW d \in Nat
      PROVE  /\ Swl(Swr(mem, a, src), a + 3, src)[d] = Write32(mem, a, src)[d]
             /\ Swr(Swl(mem, a + 3, src), a, src)[d] = Write32(mem, a, src)[d]
  <2>1. Write32(mem, a, src)[d] = IF d >= a /\ d <= a + 3 THEN src[d - a] ELSE mem[d]
    BY Written
  <2>2. DOMAIN Swr(mem, a, src) = Nat /\ DOMAIN Swl(mem, a + 3, src) = Nat
    BY <1>2
  <2>3. /\ Swl(Swr(mem, a, src), a + 3, src)[d] =
             IF d >= c /\ d <= a + 3 THEN src[d - a] ELSE Swr(mem, a, src)[d]
        /\ Swr(Swl(mem, a + 3, src), a, src)[d] =
             IF d >= a /\ d <= b + 3 THEN src[d - a] ELSE Swl(mem, a + 3, src)[d]
        /\ Swr(mem, a, src)[d] = IF d >= a /\ d <= b + 3 THEN src[d - a] ELSE mem[d]
        /\ Swl(mem, a + 3, src)[d] = IF d >= c /\ d <= a + 3 THEN src[d - a] ELSE mem[d]
    <3> HIDE DEF b, c
    <3> QED  BY <1>2, <2>2
  <2>4. d >= a /\ d <= a + 3 <=> (d >= a /\ d <= b + 3) \/ (d >= c /\ d <= a + 3)
    BY <1>1 DEF Bytes
  <2> HIDE DEF b, c
  <2> QED  BY <2>1, <2>3, <2>4
<1>5. /\ \A d \in Nat : /\ Swl(Swr(mem, a, src), a + 3, src)[d] = Write32(mem, a, src)[d]
                       /\ Swr(Swl(mem, a + 3, src), a, src)[d] = Write32(mem, a, src)[d]
      /\ DOMAIN Write32(mem, a, src) = Nat
      /\ DOMAIN Swl(Swr(mem, a, src), a + 3, src) = Nat
      /\ DOMAIN Swr(Swl(mem, a + 3, src), a, src) = Nat
  BY <1>2, <1>3, <1>4
<1>6. ASSUME NEW f, NEW v, NEW w
      PROVE  Write32(f, v, w) = [d \in DOMAIN Write32(f, v, w) |-> Write32(f, v, w)[d]]
  BY DEF Write32
<1>7. /\ \E n, v, w : Swl(Swr(mem, a, src), a + 3, src) = Write32(n, v, w)
      /\ \E n, v, w : Swr(Swl(mem, a + 3, src), a, src) = Write32(n, v, w)
  BY Zenon DEF Swl, Swr
<1>8. ASSUME NEW f, NEW g, \E n, v, w : f = Write32(n, v, w), \E n, v, w : g = Write32(n, v, w),
             DOMAIN f = Nat, DOMAIN g = Nat, \A d \in Nat : f[d] = g[d]
      PROVE  f = g
  <2>1. f = [d \in Nat |-> f[d]] /\ g = [d \in Nat |-> g[d]]
    BY <1>6, <1>8
  <2> QED  BY <1>8, <2>1
<1> QED  BY <1>5, <1>7, <1>8 DEF StoresWhole

(* ADD, ADDI and SUB trap exactly when the result has no 32-bit            *)
(* representation (add_overflows, sub_overflows).                          *)
THEOREM OverflowTraps ==
  ASSUME NEW a \in Nat, NEW b \in Nat, a < 4294967296, b < 4294967296
  PROVE  TrapsIfTooBig(4294967296, a, b)
<1>1. AddOverflows(4294967296, a, b) <=>
        ~Fits(4294967296, AsSigned(4294967296, a) + AsSigned(4294967296, b))
  BY SMT DEF AddOverflows, Fits, AsSigned, IsNegative
<1>2. SubOverflows(4294967296, a, b) <=>
        ~Fits(4294967296, AsSigned(4294967296, a) - AsSigned(4294967296, b))
  BY SMT DEF SubOverflows, Fits, AsSigned, IsNegative
<1> QED  BY SMT, <1>1, <1>2 DEF TrapsIfTooBig

-----------------------------------------------------------------------------
(* The debug core.  What a step leaves in the machine, and what is known   *)
(* of it: an address the bus has noted is one an instruction, a command or *)
(* a fetch has used.                                                       *)
Used == Pcs \cup Targets \cup {Program[pc].load : pc \in Pcs}
            \cup {Program[pc].store : pc \in Pcs} \cup {None}
Machines == [pc : Pcs, rem_halt : 0 .. UnitTime, unit : 0 .. UnitTime, sideload : BOOLEAN,
             read_addr : Used, write_addr : Used]
Steps == [pc : Pcs \cup {None}, sided : BOOLEAN, idle : BOOLEAN, moved : BOOLEAN]

(* A machine halts for no other reason than that it waits for its unit.    *)
Halted(m) == m \in Machines /\ m.rem_halt \in {0, m.unit}

(* The invariant.  The types; a step that executed nothing has left the    *)
(* machine halted for as long as its unit runs; and a run that has gone    *)
(* past its first instruction and goes on does not stand at a breakpoint.  *)
PointsOK ==
  m_breakpts \subseteq Breaks /\ m_read_watchpts \subseteq Watches /\ m_write_watchpts \subseteq Watches
LastOK ==
  /\ last \in Steps
  /\ last.idle => machine.rem_halt = machine.unit
  /\ last.moved => doing \in {"cont", "disable"}
  /\ last.moved /\ doing = "cont" => machine.pc \notin m_breakpts
ThreadOK ==
  /\ console \in {"script", "prompt", "ended", "dead"}
  /\ doing \in {"line", "cont", "disable", "serve", "accept", "blocked", "session"}
  /\ m_enabled = (doing # "line") /\ (m_pending => m_enabled)
  /\ cnt \in 0 .. PollEvery - 1
  /\ window \in BOOLEAN
DebugInv == ThreadOK /\ Halted(machine) /\ PointsOK /\ LastOK

LEMMA NoneIsUsed == None \in Used /\ Pcs \subseteq Used /\ Targets \subseteq Used
                    /\ \A pc \in Pcs : Program[pc].load \in Used /\ Program[pc].store \in Used
BY DEF Used

LEMMA NoneIsNoAddress == ~IsAddress(None)
BY SMT DEF None, IsAddress

LEMMA NotAskedFor == None \notin Pcs /\ None \notin Breaks /\ None \notin Watches
BY NoneIsNoAddress, ProgramAssumption

LEMMA ProgramFacts ==
  /\ ResetPc \in Pcs /\ SideloadPc \in Pcs /\ StartPc \in Pcs /\ Vector \in Pcs
  /\ UnitTime \in Nat /\ UnitTime > 0 /\ PollEvery \in Nat /\ PollEvery > 0
  /\ \A pc \in Pcs : Program[pc].next \subseteq Pcs
BY ProgramAssumption

LEMMA NoStepFacts ==
  /\ NoStep \in Steps /\ NoStep.pc = None
  /\ ~NoStep.sided /\ ~NoStep.idle /\ ~NoStep.moved
BY SMT DEF NoStep, Steps

LEMMA BetweenFacts ==
  ASSUME NEW did \in Steps
  PROVE  /\ Between(did) \in Steps /\ ~Between(did).moved
         /\ Between(did).idle <=> did.idle
BY SMT, NoStepFacts DEF Between, Steps

(* A machine with one of its parts replaced is a machine.                  *)
LEMMA With ==
  ASSUME NEW m \in Machines
  PROVE  /\ \A pc \in Pcs : [m EXCEPT !.pc = pc] \in Machines
         /\ \A n \in 0 .. UnitTime :
              [m EXCEPT !.unit = n] \in Machines /\ [m EXCEPT !.rem_halt = n] \in Machines
         /\ \A on \in BOOLEAN : [m EXCEPT !.sideload = on] \in Machines
         /\ \A a \in Used :
              [m EXCEPT !.read_addr = a] \in Machines /\ [m EXCEPT !.write_addr = a] \in Machines
<1>1. \A pc \in Pcs : [m EXCEPT !.pc = pc] \in Machines
  BY SMT DEF Machines
<1>2. \A n \in 0 .. UnitTime :
        [m EXCEPT !.unit = n] \in Machines /\ [m EXCEPT !.rem_halt = n] \in Machines
  BY SMT DEF Machines
<1>3. \A on \in BOOLEAN : [m EXCEPT !.sideload = on] \in Machines
  BY SMT DEF Machines
<1>4. \A a \in Used :
        [m EXCEPT !.read_addr = a] \in Machines /\ [m EXCEPT !.write_addr = a] \in Machines
  BY SMT DEF Machines
<1> QED  BY <1>1, <1>2, <1>3, <1>4

LEMMA MachineFacts ==
  ASSUME NEW m \in Machines
  PROVE  /\ m.pc \in Pcs /\ m.rem_halt \in 0 .. UnitTime /\ m.unit \in 0 .. UnitTime
         /\ m.read_addr \in Used /\ m.write_addr \in Used
BY SMT DEF Machines

(* BasicDebug::step burns the halt cycles before it ticks: of a unit the   *)
(* machine waited for nothing is left.                                     *)
LEMMA BurnedFacts ==
  ASSUME NEW m, Halted(m)
  PROVE  /\ Burned(m) \in Machines /\ Burned(m).rem_halt = 0
         /\ m.rem_halt = m.unit => Burned(m).unit = 0
         /\ Burned(m).pc = m.pc
<1> DEFINE left == IF m.unit > m.rem_halt THEN m.unit - m.rem_halt ELSE 0
           idle == [m EXCEPT !.rem_halt = 0]
<1>1. m \in Machines /\ m.rem_halt \in {0, m.unit} /\ m.unit \in 0 .. UnitTime
  BY MachineFacts DEF Halted
<1>2. left \in 0 .. UnitTime /\ (m.rem_halt = m.unit => left = 0) /\ 0 \in 0 .. UnitTime
  BY SMT, <1>1, ProgramFacts
<1>3. Burned(m) = [m EXCEPT !.rem_halt = 0, !.unit = left]
  BY Zenon DEF Burned
<1> HIDE DEF left
<1>4. /\ [m EXCEPT !.rem_halt = 0, !.unit = left] = [idle EXCEPT !.unit = left]
      /\ [m EXCEPT !.rem_halt = 0, !.unit = left].rem_halt = 0
      /\ [m EXCEPT !.rem_halt = 0, !.unit = left].unit = left
      /\ [m EXCEPT !.rem_halt = 0, !.unit = left].pc = m.pc
  BY SMT, <1>1 DEF Machines
<1>5. [idle EXCEPT !.unit = left] \in Machines
  BY Zenon, <1>1, <1>2, With
<1> QED  BY Zenon, <1>2, <1>3, <1>4, <1>5

LEMMA SideloadedFacts ==
  ASSUME NEW m \in Machines
  PROVE  /\ Sideloaded(m) \in Machines
         /\ Sideloaded(m).rem_halt = m.rem_halt /\ Sideloaded(m).unit = m.unit
         /\ ~Sideloads(m) => Sideloaded(m).pc = m.pc
<1> DEFINE there == [m EXCEPT !.pc = StartPc]
<1>1. \A on \in BOOLEAN :
        /\ [m EXCEPT !.pc = StartPc, !.sideload = on] = [there EXCEPT !.sideload = on]
        /\ [m EXCEPT !.pc = StartPc, !.sideload = on].rem_halt = m.rem_halt
        /\ [m EXCEPT !.pc = StartPc, !.sideload = on].unit = m.unit
  BY SMT DEF Machines
<1>2. [there EXCEPT !.sideload = FALSE] \in Machines
  BY Zenon, With, ProgramFacts
<1> QED  BY Zenon, <1>1, <1>2 DEF Sideloaded

(* The ways of a tick that does not halt: an interrupt; a fetch that is    *)
(* refused; an instruction that waits, whose access is refused, or that is *)
(* executed.                                                               *)
UnitRuns(m) == [m EXCEPT !.unit = IF @ > 0 THEN @ - 1 ELSE 0]
Fetched(m) == [UnitRuns(m) EXCEPT !.read_addr = UnitRuns(m).pc]
Executed(m) ==
  LET i == Program[UnitRuns(m).pc] IN
  [Fetched(m) EXCEPT !.read_addr = IF i.load = None THEN @ ELSE i.load,
                     !.write_addr = IF i.store = None THEN @ ELSE i.store,
                     !.unit = IF i.starts THEN UnitTime ELSE @]
LEMMA TickedCases ==
  ASSUME NEW m0, NEW sided, NEW o \in Ticked(m0, sided), ~(UnitRuns(m0).rem_halt > 0)
  PROVE  \/ o = Outcome([UnitRuns(m0) EXCEPT !.pc = Vector], "ok", NoStep)
         \/ o = Outcome(UnitRuns(m0), "panic", NoStep)
         \/ /\ UnitRuns(m0).unit > 0
            /\ o = Outcome([Fetched(m0) EXCEPT !.rem_halt = UnitRuns(m0).unit], "ok",
                           [NoStep EXCEPT !.idle = TRUE])
         \/ o = Outcome(Fetched(m0), "panic", NoStep)
         \/ o = Outcome([Fetched(m0) EXCEPT !.write_addr = Program[UnitRuns(m0).pc].store],
                        "panic", NoStep)
         \/ \E n \in Program[UnitRuns(m0).pc].next :
              o = Outcome([Executed(m0) EXCEPT !.pc = n], "ok",
                          [NoStep EXCEPT !.pc = UnitRuns(m0).pc, !.sided = sided])
BY Zenon DEF Ticked, UnitRuns, Fetched, Executed

LEMMA UnitFacts ==
  ASSUME NEW m \in Machines, m.rem_halt = 0
  PROVE  /\ UnitRuns(m) \in Machines /\ Fetched(m) \in Machines
         /\ UnitRuns(m).rem_halt = 0 /\ UnitRuns(m).pc = m.pc /\ UnitRuns(m).unit <= m.unit
         /\ Fetched(m).rem_halt = 0 /\ Fetched(m).unit = UnitRuns(m).unit
<1> DEFINE left == IF m.unit > 0 THEN m.unit - 1 ELSE 0
<1>1. left \in 0 .. UnitTime /\ left <= m.unit
  BY SMT, MachineFacts, ProgramFacts
<1>2. UnitRuns(m) = [m EXCEPT !.unit = left]
  BY Zenon DEF UnitRuns
<1> HIDE DEF left
<1>3. UnitRuns(m) \in Machines
  BY Zenon, <1>1, <1>2, With
<1>4. UnitRuns(m).rem_halt = 0 /\ UnitRuns(m).pc = m.pc /\ UnitRuns(m).unit = left
  BY SMT, <1>2 DEF Machines
<1>5. Fetched(m) \in Machines
  BY Zenon, <1>3, With, MachineFacts, NoneIsUsed DEF Fetched
<1>6. Fetched(m).rem_halt = UnitRuns(m).rem_halt /\ Fetched(m).unit = UnitRuns(m).unit
  BY SMT, <1>3 DEF Fetched, Machines
<1> QED  BY <1>1, <1>3, <1>4, <1>5, <1>6

LEMMA ExecutedFacts ==
  ASSUME NEW m \in Machines, m.rem_halt = 0
  PROVE  LET i == Program[m.pc] IN
         /\ Executed(m) \in Machines /\ Executed(m).rem_halt = 0
         /\ i.load # None => Executed(m).read_addr = i.load
         /\ i.store # None => Executed(m).write_addr = i.store
<1> DEFINE i == Program[m.pc]
           f == Fetched(m)
           ra == IF i.load = None THEN f.read_addr ELSE i.load
           wa == IF i.store = None THEN f.write_addr ELSE i.store
           u == IF i.starts THEN UnitTime ELSE f.unit
           one == [f EXCEPT !.read_addr = ra]
           two == [one EXCEPT !.write_addr = wa]
<1>1. f \in Machines /\ f.rem_halt = 0 /\ UnitRuns(m).pc = m.pc
  BY UnitFacts
<1>2. Executed(m) = [f EXCEPT !.read_addr = ra, !.write_addr = wa, !.unit = u]
  BY Zenon, <1>1 DEF Executed
<1>3. ra \in Used /\ wa \in Used /\ u \in 0 .. UnitTime
  <2>1. UnitTime \in 0 .. UnitTime
    BY SMT, ProgramFacts
  <2> QED  BY Zenon, <1>1, <2>1, MachineFacts, NoneIsUsed
<1>4. (i.load # None => ra = i.load) /\ (i.store # None => wa = i.store)
  OBVIOUS
<1> HIDE DEF ra, wa, u, f
<1>5. /\ [f EXCEPT !.read_addr = ra, !.write_addr = wa, !.unit = u] = [two EXCEPT !.unit = u]
      /\ [f EXCEPT !.read_addr = ra, !.write_addr = wa, !.unit = u].rem_halt = f.rem_halt
      /\ [f EXCEPT !.read_addr = ra, !.write_addr = wa, !.unit = u].read_addr = ra
      /\ [f EXCEPT !.read_addr = ra, !.write_addr = wa, !.unit = u].write_addr = wa
  BY SMT, <1>1 DEF Machines
<1>6. one \in Machines
  BY Zenon, <1>1, <1>3, With
<1>7. two \in Machines
  BY Zenon, <1>6, <1>3, With
<1>8. [two EXCEPT !.unit = u] \in Machines
  BY Zenon, <1>7, <1>3, With
<1> QED  BY Zenon, <1>1, <1>2, <1>4, <1>5, <1>8

(* What a step promises: it leaves a machine that halts only for its unit; *)
(* it waits only if the unit was still running, and halts the machine for  *)
(* as long; and the accesses of the instruction it has executed are those  *)
(* the bus has noted.                                                      *)
Promised(m, sided, o) ==
  /\ Halted(o.m) /\ o.did \in Steps /\ ~o.did.moved
  /\ o.did.idle => o.m.rem_halt = o.m.unit /\ m.unit > 0
  /\ o.did.pc # None =>
       LET i == Program[o.did.pc] IN
       /\ o.out = "ok" /\ o.did.pc = m.pc /\ (o.did.sided <=> sided)
       /\ i.load # None => o.m.read_addr = i.load
       /\ i.store # None => o.m.write_addr = i.store

LEMMA Quiet ==                              \* a tick that executes nothing and does not wait
  ASSUME NEW m, NEW sided, NEW n \in Machines, n.rem_halt = 0, NEW out, NEW o,
         o = Outcome(n, out, NoStep)
  PROVE  Promised(m, sided, o)
<1>1. o.m = n /\ o.did = NoStep
  BY SMT DEF Outcome
<1> QED  BY Zenon, <1>1, NoStepFacts DEF Promised, Halted

LEMMA TickedFacts ==
  ASSUME NEW m \in Machines, m.rem_halt = 0, NEW sided \in BOOLEAN, NEW o \in Ticked(m, sided)
  PROVE  Promised(m, sided, o)
<1> DEFINE r == UnitRuns(m)
           f == Fetched(m)
           x == Executed(m)
           i == Program[m.pc]
<1>1. /\ r \in Machines /\ r.rem_halt = 0 /\ r.pc = m.pc /\ r.unit <= m.unit
      /\ f \in Machines /\ f.rem_halt = 0 /\ f.unit = r.unit
  BY UnitFacts
<1>2. /\ x \in Machines /\ x.rem_halt = 0
      /\ i.load # None => x.read_addr = i.load
      /\ i.store # None => x.write_addr = i.store
  BY ExecutedFacts
<1>3. m.pc \in Pcs /\ m.unit \in Int /\ r.unit \in 0 .. UnitTime
  BY SMT, <1>1, MachineFacts
<1>4. ~(r.rem_halt > 0)
  BY SMT, <1>1
<1> HIDE DEF r, f, x
<1>5. CASE o = Outcome([r EXCEPT !.pc = Vector], "ok", NoStep)
  <2>1. [r EXCEPT !.pc = Vector] \in Machines
    BY Zenon, <1>1, With, ProgramFacts
  <2>2. [r EXCEPT !.pc = Vector].rem_halt = 0
    BY SMT, <1>1 DEF Machines
  <2> QED  BY Zenon, <1>5, <2>1, <2>2, Quiet
<1>6. CASE o = Outcome(r, "panic", NoStep)
  BY Zenon, <1>6, <1>1, Quiet
<1>7. CASE r.unit > 0 /\ o = Outcome([f EXCEPT !.rem_halt = r.unit], "ok",
                                     [NoStep EXCEPT !.idle = TRUE])
  <2>1. [f EXCEPT !.rem_halt = r.unit] \in Machines
    BY Zenon, <1>1, <1>3, With
  <2>2. /\ [f EXCEPT !.rem_halt = r.unit].rem_halt = r.unit
        /\ [f EXCEPT !.rem_halt = r.unit].unit = r.unit
    BY SMT, <1>1 DEF Machines
  <2>3. m.unit > 0
    BY SMT, <1>1, <1>3, <1>7
  <2>4. \A on \in BOOLEAN : /\ [NoStep EXCEPT !.idle = on] \in Steps
                            /\ ~[NoStep EXCEPT !.idle = on].moved
                            /\ [NoStep EXCEPT !.idle = on].pc = None
    BY SMT, NoStepFacts DEF Steps
  <2> DEFINE did == [NoStep EXCEPT !.idle = TRUE]
  <2> HIDE DEF did
  <2>5. o = Outcome([f EXCEPT !.rem_halt = r.unit], "ok", did)
    BY Zenon, <1>7 DEF did
  <2>6. o.m = [f EXCEPT !.rem_halt = r.unit] /\ o.did = did
    BY SMT, <2>5 DEF Outcome
  <2> QED  BY Zenon, <2>1, <2>2, <2>3, <2>4, <2>6 DEF Promised, Halted, did
<1>8. CASE o = Outcome(f, "panic", NoStep)
  BY Zenon, <1>8, <1>1, Quiet
<1>9. CASE o = Outcome([f EXCEPT !.write_addr = Program[r.pc].store], "panic", NoStep)
  <2>1. [f EXCEPT !.write_addr = i.store] \in Machines
    BY Zenon, <1>1, <1>3, NoneIsUsed, With
  <2>2. [f EXCEPT !.write_addr = i.store].rem_halt = 0
    BY SMT, <1>1 DEF Machines
  <2> QED  BY Zenon, <1>9, <1>1, <2>1, <2>2, Quiet
<1>10. CASE \E n \in Program[r.pc].next :
              o = Outcome([x EXCEPT !.pc = n], "ok", [NoStep EXCEPT !.pc = r.pc, !.sided = sided])
  <2>1. PICK n \in i.next :
          o = Outcome([x EXCEPT !.pc = n], "ok", [NoStep EXCEPT !.pc = m.pc, !.sided = sided])
    BY <1>10, <1>1
  <2> DEFINE did == [NoStep EXCEPT !.pc = m.pc, !.sided = sided]
  <2>2. [x EXCEPT !.pc = n] \in Machines
    <3>1. n \in Pcs
      BY Zenon, <2>1, <1>3, ProgramFacts
    <3> QED  BY Zenon, <3>1, <1>2, With
  <2>3. /\ [x EXCEPT !.pc = n].rem_halt = 0
        /\ [x EXCEPT !.pc = n].read_addr = x.read_addr
        /\ [x EXCEPT !.pc = n].write_addr = x.write_addr
    BY SMT, <1>2 DEF Machines
  <2>4. [NoStep EXCEPT !.pc = m.pc] \in Steps
    BY SMT, NoStepFacts, <1>3 DEF Steps
  <2>5. did \in Steps
    <3>1. did = [[NoStep EXCEPT !.pc = m.pc] EXCEPT !.sided = sided]
      BY SMT, NoStepFacts DEF Steps
    <3>2. \A s \in Steps : [s EXCEPT !.sided = sided] \in Steps
      BY SMT DEF Steps
    <3> QED  BY Zenon, <3>1, <3>2, <2>4
  <2>6. did.pc = m.pc /\ (did.sided <=> sided) /\ ~did.idle /\ ~did.moved
    BY SMT, NoStepFacts DEF Steps
  <2> HIDE DEF did
  <2>7. o.m = [x EXCEPT !.pc = n] /\ o.did = did /\ o.out = "ok"
    <3>1. o = Outcome([x EXCEPT !.pc = n], "ok", did)
      BY Zenon, <2>1 DEF did
    <3> QED  BY SMT, <3>1 DEF Outcome
  <2> QED  BY Zenon, <1>2, <2>2, <2>3, <2>5, <2>6, <2>7 DEF Promised, Halted
<1> QED  BY Zenon, <1>4, <1>5, <1>6, <1>7, <1>8, <1>9, <1>10, TickedCases DEF r, f, x

(* A whole step: after one that had to wait it does not wait again, and it *)
(* executes the instruction at the PC unless it puts an executable in      *)
(* place first.                                                            *)
LEMMA SteppedFacts ==
  ASSUME NEW m, Halted(m), NEW o \in Stepped(m)
  PROVE  /\ Halted(o.m) /\ o.did \in Steps /\ ~o.did.moved
         /\ o.did.idle => o.m.rem_halt = o.m.unit /\ m.rem_halt # m.unit
         /\ o.did.pc # None =>
              LET i == Program[o.did.pc] IN
              /\ o.out = "ok" /\ (o.did.pc = m.pc \/ o.did.sided)
              /\ i.load # None => o.m.read_addr = i.load
              /\ i.store # None => o.m.write_addr = i.store
<1> DEFINE b == Burned(m)
           s == Sideloaded(b)
<1>1. /\ b \in Machines /\ b.rem_halt = 0 /\ b.pc = m.pc
      /\ m.rem_halt = m.unit => b.unit = 0
  BY BurnedFacts
<1> HIDE DEF b
<1>2. /\ s \in Machines /\ s.rem_halt = 0 /\ s.unit = b.unit
      /\ ~Sideloads(b) => s.pc = m.pc
  BY <1>1, SideloadedFacts
<1> HIDE DEF s
<1>3. Sideloads(b) \in BOOLEAN
  BY SMT, <1>1 DEF Sideloads, Machines
<1>4. o \in Ticked(s, Sideloads(b))
  BY Zenon DEF Stepped, s, b
<1>5. Promised(s, Sideloads(b), o)
  BY Zenon, <1>2, <1>3, <1>4, TickedFacts
<1>6. s.unit > 0 => m.rem_halt # m.unit
  BY SMT, <1>1, <1>2
<1> QED  BY Zenon, <1>2, <1>5, <1>6 DEF Promised

-----------------------------------------------------------------------------
LEMMA HaltedWith ==
  ASSUME NEW m, Halted(m)
  PROVE  /\ \A pc \in Pcs : LET n == [m EXCEPT !.pc = pc] IN
              Halted(n) /\ n.rem_halt = m.rem_halt /\ n.unit = m.unit
         /\ \A on \in BOOLEAN : LET n == [m EXCEPT !.sideload = on] IN
              Halted(n) /\ n.rem_halt = m.rem_halt /\ n.unit = m.unit
         /\ \A a \in Used : LET n == [m EXCEPT !.read_addr = a] IN
              Halted(n) /\ n.rem_halt = m.rem_halt /\ n.unit = m.unit
         /\ \A a \in Used : LET n == [m EXCEPT !.write_addr = a] IN
              Halted(n) /\ n.rem_halt = m.rem_halt /\ n.unit = m.unit
         /\ \A a, b \in Used : LET n == [m EXCEPT !.read_addr = a, !.write_addr = b] IN
              Halted(n) /\ n.rem_halt = m.rem_halt /\ n.unit = m.unit /\ n.pc = m.pc
<1>1. m \in Machines /\ m.rem_halt \in {0, m.unit}
  BY DEF Halted
<1>2. \A pc \in Pcs : LET n == [m EXCEPT !.pc = pc] IN
        n.rem_halt = m.rem_halt /\ n.unit = m.unit
  BY SMT, <1>1 DEF Machines
<1>3. \A on \in BOOLEAN : LET n == [m EXCEPT !.sideload = on] IN
        n.rem_halt = m.rem_halt /\ n.unit = m.unit
  BY SMT, <1>1 DEF Machines
<1>4. \A a \in Used : LET n == [m EXCEPT !.read_addr = a] IN
        n.rem_halt = m.rem_halt /\ n.unit = m.unit
  BY SMT, <1>1 DEF Machines
<1>5. \A a \in Used : LET n == [m EXCEPT !.write_addr = a] IN
        n.rem_halt = m.rem_halt /\ n.unit = m.unit
  BY SMT, <1>1 DEF Machines
<1>6. \A a, b \in Used : LET n == [m EXCEPT !.read_addr = a, !.write_addr = b] IN
        /\ n.rem_halt = m.rem_halt /\ n.unit = m.unit /\ n.pc = m.pc
        /\ n = [[m EXCEPT !.read_addr = a] EXCEPT !.write_addr = b]
  BY SMT, <1>1 DEF Machines
<1>7. \A a, b \in Used : [m EXCEPT !.read_addr = a, !.write_addr = b] \in Machines
  BY Zenon, <1>1, <1>6, With
<1> QED  BY Zenon, <1>1, <1>2, <1>3, <1>4, <1>5, <1>6, <1>7, With DEF Halted

(* What cont forgets of the accesses changes nothing else of the machine.  *)
LEMMA LookedFacts ==
  ASSUME NEW m, Halted(m)
  PROVE  /\ Halted(Looked(m)) /\ Looked(m).pc = m.pc
         /\ Looked(m).rem_halt = m.rem_halt /\ Looked(m).unit = m.unit
<1> DEFINE a == IF HitsBreakpoint(m) THEN m.read_addr ELSE None
           b == IF HitsBreakpoint(m) \/ HitsRead(m) THEN m.write_addr ELSE None
<1>1. a \in Used /\ b \in Used
  BY Zenon, MachineFacts, NoneIsUsed DEF Halted
<1>2. Looked(m) = [m EXCEPT !.read_addr = a, !.write_addr = b]
  BY Zenon DEF Looked
<1> HIDE DEF a, b
<1>3. LET n == [m EXCEPT !.read_addr = a, !.write_addr = b] IN
        Halted(n) /\ n.rem_halt = m.rem_halt /\ n.unit = m.unit /\ n.pc = m.pc
  BY <1>1, HaltedWith
<1> QED  BY Zenon, <1>2, <1>3

LEMMA InvTypes == DebugInv => DebugTypeOK
BY MachineFacts DEF DebugInv, ThreadOK, Halted, DebugTypeOK

LEMMA InitInv == Init => DebugInv
<1> SUFFICES ASSUME Init PROVE DebugInv
  OBVIOUS
<1>1. Halted(machine)
  BY SMT, ProgramFacts, NoneIsUsed DEF Init, Halted, Machines
<1>2. ThreadOK
  <2>1. cnt \in 0 .. PollEvery - 1
    BY SMT, ProgramFacts DEF Init
  <2> QED  BY <2>1 DEF Init, ThreadOK
<1>3. PointsOK
  BY DEF Init, PointsOK
<1>4. LastOK
  BY Zenon, NoStepFacts DEF Init, LastOK
<1> QED  BY <1>1, <1>2, <1>3, <1>4 DEF DebugInv

LEMMA CountedFacts == ASSUME NEW n \in Nat PROVE (n + 1) % PollEvery \in 0 .. PollEvery - 1
BY SMT, ProgramFacts

(* Commands that touch the machine but let it execute nothing.             *)
LEMMA MachineCommands ==
  ASSUME DebugInv,
         \/ \E a \in Pcs : SetPc(a)
         \/ \E a \in Targets : Examine(a) \/ MemWrite(a)
         \/ \E on \in BOOLEAN : Sideload(on)
  PROVE  DebugInv'
<1>1. /\ Halted(machine') /\ machine'.rem_halt = machine.rem_halt
      /\ machine'.unit = machine.unit
  <2> DEFINE Same(n) == Halted(n) /\ n.rem_halt = machine.rem_halt /\ n.unit = machine.unit
  <2>1. /\ Same(machine) /\ Targets \subseteq Used
        /\ \A a \in Pcs : Same([machine EXCEPT !.pc = a])
        /\ \A on \in BOOLEAN : Same([machine EXCEPT !.sideload = on])
        /\ \A a \in Used : Same([machine EXCEPT !.read_addr = a])
        /\ \A a \in Used : Same([machine EXCEPT !.write_addr = a])
    BY HaltedWith, NoneIsUsed DEF DebugInv
  <2> HIDE DEF Same
  <2>2. Same(machine')
    BY <2>1 DEF SetPc, Examine, MemWrite, Sideload
  <2> QED  BY <2>2 DEF Same
<1>2. /\ doing = "line" /\ doing' = "line" /\ last' = last /\ points' = points
      /\ signals' = signals /\ cnt' = cnt /\ window' = window
      /\ console' \in {console, "dead"}
  BY Zenon DEF SetPc, Examine, MemWrite, Sideload, AtLine, Lives
<1>3. ThreadOK'
  BY Zenon, <1>2 DEF DebugInv, ThreadOK, signals
<1>4. PointsOK'
  BY Zenon, <1>2 DEF DebugInv, PointsOK, points
<1>5. LastOK'
  BY Zenon, <1>1, <1>2 DEF DebugInv, LastOK
<1> QED  BY Zenon, <1>1, <1>3, <1>4, <1>5 DEF DebugInv, Halted

(* Commands that set and remove points.                                    *)
LEMMA PointCommands ==
  ASSUME DebugInv,
         \/ \E a \in Breaks : BreakpointSet(a) \/ BreakpointRemove(a)
         \/ \E a \in Watches :
              WatchpointSetRead(a) \/ WatchpointSetWrite(a) \/ WatchpointRemove(a)
  PROVE  DebugInv'
<1>1. /\ machine' = machine /\ last' = last /\ console' = console
      /\ signals' = signals /\ cnt' = cnt /\ window' = window
      /\ doing \in {"line", "session"} /\ doing' = doing
  BY Zenon DEF BreakpointSet, BreakpointRemove, WatchpointSetRead, WatchpointSetWrite,
               WatchpointRemove, AtLine, AtCommand
<1>2. PointsOK'
  BY SMT DEF DebugInv, PointsOK, BreakpointSet, BreakpointRemove, WatchpointSetRead,
             WatchpointSetWrite, WatchpointRemove
<1>3. ThreadOK'
  BY Zenon, <1>1 DEF DebugInv, ThreadOK, signals
<1>4. doing # "cont" /\ doing # "disable"
  BY <1>1
<1>5. LastOK'
  BY Zenon, <1>1, <1>4 DEF DebugInv, LastOK
<1>6. Halted(machine')
  BY Zenon, <1>1 DEF DebugInv
<1> QED  BY Zenon, <1>2, <1>3, <1>5, <1>6 DEF DebugInv, Halted

(* One step by a command.                                                  *)
LEMMA OneStep == ASSUME DebugInv, SysStep PROVE DebugInv'
<1>1. PICK o \in Stepped(machine) :
        /\ machine' = o.m /\ last' = Between(o.did)
        /\ console' = IF o.out = "panic" THEN "dead" ELSE console
  BY DEF SysStep
<1>2. /\ Halted(o.m) /\ o.did \in Steps
      /\ o.did.idle => o.m.rem_halt = o.m.unit
  BY Zenon, SteppedFacts DEF DebugInv
<1>3. /\ doing' = doing /\ points' = points /\ signals' = signals /\ cnt' = cnt
      /\ window' = window /\ console' \in {console, "dead"}
  BY Zenon, <1>1 DEF SysStep
<1>4. LastOK'
  <2>1. last' \in Steps /\ ~last'.moved /\ (last'.idle <=> o.did.idle)
    BY Zenon, <1>1, <1>2, BetweenFacts
  <2> QED  BY Zenon, <1>1, <1>2, <2>1 DEF LastOK
<1>5. ThreadOK'
  BY Zenon, <1>3 DEF DebugInv, ThreadOK, signals
<1>6. PointsOK'
  BY Zenon, <1>3 DEF DebugInv, PointsOK, points
<1>7. Halted(machine')
  BY Zenon, <1>1, <1>2
<1> QED  BY Zenon, <1>4, <1>5, <1>6, <1>7 DEF DebugInv, Halted

(* A step of cont: what it executed, where the machine stands after it,    *)
(* and whether the run goes on.                                            *)
LEMMA ContStepFacts ==
  ASSUME DebugInv, ContStep
  PROVE  \E o \in Stepped(machine) :
           /\ Halted(o.m) /\ o.did \in Steps
           /\ Halted(machine')
           /\ machine'.pc = o.m.pc /\ machine'.rem_halt = o.m.rem_halt
           /\ machine'.unit = o.m.unit
           /\ last' \in Steps /\ last'.pc = o.did.pc
           /\ last'.sided <=> o.did.sided
           /\ last'.idle <=> o.did.idle
           /\ last'.moved <=> last.moved \/ ~o.did.idle
           /\ doing' \in {"cont", "disable"}
           /\ doing' = "cont" =>
                /\ ~HitsBreakpoint(o.m) /\ ~HitsRead(o.m) /\ ~HitsWrite(o.m)
<1>1. PICK o \in Stepped(machine) :
        /\ last' = [o.did EXCEPT !.moved = last.moved \/ ~o.did.idle]
        /\ machine' = IF o.out = "panic" THEN o.m ELSE Looked(o.m)
        /\ doing' = IF \/ o.out = "panic"
                       \/ HitsBreakpoint(o.m) \/ HitsRead(o.m) \/ HitsWrite(o.m)
                    THEN "disable" ELSE "cont"
  BY DEF ContStep
<1>2. Halted(o.m) /\ o.did \in Steps
  BY Zenon, SteppedFacts DEF DebugInv
<1>3. /\ Halted(machine') /\ machine'.pc = o.m.pc
      /\ machine'.rem_halt = o.m.rem_halt /\ machine'.unit = o.m.unit
  BY Zenon, <1>1, <1>2, LookedFacts
<1> DEFINE mv == last.moved \/ ~o.did.idle
<1>4. mv \in BOOLEAN
  OBVIOUS
<1>5. \A s \in Steps, b \in BOOLEAN :
        /\ [s EXCEPT !.moved = b] \in Steps
        /\ [s EXCEPT !.moved = b].pc = s.pc
        /\ [s EXCEPT !.moved = b].sided <=> s.sided
        /\ [s EXCEPT !.moved = b].idle <=> s.idle
        /\ [s EXCEPT !.moved = b].moved <=> b
  BY SMT DEF Steps
<1>6. last' = [o.did EXCEPT !.moved = mv]
  BY Zenon, <1>1
<1> HIDE DEF mv
<1>7. /\ last' \in Steps /\ last'.pc = o.did.pc
      /\ last'.sided <=> o.did.sided
      /\ last'.idle <=> o.did.idle
      /\ last'.moved <=> mv
  BY Zenon, <1>2, <1>4, <1>5, <1>6
<1> QED  BY Zenon, <1>1, <1>2, <1>3, <1>7 DEF mv

LEMMA RunStep == ASSUME DebugInv, ContStep PROVE DebugInv'
<1>1. PICK o \in Stepped(machine) :
        /\ Halted(machine')
        /\ machine'.pc = o.m.pc /\ machine'.rem_halt = o.m.rem_halt
        /\ machine'.unit = o.m.unit
        /\ last' \in Steps /\ (last'.idle <=> o.did.idle)
        /\ doing' \in {"cont", "disable"}
        /\ doing' = "cont" => ~HitsBreakpoint(o.m)
  BY Zenon, ContStepFacts
<1>2. o.did.idle => o.m.rem_halt = o.m.unit
  BY Zenon, SteppedFacts DEF DebugInv
<1>3. /\ points' = points /\ signals' = signals /\ console' = console
      /\ window' = window /\ cnt' = Counted /\ doing = "cont"
  BY DEF ContStep
<1>4. PointsOK'
  BY Zenon, <1>3 DEF DebugInv, PointsOK, points
<1>5. LastOK'
  BY Zenon, <1>1, <1>2, <1>3 DEF LastOK, HitsBreakpoint, points
<1>6. ThreadOK'
  <2>1. cnt \in Nat
    BY SMT, ProgramFacts DEF DebugInv, ThreadOK
  <2>2. cnt' \in 0 .. PollEvery - 1
    BY Zenon, <2>1, <1>3, CountedFacts DEF Counted
  <2>3. doing # "line" /\ doing' # "line"
    BY <1>1, <1>3
  <2>4. m_enabled' = m_enabled /\ m_pending' = m_pending
    BY <1>3 DEF signals
  <2>5. m_enabled' = (doing' # "line") /\ (m_pending' => m_enabled')
    BY Zenon, <2>3, <2>4 DEF DebugInv, ThreadOK
  <2>6. doing' \in {"line", "cont", "disable", "serve", "accept", "blocked", "session"}
    BY <1>1
  <2> QED  BY Zenon, <1>3, <2>2, <2>5, <2>6 DEF DebugInv, ThreadOK
<1> QED  BY Zenon, <1>1, <1>4, <1>5, <1>6 DEF DebugInv, Halted

(* sys_run.                                                                *)
LEMMA RunBegins == ASSUME DebugInv, SysRun PROVE DebugInv'
<1>1. /\ doing = "line" /\ doing' = "cont" /\ m_enabled' = TRUE /\ m_pending' = FALSE
      /\ cnt' = 0 /\ last' = last /\ points' = points /\ console' = console
      /\ window' = window
      /\ machine' = [machine EXCEPT !.read_addr = None, !.write_addr = None]
  BY DEF SysRun, AtLine
<1>2. LET n == [machine EXCEPT !.read_addr = None, !.write_addr = None] IN
        Halted(n) /\ n.rem_halt = machine.rem_halt /\ n.unit = machine.unit
  BY HaltedWith, NoneIsUsed DEF DebugInv
<1>3. 0 \in 0 .. PollEvery - 1
  BY SMT, ProgramFacts
<1>4. ThreadOK'
  BY <1>1, <1>3 DEF DebugInv, ThreadOK
<1>5. ~last.moved
  BY <1>1 DEF DebugInv, LastOK
<1>6. LastOK'
  BY Zenon, <1>1, <1>2, <1>5 DEF DebugInv, LastOK
<1>7. PointsOK'
  BY Zenon, <1>1 DEF DebugInv, PointsOK, points
<1> QED  BY Zenon, <1>1, <1>2, <1>4, <1>6, <1>7 DEF DebugInv, Halted

(* Everything that leaves the machine and the points alone and begins no   *)
(* run: the rest of the console, the server, the signal, the window.       *)
Elsewhere ==
  \/ BadFile \/ ScriptEnds \/ Quit \/ StartServer \/ ContInterrupted \/ Disable \/ Serve
  \/ (\E connected \in BOOLEAN : Accept(connected)) \/ Connected \/ SessionEnds
  \/ Interrupt \/ CloseWindow \/ Exited \/ UNCHANGED vars

LEMMA ElsewhereFacts ==
  ASSUME Elsewhere
  PROVE  /\ machine' = machine /\ points' = points /\ cnt' = cnt
         /\ console' \in {console, "prompt", "ended", "dead"}
         /\ window' \in {window, FALSE}
         /\ doing' \in {doing, "line", "disable", "serve", "accept", "blocked", "session"}
         /\ \/ m_enabled' = TRUE /\ m_pending' = FALSE /\ doing' = "serve"
            \/ m_enabled' = FALSE /\ m_pending' = FALSE /\ doing' = "line"
            \/ signals' = signals /\ (doing' = doing \/ (doing # "line" /\ doing' # "line"))
            \/ m_enabled /\ m_enabled' = m_enabled
               /\ (doing' = doing \/ (doing = "blocked" /\ doing' = "serve"))
         /\ \/ last' = Between(last)
            \/ last' = last /\ (doing \in {"cont", "disable"} => doing' \in {doing, "disable"})
<1> USE DEF Lives, AtLine, points, signals
<1>1. CASE BadFile
  BY <1>1 DEF BadFile
<1>2. CASE ScriptEnds
  BY <1>2 DEF ScriptEnds
<1>3. CASE Quit
  BY <1>3 DEF Quit
<1>4. CASE StartServer
  BY <1>4 DEF StartServer
<1>5. CASE ContInterrupted
  BY <1>5 DEF ContInterrupted
<1>6. CASE Disable
  BY <1>6 DEF Disable
<1>7. CASE Serve
  BY <1>7 DEF Serve
<1>8. CASE \E connected \in BOOLEAN : Accept(connected)
  BY <1>8 DEF Accept
<1>9. CASE Connected
  BY <1>9 DEF Connected
<1>10. CASE SessionEnds
  BY <1>10 DEF SessionEnds
<1>11. CASE Interrupt
  <2>1. CASE m_enabled
    BY <1>11, <2>1 DEF Interrupt
  <2>2. CASE ~m_enabled
    BY <1>11, <2>2 DEF Interrupt
  <2> QED  BY Zenon, <2>1, <2>2
<1>12. CASE CloseWindow
  BY <1>12 DEF CloseWindow
<1>13. CASE UNCHANGED vars
  BY <1>13 DEF vars
<1>14. CASE Exited
  BY Zenon, <1>13, <1>14 DEF Exited
<1> QED  BY Zenon, <1>1, <1>2, <1>3, <1>4, <1>5, <1>6, <1>7, <1>8, <1>9, <1>10, <1>11, <1>12,
            <1>13, <1>14 DEF Elsewhere

LEMMA Others == ASSUME DebugInv, Elsewhere PROVE DebugInv'
<1>1. machine' = machine /\ points' = points /\ cnt' = cnt
  BY ElsewhereFacts
<1>2. ThreadOK'
  <2>1. /\ console' \in {"script", "prompt", "ended", "dead"} /\ window' \in BOOLEAN
        /\ doing' \in {"line", "cont", "disable", "serve", "accept", "blocked", "session"}
    BY ElsewhereFacts DEF DebugInv, ThreadOK
  <2>2. m_enabled' = (doing' # "line") /\ (m_pending' => m_enabled')
    BY Zenon, ElsewhereFacts DEF DebugInv, ThreadOK, signals
  <2> QED  BY Zenon, <1>1, <2>1, <2>2 DEF DebugInv, ThreadOK
<1>3. LastOK'
  <2>1. CASE last' = Between(last)
    <3>1. last \in Steps
      BY DEF DebugInv, LastOK
    <3> QED  BY Zenon, <1>1, <2>1, <3>1, BetweenFacts DEF DebugInv, LastOK
  <2>2. CASE last' = last /\ (doing \in {"cont", "disable"} => doing' \in {doing, "disable"})
    <3>1. m_breakpts' = m_breakpts
      BY <1>1 DEF points
    <3> QED  BY Zenon, <1>1, <2>2, <3>1 DEF DebugInv, LastOK
  <2> QED  BY Zenon, <2>1, <2>2, ElsewhereFacts
<1>4. PointsOK'
  BY Zenon, <1>1 DEF DebugInv, PointsOK, points
<1>5. Halted(machine')
  BY Zenon, <1>1 DEF DebugInv
<1> QED  BY Zenon, <1>2, <1>3, <1>4, <1>5 DEF DebugInv, Halted

LEMMA NextInv == DebugInv /\ [Next]_vars => DebugInv'
<1> SUFFICES ASSUME DebugInv, [Next]_vars PROVE DebugInv'
  OBVIOUS
<1> QED  BY Zenon, MachineCommands, PointCommands, OneStep, RunStep, RunBegins, Others
         DEF Next, Commands, Proceeds, Elsewhere

LEMMA DebugInvariant == DebugSpec => []DebugInv
<1> QED  BY InitInv, NextInv, PTL DEF DebugSpec

(* Types, the assertions of SigCapture::enable and disable, and that the   *)
(* CPU never halts for longer than the unit it waits for is busy.          *)
THEOREM DebugTypeCorrect == DebugSpec => []DebugTypeOK
<1> QED  BY DebugInvariant, InvTypes, PTL

(* BasicDebug::step: whatever the program, no two steps in a row wait.     *)
THEOREM StepsDoExecute == DebugSpec => StepsExecute
<1>1. ASSUME DebugInv, ContStep \/ SysStep, last.idle
      PROVE  ~last'.idle
  <2>1. \E o \in Stepped(machine) : o.did \in Steps /\ (last'.idle <=> o.did.idle)
    <3>1. CASE ContStep
      BY Zenon, <1>1, <3>1, ContStepFacts
    <3>2. CASE SysStep
      <4>1. PICK o \in Stepped(machine) : last' = Between(o.did)
        BY <3>2 DEF SysStep
      <4>2. o.did \in Steps
        BY Zenon, <1>1, SteppedFacts DEF DebugInv
      <4>3. last'.idle <=> o.did.idle
        BY Zenon, <4>1, <4>2, BetweenFacts
      <4> QED  BY Zenon, <4>2, <4>3
    <3> QED  BY Zenon, <1>1, <3>1, <3>2
  <2>2. machine.rem_halt = machine.unit
    BY <1>1 DEF DebugInv, LastOK
  <2> QED  BY Zenon, <1>1, <2>1, <2>2, SteppedFacts DEF DebugInv
<1>2. DebugInv /\ [Next]_vars => [(ContStep \/ SysStep) /\ last.idle => ~last'.idle]_vars
  BY Zenon, <1>1
<1> QED  BY <1>2, DebugInvariant, PTL DEF DebugSpec, StepsExecute

(* BasicDebug::cont: whatever the program, the breakpoints and the         *)
(* watchpoints, a run stops at the first of them it reaches.               *)
THEOREM StopsAtPoints == DebugSpec => StopsWhereAsked
<1> DEFINE Asked ==
      LET pc == last'.pc IN
      /\ pc \in m_breakpts => ~last.moved \/ last'.sided
      /\ pc # None => \/ doing' = "disable"
                      \/ /\ Program[pc].load \notin m_read_watchpts
                         /\ Program[pc].store \notin m_write_watchpts
<1>1. ASSUME DebugInv, ContStep PROVE Asked
  <2>1. PICK o \in Stepped(machine) :
          /\ last'.pc = o.did.pc /\ (last'.sided <=> o.did.sided)
          /\ doing' \in {"cont", "disable"}
          /\ doing' = "cont" => ~HitsBreakpoint(o.m) /\ ~HitsRead(o.m) /\ ~HitsWrite(o.m)
    BY Zenon, <1>1, ContStepFacts
  <2> DEFINE pc == o.did.pc
             i == Program[pc]
  <2>2. pc # None => /\ pc = machine.pc \/ o.did.sided
                     /\ i.load # None => o.m.read_addr = i.load
                     /\ i.store # None => o.m.write_addr = i.store
    BY Zenon, <1>1, SteppedFacts DEF DebugInv
  <2>3. None \notin m_breakpts /\ None \notin m_read_watchpts /\ None \notin m_write_watchpts
    BY <1>1, NotAskedFor DEF DebugInv, PointsOK
  <2>4. doing = "cont"
    BY <1>1 DEF ContStep
  <2>5. last.moved => machine.pc \notin m_breakpts
    BY <1>1, <2>4 DEF DebugInv, LastOK
  <2>6. pc \in m_breakpts => ~last.moved \/ last'.sided
    BY Zenon, <2>1, <2>2, <2>3, <2>5
  <2>7. pc # None /\ doing' # "disable" =>
          i.load \notin m_read_watchpts /\ i.store \notin m_write_watchpts
    BY Zenon, <2>1, <2>2, <2>3 DEF HitsBreakpoint, HitsRead, HitsWrite
  <2> QED  BY Zenon, <2>1, <2>6, <2>7
<1>2. DebugInv /\ [Next]_vars => [ContStep => Asked]_vars
  BY Zenon, <1>1
<1> QED  BY <1>2, DebugInvariant, PTL DEF DebugSpec, StopsWhereAsked
=============================================================================
