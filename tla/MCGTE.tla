------------------------------- MODULE MCGTE --------------------------------
(***************************************************************************)
(* The unit with 12-bit registers (the source has 32): halves of 6 bits,   *)
(* accumulators of 16 and 18.  Three contents of the registers at the      *)
(* start: small numbers no command overflows on, numbers of every size,    *)
(* and the limits of both signs.                                           *)
(***************************************************************************)
EXTENDS GTE

Small(i) == (((i % 7) - 3) % 64) + 64 * ((((2 * i) % 5) - 2) % 64)
Mixed(i) == (1103 * i * i + 377 * i + 91) % 4096
Limits(i) == IF i % 3 = 0 THEN 2048 + 31 ELSE IF i % 3 = 1 THEN 2047 ELSE 32 * 65

MCBackgrounds == {[i \in 0 .. 63 |-> IF i = 63 THEN {12, 30, 31} ELSE Small(i)],
                  [i \in 0 .. 63 |-> IF i = 63 THEN {20} ELSE Mixed(i)],
                  [i \in 0 .. 63 |-> IF i = 63 THEN {} ELSE Limits(i)]}

(* A vertex, colours, IR, the queues, accumulators, IRGB, LZCS, a matrix,  *)
(* vectors added, the projection and the flags                             *)
MCWrites == ({6, 15, 28} \X {2047, 2178})
            \cup {<<0, 2178>>, <<9, 2047>>, <<25, 2178>>, <<30, 2178>>,
                  <<19, 2047>>, <<39, 2178>>, <<58, 2178>>, <<63, {3, 12, 13}>>}

Plain == {"RTPS", "NCLIP", "OP", "DPCS", "INTPL", "NCDS", "CDP", "NCDT", "NCCS", "CC",
          "NCS", "NCT", "SQR", "DCPL", "DPCT", "AVSZ3", "AVSZ4", "RTPT", "GPF", "GPL",
          "NCCT", "UNKNOWN"}
MCInstrs ==
  {[op |-> op, sf |-> f, lm |-> 1 - f, mx |-> 0, v |-> 0, cv |-> 0] : op \in Plain, f \in {0, 1}}
  \cup {[op |-> "MVMVA", sf |-> 1, lm |-> 0, mx |-> m, v |-> 1, cv |-> c] :
          m \in {0, 3}, c \in {0, 2}}
  \cup {[op |-> "MVMVA", sf |-> 0, lm |-> l, mx |-> 2, v |-> 3, cv |-> c] :
          l \in {0, 1}, c \in {1, 3}}
MCCycles == [op \in Plain \cup {"MVMVA"} |->
               IF op = "UNKNOWN" THEN 0 ELSE IF op \in {"NCDT", "RTPT"} THEN 2 ELSE 1]
=============================================================================
