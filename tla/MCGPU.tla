-------------------------------- MODULE MCGPU --------------------------------
(***************************************************************************)
(* Words for the checks of GPU: every kind of command with every           *)
(* combination of the attributes that matters to it, a height of 0 or not. *)
(***************************************************************************)
EXTENDS GPU

MCWords ==
  {Plain(c) : c \in {"quickrect", "cvblit", "vcblit", "other", "zero"}}
  \cup {[Plain("zero") EXCEPT !.y0 = TRUE]}
  \cup {[Plain("polygon") EXCEPT !.tex = t, !.quad = q, !.gouraud = g] :
          t \in BOOLEAN, q \in BOOLEAN, g \in BOOLEAN}
  \cup {[Plain("rect") EXCEPT !.tex = t, !.var = v] : t \in BOOLEAN, v \in BOOLEAN}
=============================================================================
