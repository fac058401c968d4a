------------------------------- MODULE Display -------------------------------
(***************************************************************************)
(* How a picture reaches the window: the emulator's thread draws into the  *)
(* VRAM of the software renderer (src/src/renderer/SWRenderer.cpp) and, at *)
(* a vertical blank, copies it into a buffer it shares with the frontend's *)
(* thread (src/src/frontend/App.cpp), which copies it again and shows it.  *)
(*                                                                         *)
(* A picture is the number of the drawing that completed it.  A copy takes *)
(* two steps, one for each half, so that one that is not protected can be  *)
(* torn.                                                                   *)
(***************************************************************************)
EXTENDS Integers

CONSTANT MaxDraws       \* bound: the drawings the program makes

ASSUME DrawAssumption == MaxDraws \in Nat

VARIABLES m_vram, m_dirty,
          vram_buf_mx,          \* who holds the mutex
          vram_buf, vram_buf_updated,
          vram_local_buf,
          emu_pc, app_pc        \* where the two threads are

rendererVars == <<m_vram, m_dirty>>
displayVars == <<rendererVars, vram_buf_mx, vram_buf, vram_buf_updated, vram_local_buf,
          emu_pc, app_pc>>

Pictures == 0 .. MaxDraws
Copy == [top : Pictures, bottom : Pictures]
Whole(p) == [top |-> p, bottom |-> p]

DisplayTypeOK ==
  /\ m_vram \in Pictures /\ m_dirty \in BOOLEAN
  /\ vram_buf_mx \in {"free", "emu", "app"}
  /\ vram_buf \in Copy /\ vram_local_buf \in Copy
  /\ vram_buf_updated \in BOOLEAN
  /\ emu_pc \in {"run", "lock", "top", "bottom"}
  /\ app_pc \in {"loop", "top", "bottom", "quit"}

DisplayInit ==
  /\ m_vram = 0 /\ m_dirty = FALSE
  /\ vram_buf_mx = "free"
  /\ vram_buf = Whole(0) /\ vram_local_buf = Whole(0) /\ vram_buf_updated = FALSE
  /\ emu_pc = "run" /\ app_pc = "loop"

-----------------------------------------------------------------------------
(* The emulator's thread. *)

(* draw_quickrect, draw_rect, blit_cv; draw_polygon draws nothing. *)
DrawPicture ==
  /\ emu_pc = "run" /\ m_vram < MaxDraws
  /\ m_vram' = m_vram + 1 /\ m_dirty' = TRUE
  /\ UNCHANGED <<vram_buf_mx, vram_buf, vram_buf_updated, vram_local_buf, emu_pc, app_pc>>

(* vblank: without a drawing since the last one it does nothing. *)
Vblank ==
  /\ emu_pc = "run" /\ m_dirty
  /\ emu_pc' = "lock"
  /\ UNCHANGED <<rendererVars, vram_buf_mx, vram_buf, vram_buf_updated, vram_local_buf, app_pc>>

(* vram_into_buf *)
EmuLock_Mut ==                           \* Mutant: a busy buffer is skipped
  /\ emu_pc = "lock"
  /\ IF vram_buf_mx = "free"
     THEN vram_buf_mx' = "emu" /\ emu_pc' = "top" /\ UNCHANGED m_dirty
     ELSE m_dirty' = FALSE /\ emu_pc' = "run" /\ UNCHANGED vram_buf_mx
  /\ UNCHANGED <<m_vram, vram_buf, vram_buf_updated, vram_local_buf, app_pc>>

EmuLock ==
  /\ emu_pc = "lock" /\ vram_buf_mx = "free"
  /\ vram_buf_mx' = "emu" /\ emu_pc' = "top"
  /\ UNCHANGED <<rendererVars, vram_buf, vram_buf_updated, vram_local_buf, app_pc>>

EmuCopyTop ==
  /\ emu_pc = "top" /\ emu_pc' = "bottom"
  /\ vram_buf' = [vram_buf EXCEPT !.top = m_vram]
  /\ UNCHANGED <<rendererVars, vram_buf_mx, vram_buf_updated, vram_local_buf, app_pc>>

(* The rest of the copy, the flag and the end of the lock; then vblank goes
   on and clears m_dirty. *)
EmuCopyBottom_Mut ==                     \* Mutant: forgets the flag
  /\ emu_pc = "bottom" /\ emu_pc' = "run"
  /\ vram_buf' = [vram_buf EXCEPT !.bottom = m_vram]
  /\ vram_buf_mx' = "free"
  /\ m_dirty' = FALSE
  /\ UNCHANGED <<m_vram, vram_buf_updated, vram_local_buf, app_pc>>

EmuCopyBottom ==
  /\ emu_pc = "bottom" /\ emu_pc' = "run"
  /\ vram_buf' = [vram_buf EXCEPT !.bottom = m_vram]
  /\ vram_buf_updated' = TRUE
  /\ vram_buf_mx' = "free"
  /\ m_dirty' = FALSE
  /\ UNCHANGED <<m_vram, vram_local_buf, app_pc>>

Emulator == DrawPicture \/ Vblank \/ EmuLock \/ EmuCopyTop \/ EmuCopyBottom

-----------------------------------------------------------------------------
(* The frontend's thread: one turn of App::run. *)

(* The lock, the test of the flag; nothing new ends the turn at once. *)
AppLock_Mut ==                           \* Mutant: takes no lock
  /\ app_pc = "loop" /\ vram_buf_updated
  /\ vram_buf_updated' = FALSE
  /\ app_pc' = "top"
  /\ UNCHANGED <<rendererVars, vram_buf_mx, vram_buf, vram_local_buf, emu_pc>>

AppLock ==
  /\ app_pc = "loop" /\ vram_buf_mx = "free" /\ vram_buf_updated
  /\ vram_buf_mx' = "app"
  /\ vram_buf_updated' = FALSE
  /\ app_pc' = "top"
  /\ UNCHANGED <<rendererVars, vram_buf, vram_local_buf, emu_pc>>

AppCopyTop ==
  /\ app_pc = "top" /\ app_pc' = "bottom"
  /\ vram_local_buf' = [vram_local_buf EXCEPT !.top = vram_buf.top]
  /\ UNCHANGED <<rendererVars, vram_buf_mx, vram_buf, vram_buf_updated, emu_pc>>

AppCopyBottom ==
  /\ app_pc = "bottom" /\ app_pc' = "loop"
  /\ vram_local_buf' = [vram_local_buf EXCEPT !.bottom = vram_buf.bottom]
  /\ vram_buf_mx' = "free"
  /\ UNCHANGED <<rendererVars, vram_buf, vram_buf_updated, emu_pc>>

(* The window is closed: the loop ends after its turn. *)
AppQuit ==
  /\ app_pc = "loop" /\ app_pc' = "quit"
  /\ UNCHANGED <<rendererVars, vram_buf_mx, vram_buf, vram_buf_updated, vram_local_buf, emu_pc>>

App == AppLock \/ AppCopyTop \/ AppCopyBottom \/ AppQuit

DisplayNext == Emulator \/ App

DisplaySpec == DisplayInit /\ [][DisplayNext]_displayVars

(* The emulator runs and blanks come; the frontend's loop turns.  Each thread
   holds the mutex for a copy and then leaves it for a frame's time, so the
   other one gets it in the end. *)
FairDisplaySpec ==
  /\ DisplaySpec
  /\ WF_displayVars(Vblank) /\ SF_displayVars(EmuLock)
  /\ WF_displayVars(EmuCopyTop) /\ WF_displayVars(EmuCopyBottom)
  /\ SF_displayVars(AppLock) /\ WF_displayVars(AppCopyTop) /\ WF_displayVars(AppCopyBottom)

-----------------------------------------------------------------------------
(* Properties. *)

(* The frontend shows whole pictures, although the emulator goes on drawing
   and blanking meanwhile: what it has copied is one picture, and no picture
   is forgotten between the two flags: if neither says that there is
   something new, the window shows what is in VRAM. *)
NoTearing ==
  app_pc \in {"loop", "quit"} => vram_local_buf.top = vram_local_buf.bottom
FlagsAccount ==
  ~m_dirty /\ ~vram_buf_updated /\ app_pc = "loop" => vram_local_buf = Whole(m_vram)
PicturesShown == NoTearing /\ FlagsAccount

(* A drawing is shown in the end, or a later one is, unless the window is
   closed before that. *)
DrawingsShown ==
  \A p \in 1 .. MaxDraws :
    m_vram = p ~> (vram_local_buf.bottom >= p \/ app_pc = "quit")
=============================================================================
