---------------------------- MODULE MC_Contexts ----------------------------
(***************************************************************************)
(* Contexts with two threads, two windows, two user contexts and the       *)
(* native APIs GLX and EGL.  Windows are not interchangeable: the binding  *)
(* of one of them, and of one user context, may fail.                      *)
(***************************************************************************)
EXTENDS Contexts, TLC

Symmetry == Permutations(Source)
=============================================================================
