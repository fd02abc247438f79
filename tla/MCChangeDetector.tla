-------------------------- MODULE MCChangeDetector --------------------------
(***************************************************************************)
(* A small instance of ChangeDetector: one journal to a page and two pages *)
(* to a look, so that three journals overrun one look.                     *)
(***************************************************************************)
EXTENDS ChangeDetector
=============================================================================
