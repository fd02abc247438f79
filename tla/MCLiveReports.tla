---------------------------- MODULE MCLiveReports ----------------------------
(***************************************************************************)
(* A small instance of LiveReports: one report on screen, which the page   *)
(* asks for plainly and, at a Refresh, by force, so that two requests for  *)
(* the same figures meet.                                                  *)
(***************************************************************************)
EXTENDS LiveReports
=============================================================================
