---------------------------- MODULE MCStatusSync ----------------------------
(***************************************************************************)
(* A small instance of StatusSync: two documents, asked one to a call, and *)
(* a slack that covers one change in each window.                          *)
(***************************************************************************)
EXTENDS StatusSync
=============================================================================
