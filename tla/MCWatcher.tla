------------------------------ MODULE MCWatcher ------------------------------
(***************************************************************************)
(* A small instance of Watcher: one mail, two retries, and two searches or *)
(* fetches under way at a time, of connections let go among them.          *)
(***************************************************************************)
EXTENDS Watcher
=============================================================================
