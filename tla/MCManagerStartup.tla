-------------------------- MODULE MCManagerStartup --------------------------
(* ManagerStartup on small instances. *)
EXTENDS ManagerStartup, TLC
=============================================================================
