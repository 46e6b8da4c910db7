----------------------------- MODULE MCVirtualLog -----------------------------
(* The VirtualLog instances of the cfg files. *)
EXTENDS VirtualLog
===============================================================================
