-------------------------- MODULE MCPodReconciler --------------------------
(* Small instances of PodReconciler for TLC. *)
EXTENDS PodReconciler
=============================================================================
