-------------------------- MODULE MCUnhealthyGauge --------------------------
(* A small instance of UnhealthyGauge for TLC. *)
EXTENDS UnhealthyGauge, TLC

CONSTANTS pod, node, crash, pressure

\* A Pod with a problem that comes and goes, and a Node reconciled by another worker
\* and under lasting memory and disk pressure, which yields the same NodePressure key
\* twice in one evaluation.
PairOwner       == crash :> pod @@ pressure :> node
PairEvaluations == pod :> {<<>>, <<crash>>} @@ node :> {<<pressure, pressure>>}
=============================================================================
