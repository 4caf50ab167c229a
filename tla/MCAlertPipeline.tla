--------------------------- MODULE MCAlertPipeline ---------------------------
(* A small instance of AlertPipeline for TLC. *)
EXTENDS AlertPipeline, TLC

CONSTANTS pod, crash, oom

\* One Pod with two problems that come and go independently.
PodOwner       == crash :> pod @@ oom :> pod
PodEvaluations == pod :> {<<>>, <<crash>>, <<oom>>, <<crash, oom>>}
=============================================================================
