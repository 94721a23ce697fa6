-------------------------- MODULE MCEventProjection --------------------------
(* Instances of EventProjection for TLC.                                     *)
EXTENDS EventProjection

\* A loan workflow whose second event its consumers cannot read.
MCScript == [workflow |-> <<"workflow_evaluated", "completed">>]
MCProducers == {"workflow"}
=============================================================================
