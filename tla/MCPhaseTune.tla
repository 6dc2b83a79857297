---------------------------- MODULE MCPhaseTune ----------------------------
(* Instance of PhaseTune: five phases, the default one good and at most one *)
(* of the others marginal or garbled.                                       *)
EXTENDS PhaseTune
QualitiesV ==
  {q \in [0 .. 4 -> {"good", "deaf", "garbled", "mute", "marginal"}] :
     q[0] = "good" /\ Cardinality({p \in 0 .. 4 : q[p] \in {"garbled", "marginal"}}) =< 1}
==============================================================================
