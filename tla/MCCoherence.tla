---------------------------- MODULE MCCoherence ----------------------------
(***************************************************************************)
(* Coherence with two questions that are not near each other.              *)
(***************************************************************************)
EXTENDS Coherence, TLC

CONSTANTS c1, c2, t1, q1, q2

MCTenantOf == c1 :> t1 @@ c2 :> t1
MCAsks == c1 :> {q1} @@ c2 :> {q2}
MCSimilarity == [p \in Questions \X Questions |-> IF p[1] = p[2] THEN 2 ELSE 1]

=============================================================================
