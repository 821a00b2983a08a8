-------------------------- MODULE MCAlertPipeline --------------------------
(* Finite instances of AlertPipeline: one deploy of one service.           *)
EXTENDS AlertPipeline

CONSTANTS d1, s1

MCDeployService == [d \in Deploys |-> s1]
MCEvaluates == [e \in Evaluations |-> d1]

MCSymmetry == Permutations(Evaluations)
=============================================================================
