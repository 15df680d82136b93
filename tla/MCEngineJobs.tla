---------------------------- MODULE MCEngineJobs ----------------------------
(* Instances of EngineJobs for TLC.  Job ids are interchangeable (kinds are  *)
(* chosen by Init), which the safety run uses as symmetry.                   *)
EXTENDS EngineJobs, FiniteSets, TLC

JobSymmetry == Permutations(Jobs)

(* Liveness is checked without symmetry; of the choices of kinds it takes    *)
(* those with one extract at most, whose rows then fit.                      *)
LivenessInit ==
    /\ Init
    /\ Cardinality({j \in Jobs : kind[j] = EngineJsExtract}) <= 1

LivenessSpec == LivenessInit /\ [][Next]_vars /\ Fairness
=============================================================================
