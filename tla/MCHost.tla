-------------------------------- MODULE MCHost --------------------------------
(***************************************************************************)
(* What the engine of one host keeps for its callers: the jobs and the     *)
(* devices paired with it.  They share no state; a behaviour runs the one  *)
(* that part names and leaves the other in its first state.                *)
(***************************************************************************)
EXTENDS MCEngineJobs, MCLanPairing

VARIABLE part   \* the component that runs

\* Jobs and devices never meet, so exchanging both at once reduces each as
\* much as exchanging them apart would, with half the permutations.
Along(p, S) == IF \A x \in DOMAIN p : p[x] = x THEN [y \in S |-> y]
               ELSE [y \in S |-> CHOOSE z \in S : z # y]
HostSymmetry == {p @@ Along(p, Devices) : p \in JobSymmetry} \cup Permutations(Workers)

HostInit ==
  /\ part \in {"jobs", "lan"}
  /\ Init /\ (part # "jobs" => kind = [j \in Jobs |-> EngineJsExtract])
  /\ LanInit

HostNext ==
  /\ UNCHANGED part
  /\ \/ part = "jobs" /\ Next /\ UNCHANGED lanVars
     \/ part = "lan" /\ LanNext /\ UNCHANGED vars

HostSpec == HostInit /\ [][HostNext]_<<part, vars, lanVars>>
===============================================================================
