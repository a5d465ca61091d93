------------------------------ MODULE JobTable ------------------------------
(***************************************************************************)
(* What the job and instance tables promise the web application, which     *)
(* reads them and sees nothing else of lyclc (db_job_update_status and     *)
(* db_instance_delete in clc/postgres.c, run_job and the delete handler in *)
(* lyweb): a job is created once, is open until it gets one of the ended   *)
(* statuses, and keeps that for ever; an instance is marked, and its row   *)
(* goes in the very step in which a job that destroys it succeeds. Which   *)
(* jobs end, when, and in which order is left open. ClcJobs implements it. *)
(***************************************************************************)
CONSTANTS Jobs, Instances, Nodes,
          Actions, NodeActions,  \* what users ask for, and what of it is for nodes
          Ended                  \* statuses of a job that is over

VARIABLES job,   \* rows of the job table: [action, target, state]
          life   \* rows of the instance table: "LIVE", "DELETE", "GONE"

tableVars == <<job, life>>

NoJob == [action |-> "NONE", target |-> 0, state |-> "none"]

Opened == {j \in Jobs : job[j].state = "open"}
On(i) == {j \in Jobs : job[j].action \notin NodeActions /\ job[j].target = i}

TableInit ==
    /\ job = [j \in Jobs |-> NoJob]
    /\ life = [i \in Instances |-> "LIVE"]

\* A job on a node, or on an instance that is not deleted; one that destroys the
\* instance marks it. Without a controller the job has failed from the start.
Create(j, a, t) ==
    /\ job[j].state = "none"
    /\ a \notin NodeActions => life[t] = "LIVE"
    /\ \E s \in {"open", "FAILURE"} :
         job' = [job EXCEPT ![j] = [action |-> a, target |-> t, state |-> s]]
    /\ life' = IF a = "DESTROY" THEN [life EXCEPT ![t] = "DELETE"] ELSE life

\* A delete that finds a job of the instance in its way only marks it.
Mark(i) ==
    /\ life[i] = "LIVE"
    /\ \E j \in On(i) : job[j].state \in {"open", "FAILURE"}
    /\ life' = [life EXCEPT ![i] = "DELETE"]
    /\ UNCHANGED job

\* The jobs of S end, each with a status of its own, and the rows of the
\* instances G are deleted.
End(S, status, G) ==
    /\ \A i \in G : /\ life[i] = "DELETE"
                    /\ \E j \in S \cap On(i) : /\ job[j].action = "DESTROY"
                                               /\ status[j] = "SUCCESS"
    /\ job' = [j \in Jobs |-> IF j \in S THEN [job[j] EXCEPT !.state = status[j]]
                              ELSE job[j]]
    /\ life' = [i \in Instances |-> IF i \in G THEN "GONE" ELSE life[i]]

TableNext ==
    \/ \E j \in Jobs, a \in Actions :
         \E t \in IF a \in NodeActions THEN Nodes ELSE Instances : Create(j, a, t)
    \/ \E i \in Instances : Mark(i)
    \/ \E S \in SUBSET Opened, G \in SUBSET Instances :
         \E status \in [S -> Ended] : End(S, status, G)

TableSpec == TableInit /\ [][TableNext]_tableVars
=============================================================================
