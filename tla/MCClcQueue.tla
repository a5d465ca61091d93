----------------------------- MODULE MCClcQueue -----------------------------
(* Two instances of ClcJobs for TLC in one run: the jobs that users give    *)
(* one instance, in all their combinations, and the starts of two instances *)
(* over two nodes. A behaviour stays in the part it begins in. Job ids are  *)
(* interchangeable: nothing compares them.                                  *)
EXTENDS ClcJobs, TLC

VARIABLE part   \* the part this behaviour is about

JobSymmetry == Permutations(Jobs)

(* All actions, on instance 1, through one connection of node 1.            *)
Control ==
    /\ part = "control"
    /\ \A j \in Jobs : row'[j].target \in {0, 1}
    /\ conns' <= 1 /\ \A t \in Slots \ {1} : ent'[t] = FreeSlot
    /\ \A i \in Instances \ {1} : ins'[i].life = "LIVE"
    /\ ent'[1].type = "node" => ent'[1].db = 1

(* Starts only, on every instance and node.                                 *)
Placement ==
    /\ part = "placement"
    /\ \A j \in Jobs : row'[j].action \in {"NONE", "RUN"}
    /\ \A i \in Instances : ins'[i].life = "LIVE"

MCInit == Init /\ part \in {"control", "placement"}

MCNext == Next /\ (Control \/ Placement) /\ UNCHANGED part

MCSpec == MCInit /\ [][MCNext]_<<vars, part>>
=============================================================================
