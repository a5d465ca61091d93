---------------------------- MODULE ClcJobsProofs ----------------------------
(***************************************************************************)
(* Proofs about ClcJobs, for every set of jobs, instances, nodes, slots    *)
(* and every bound.                                                        *)
(*                                                                         *)
(* A handler of lyclc changes the queue, the tables and the store in       *)
(* several calls. The proofs follow it: the five variables are one record  *)
(* (Now), each operator of ClcJobs is a function on such records, and a    *)
(* lemma per operator says that it keeps StateOK and is Tame (it may take  *)
(* jobs off the queue, never put one back, and writes only rows of queued  *)
(* jobs). A lemma per action turns this into a step of the invariant Inv,  *)
(* which adds what holds of notifications, requests, the order of the      *)
(* queue and the dispatch walk.                                            *)
(***************************************************************************)
EXTENDS ClcJobs, TLAPS, FiniteSetTheorems, WellFoundedInduction

---------------------------------------------------------------------------
(* What holds of the queue, the tables and the store between two handlers  *)
(* of lyclc, and between two calls of job_update_status within a handler.  *)

StateType == [pos : [Jobs -> Nat], mem : [Jobs -> MemType],
              row : [Jobs -> RowType], ent : [Slots -> EntType],
              ins : [Instances -> InsType]]

Queued(s) == {j \in Jobs : s.pos[j] > 0}

HoldersIn(s, t) == Holders(s.mem, Queued(s), t)

\* A node entity has the id of a node; only a node entity counts jobs.
NodeSlots(s) ==
    \A t \in Slots : IF s.ent[t].type = "node" THEN s.ent[t].db \in Nodes
                     ELSE s.ent[t].busy = 0

\* A job whose row says it is over, or was never created, is not queued.
OverIsOut(s) ==
    \A j \in Jobs : s.row[j].status \in Ended \cup {"NONE"} => s.pos[j] = 0

\* A job that waits for its turn is on no entity and holds no count.
FreshIdle(s) ==
    \A j \in Jobs :
        s.pos[j] > 0 /\ s.mem[j].status \in {"INITIATED", "PENDING"}
            => s.mem[j].pend # 0 /\ s.mem[j].ent = 0

\* Only start jobs are ever pending, or wait for an OS manager.
PendingStarts(s) ==
    \A j \in Jobs :
        /\ s.row[j].status = "PENDING" => s.row[j].action \in StartActions
        /\ s.pos[j] > 0 /\ s.mem[j].status \in {"PENDING"} \cup Waiting
                => s.row[j].action \in StartActions

BusyHeld(s) == \A t \in Slots : s.ent[t].busy <= Cardinality(HoldersIn(s, t))

StateOK(s) == /\ s \in StateType
              /\ NodeSlots(s) /\ OverIsOut(s) /\ FreshIdle(s)
              /\ PendingStarts(s) /\ BusyHeld(s)

\* From s to u a job that destroys instance i succeeds and leaves the queue.
Destroyed(s, u, i) ==
    \E j \in Jobs : /\ s.pos[j] > 0 /\ u.pos[j] = 0
                    /\ s.row[j].action = "DESTROY" /\ s.row[j].target = i
                    /\ u.row[j].status = "SUCCESS"

\* The row of an instance goes only together with such a job, once it is marked.
Lives(s, u) ==
    \A i \in Instances :
        \/ u.ins[i].life = s.ins[i].life
        \/ /\ s.ins[i].life = "DELETE" /\ u.ins[i].life = "GONE"
           /\ Destroyed(s, u, i)

\* What a handler does with jobs, from s to u: it may end jobs, it writes no row
\* of a job that is not queued, and it moves no job but k to another entity.
TameJobs(s, u, k) ==
    \A j \in Jobs :
        /\ u.pos[j] \in {0, s.pos[j]}
        /\ s.pos[j] = 0 => u.row[j] = s.row[j]
        /\ s.pos[j] > 0 /\ u.pos[j] = 0 => u.row[j].status \in Ended
        /\ u.row[j].action = s.row[j].action
        /\ u.row[j].target = s.row[j].target
        /\ u.row[j].status = "NONE" => s.row[j].status = "NONE"
        /\ u.pos[j] > 0 => /\ u.mem[j].status = "INITIATED"
                                => s.mem[j].status = "INITIATED"
                           /\ j # k => u.mem[j].ent = s.mem[j].ent

Tame(s, u, k) == TameJobs(s, u, k) /\ Lives(s, u)

\* Queued jobs whose row is not what lyclc has in memory.
Lag(s) == {j \in Jobs : s.pos[j] > 0 /\ s.row[j].status # s.mem[j].status}

---------------------------------------------------------------------------
(* Lemmas on the operators of ClcJobs.                                     *)

\* Which statuses there are.
LEMMA StatusFacts ==
    /\ {"FAILURE", "SUCCESS", "TIMEOUT", "UNKNOWN", "PENDING", "RUNNING",
        "SYCING_OSM", "STARTING_SERVICE", "STARTING_OSM"}
            \subseteq Statuses \ {"INITIATED"}
    /\ {"FAILURE", "SUCCESS", "TIMEOUT", "UNKNOWN", "RUNNING"}
            \cap ({"PENDING"} \cup Waiting) = {}
    /\ Ended \subseteq Statuses \ {"INITIATED"}
    /\ Ended \cap ({"PENDING"} \cup Waiting) = {}
BY DEF Statuses, Ended, Waiting

\* Sets of jobs are finite.
LEMMA JobsFinite ==
    ASSUME NEW S, S \subseteq Jobs
    PROVE  IsFiniteSet(S) /\ Cardinality(S) \in Nat
BY ConstantsOK, FS_Subset, FS_CardinalityType

\* Taking the members of B off a count of at most A leaves at most A \ B.
LEMMA MinusCard ==
    ASSUME NEW A, A \subseteq Jobs, NEW B, B \subseteq A, NEW b \in Nat,
           b <= Cardinality(A)
    PROVE  Minus(b, Cardinality(B)) <= Cardinality(A \ B)
<1>1. IsFiniteSet(A) /\ Cardinality(A) \in Nat BY JobsFinite
<1>2. IsFiniteSet(B) /\ Cardinality(B) \in Nat BY JobsFinite
<1>3. A \cap B = B OBVIOUS
<1>4. Cardinality(A \ B) = Cardinality(A) - Cardinality(B)
  BY <1>1, <1>3, FS_Difference
<1>5. Cardinality(B) <= Cardinality(A) BY <1>1, FS_Subset
<1> QED BY <1>1, <1>2, <1>4, <1>5 DEF Minus

\* A counter that job_busy_remove takes down stays a natural number.
LEMMA MinusNat ==
    ASSUME NEW a \in Nat, NEW b \in Nat
    PROVE  Minus(a, b) \in Nat
BY DEF Minus

\* What every member of StateType has.
LEMMA Parts ==
    ASSUME NEW s \in StateType
    PROVE  /\ s.pos \in [Jobs -> Nat] /\ s.mem \in [Jobs -> MemType]
           /\ s.row \in [Jobs -> RowType] /\ s.ent \in [Slots -> EntType]
           /\ s.ins \in [Instances -> InsType]
           /\ \A j \in Jobs : /\ s.pos[j] \in Nat /\ s.mem[j] \in MemType
                              /\ s.row[j] \in RowType
           /\ \A t \in Slots : s.ent[t] \in EntType /\ s.ent[t].busy \in Nat
           /\ \A t : HoldersIn(s, t) \subseteq Jobs
           /\ \A t : Cardinality(HoldersIn(s, t)) \in Nat
<1>1. \A t : HoldersIn(s, t) \subseteq Jobs BY DEF HoldersIn, Holders, Queued
<1>2. \A t : Cardinality(HoldersIn(s, t)) \in Nat BY <1>1, JobsFinite
<1> QED BY <1>1, <1>2 DEF StateType, EntType

\* SetStatus writes status fields and nothing else.
LEMMA SetStatusParts ==
    ASSUME NEW s \in StateType, NEW R, NEW D, NEW st \in Statuses
    PROVE  LET u == SetStatus(s, R, D, st)
           IN  /\ u \in StateType
               /\ u.pos = s.pos /\ u.ent = s.ent /\ u.ins = s.ins
               /\ \A j \in Jobs :
                    /\ u.mem[j].status = IF j \in R THEN st ELSE s.mem[j].status
                    /\ u.mem[j].pend = s.mem[j].pend
                    /\ u.mem[j].ent = s.mem[j].ent
                    /\ u.row[j].action = s.row[j].action
                    /\ u.row[j].target = s.row[j].target
                    /\ u.row[j].status = IF j \in D THEN st ELSE s.row[j].status
                    /\ j \notin D => u.row[j] = s.row[j]
<1> DEFINE m == [j \in Jobs |-> IF j \in R THEN [s.mem[j] EXCEPT !.status = st]
                                ELSE s.mem[j]]
           r == [j \in Jobs |-> IF j \in D THEN [s.row[j] EXCEPT !.status = st]
                                ELSE s.row[j]]
           u == SetStatus(s, R, D, st)
<1>1. m \in [Jobs -> MemType] BY DEF StateType, MemType
<1>2. r \in [Jobs -> RowType] BY DEF StateType, RowType
<1>3. u.mem = m /\ u.row = r /\ u.pos = s.pos /\ u.ent = s.ent /\ u.ins = s.ins
  BY DEF SetStatus, StateType
<1>4. u \in StateType
  <2> HIDE DEF m, r
  <2> QED BY <1>1, <1>2 DEF SetStatus, StateType, m, r
<1>5. ASSUME NEW j \in Jobs PROVE s.mem[j] \in MemType /\ s.row[j] \in RowType
  BY DEF StateType
<1> QED BY <1>3, <1>4, <1>5 DEF MemType, RowType

\* JobBusyRemove takes counts down and nothing else.
LEMMA BusyRemoveParts ==
    ASSUME NEW e \in [Slots -> EntType], NEW m, NEW H, H \subseteq Jobs
    PROVE  LET u == JobBusyRemove(e, m, H)
           IN  /\ u \in [Slots -> EntType]
               /\ \A t \in Slots :
                    /\ u[t].type = e[t].type /\ u[t].db = e[t].db
                    /\ u[t].busy = IF e[t].type = "node"
                                   THEN Minus(e[t].busy,
                                              Cardinality(Holders(m, H, t)))
                                   ELSE e[t].busy
<1>1. \A t \in Slots : Cardinality(Holders(m, H, t)) \in Nat
  BY JobsFinite DEF Holders
<1>2. \A t \in Slots : Minus(e[t].busy, Cardinality(Holders(m, H, t))) \in Nat
  BY <1>1, MinusNat DEF EntType
<1> QED BY <1>2 DEF JobBusyRemove, EntType

\* A released entity (ly_entity_release) has the type of an entity and counts nothing.
LEMMA FreeSlotType == FreeSlot \in EntType /\ FreeSlot.type = "free" /\ FreeSlot.busy = 0
BY DEF FreeSlot, EntType, RUNNING

\* ly_entity_release frees the slots of S and leaves the others.
LEMMA ReleaseParts ==
    ASSUME NEW e \in [Slots -> EntType], NEW S
    PROVE  /\ Release(e, S) \in [Slots -> EntType]
           /\ \A t \in Slots :
                Release(e, S)[t] = IF t \in S THEN FreeSlot ELSE e[t]
BY FreeSlotType DEF Release

\* A job just inserted (job_insert) has the type of a LYJobInfo.
LEMMA BlankType == Blank \in MemType
BY ConstantsOK DEF Blank, MemType, Statuses

\* The fields of what JobsOver returns.
LEMMA JobsOverParts ==
    ASSUME NEW s \in StateType, NEW D, D \subseteq Jobs, NEW X, NEW st
    PROVE  LET u == JobsOver(s, D, X, st)
               e == Release(s.ent, Dropped(s.ent, s.row, D, st))
           IN  /\ u \in StateType
               /\ u.row = s.row
               /\ u.ent = JobBusyRemove(e, s.mem, D)
               /\ \A j \in Jobs : /\ u.pos[j] = IF j \in D THEN 0 ELSE s.pos[j]
                                  /\ u.mem[j] = IF j \in D THEN Blank ELSE s.mem[j]
<1> DEFINE p == [j \in Jobs |-> IF j \in D THEN 0 ELSE s.pos[j]]
           m == [j \in Jobs |-> IF j \in D THEN Blank ELSE s.mem[j]]
           e == JobBusyRemove(Release(s.ent, Dropped(s.ent, s.row, D, st)),
                              s.mem, D)
           i == [i \in Instances |->
                    IF /\ s.ins[i].life = "DELETE" /\ i \notin X
                       /\ st = "SUCCESS"
                       /\ \E j \in D : s.row[j].action = "DESTROY"
                                       /\ s.row[j].target = i
                    THEN [s.ins[i] EXCEPT !.life = "GONE"]
                    ELSE s.ins[i]]
           u == JobsOver(s, D, X, st)
<1>1. p \in [Jobs -> Nat] BY DEF StateType
<1>2. m \in [Jobs -> MemType] BY BlankType DEF StateType
<1>3. e \in [Slots -> EntType]
  BY Parts, ReleaseParts, BusyRemoveParts
<1>4. i \in [Instances -> InsType] BY DEF StateType, InsType
<1>5. u = [s EXCEPT !.pos = p, !.mem = m, !.ent = e, !.ins = i] BY DEF JobsOver
<1> HIDE DEF p, m, e, i, u
<1>6. /\ u \in StateType
      /\ u.row = s.row /\ u.pos = p /\ u.mem = m /\ u.ent = e
  BY <1>1, <1>2, <1>3, <1>4, <1>5 DEF StateType
<1> QED BY <1>6 DEF p, m, e, u

\* JobsOver deletes the row of a marked instance if a job of D destroyed it.
LEMMA JobsOverIns ==
    ASSUME NEW s \in StateType, NEW D, NEW X, NEW st, NEW i \in Instances
    PROVE  LET u == JobsOver(s, D, X, st)
           IN  /\ u.ins[i].node = s.ins[i].node
               /\ \/ u.ins[i].life = s.ins[i].life
                  \/ /\ s.ins[i].life = "DELETE" /\ u.ins[i].life = "GONE"
                     /\ st = "SUCCESS"
                     /\ \E j \in D : s.row[j].action = "DESTROY"
                                     /\ s.row[j].target = i
<1> DEFINE ii == [x \in Instances |->
                    IF /\ s.ins[x].life = "DELETE" /\ x \notin X
                       /\ st = "SUCCESS"
                       /\ \E j \in D : s.row[j].action = "DESTROY"
                                       /\ s.row[j].target = x
                    THEN [s.ins[x] EXCEPT !.life = "GONE"]
                    ELSE s.ins[x]]
           u == JobsOver(s, D, X, st)
<1>1. u.ins = ii BY DEF JobsOver, StateType
<1>2. s.ins[i] \in InsType BY DEF StateType
<1>3. u.ins[i] = IF /\ s.ins[i].life = "DELETE" /\ i \notin X
                    /\ st = "SUCCESS"
                    /\ \E j \in D : s.row[j].action = "DESTROY"
                                    /\ s.row[j].target = i
                 THEN [s.ins[i] EXCEPT !.life = "GONE"]
                 ELSE s.ins[i]
  BY <1>1
<1> HIDE DEF u
<1> QED BY <1>2, <1>3 DEF InsType, u

---------------------------------------------------------------------------
(* job_update_status keeps StateOK and is tame.                            *)

\* A handler that changes nothing is tame.
LEMMA TameRefl == ASSUME NEW s, NEW k PROVE Tame(s, s, k)
BY DEF Tame, TameJobs, Lives

\* Two tame updates in one handler are tame together.
LEMMA TameTrans ==
    ASSUME NEW s \in StateType, NEW t \in StateType, NEW u \in StateType, NEW k,
           Tame(s, t, k), Tame(t, u, k)
    PROVE  Tame(s, u, k)
<1>1. TameJobs(s, u, k)
  <2> SUFFICES ASSUME NEW j \in Jobs
               PROVE  /\ u.pos[j] \in {0, s.pos[j]}
                      /\ s.pos[j] = 0 => u.row[j] = s.row[j]
                      /\ s.pos[j] > 0 /\ u.pos[j] = 0 => u.row[j].status \in Ended
                      /\ u.row[j].action = s.row[j].action
                      /\ u.row[j].target = s.row[j].target
                      /\ u.row[j].status = "NONE" => s.row[j].status = "NONE"
                      /\ u.pos[j] > 0 => /\ u.mem[j].status = "INITIATED"
                                              => s.mem[j].status = "INITIATED"
                                         /\ j # k => u.mem[j].ent = s.mem[j].ent
    BY DEF TameJobs
  <2> QED BY Parts DEF Tame, TameJobs
<1>2. Lives(s, u)
  <2> SUFFICES ASSUME NEW i \in Instances, u.ins[i].life # s.ins[i].life
               PROVE  /\ s.ins[i].life = "DELETE" /\ u.ins[i].life = "GONE"
                      /\ Destroyed(s, u, i)
    BY DEF Lives
  <2>1. CASE t.ins[i].life # s.ins[i].life
    <3>1. s.ins[i].life = "DELETE" /\ t.ins[i].life = "GONE" /\ Destroyed(s, t, i)
      BY <2>1 DEF Tame, TameJobs, Lives
    <3>2. u.ins[i].life = "GONE" BY <3>1 DEF Tame, TameJobs, Lives
    <3>3. Destroyed(s, u, i)
      BY <3>1, Parts DEF Destroyed, Tame, TameJobs
    <3> QED BY <3>1, <3>2, <3>3
  <2>2. CASE t.ins[i].life = s.ins[i].life
    <3>1. t.ins[i].life = "DELETE" /\ u.ins[i].life = "GONE" /\ Destroyed(t, u, i)
      BY <2>2 DEF Tame, TameJobs, Lives
    <3>2. Destroyed(s, u, i)
      BY <3>1, Parts DEF Destroyed, Tame, TameJobs
    <3> QED BY <2>2, <3>1, <3>2
  <2> QED BY <2>1, <2>2
<1> QED BY <1>1, <1>2 DEF Tame, TameJobs

\* A handler that moves no job is tame for any k.
LEMMA TameAny ==
    ASSUME NEW s, NEW t, NEW k, Tame(s, t, None)
    PROVE  Tame(s, t, k)
BY ConstantsOK DEF Tame, TameJobs

\* SetStatus on queued jobs is tame.
LEMMA SetStatusTame ==
    ASSUME NEW s \in StateType, NEW R, NEW D, R \subseteq Queued(s),
           D \subseteq R, NEW st \in Statuses \ {"INITIATED"}
    PROVE  Tame(s, SetStatus(s, R, D, st), None)
<1> DEFINE u == SetStatus(s, R, D, st)
<1>1. \A j \in D : s.pos[j] # 0 BY Parts DEF Queued
<1>2. st # "NONE" BY DEF Statuses, Waiting, Ended
<1> HIDE DEF u
<1> QED BY <1>1, <1>2, SetStatusParts DEF Tame, TameJobs, Lives, u

\* Jobs that are over and leave the queue take their counts with them.
LEMMA JobsOverOK ==
    ASSUME NEW s \in StateType, NEW D, D \subseteq Queued(s), NEW X,
           NEW st \in Ended, \A j \in D : s.row[j].status = st,
           NodeSlots(s), PendingStarts(s), BusyHeld(s),
           \A j \in Jobs \ D :
              /\ s.row[j].status \in Ended \cup {"NONE"} => s.pos[j] = 0
              /\ s.pos[j] > 0 /\ s.mem[j].status \in {"INITIATED", "PENDING"}
                    => s.mem[j].pend # 0 /\ s.mem[j].ent = 0
    PROVE  StateOK(JobsOver(s, D, X, st)) /\ Tame(s, JobsOver(s, D, X, st), None)
<1> DEFINE u == JobsOver(s, D, X, st)
           e == Release(s.ent, Dropped(s.ent, s.row, D, st))
<1>a. D \subseteq Jobs BY DEF Queued
<1>1. /\ u \in StateType
      /\ u.row = s.row
      /\ u.ent = JobBusyRemove(e, s.mem, D)
      /\ \A j \in Jobs : /\ u.pos[j] = IF j \in D THEN 0 ELSE s.pos[j]
                         /\ u.mem[j] = IF j \in D THEN Blank ELSE s.mem[j]
  BY <1>a, JobsOverParts
<1>b. Queued(u) = Queued(s) \ D BY <1>1, <1>a, Parts DEF Queued
<1> HIDE DEF u
<1>2. e \in [Slots -> EntType] BY Parts, ReleaseParts
<1>3. \A t \in Slots :
         /\ u.ent[t].type = e[t].type /\ u.ent[t].db = e[t].db
         /\ u.ent[t].busy = IF e[t].type = "node"
                            THEN Minus(e[t].busy, Cardinality(Holders(s.mem, D, t)))
                            ELSE e[t].busy
  BY <1>1, <1>2, <1>a, BusyRemoveParts
<1>4. \A t \in Slots : e[t] = FreeSlot \/ e[t] = s.ent[t] BY Parts, ReleaseParts
<1> HIDE DEF e
<1>5. NodeSlots(u) BY <1>3, <1>4, FreeSlotType DEF NodeSlots
<1>6. OverIsOut(u) BY <1>1 DEF OverIsOut
<1>7. FreshIdle(u) BY <1>1 DEF FreshIdle
<1>8. PendingStarts(u) BY <1>1 DEF PendingStarts
<1>9. BusyHeld(u)
  <2> SUFFICES ASSUME NEW t \in Slots
               PROVE  u.ent[t].busy <= Cardinality(HoldersIn(u, t))
    BY DEF BusyHeld
  <2>1. HoldersIn(u, t) = HoldersIn(s, t) \ Holders(s.mem, D, t)
    BY <1>1, <1>a, <1>b DEF HoldersIn, Holders, Queued
  <2>2. Holders(s.mem, D, t) \subseteq HoldersIn(s, t)
    BY DEF HoldersIn, Holders
  <2>3. Cardinality(HoldersIn(u, t)) \in Nat BY <1>1, Parts
  <2>4. CASE e[t].type # "node"
    BY <2>3, <2>4, <1>3, <1>5, <1>1, Parts DEF NodeSlots
  <2>5. CASE e[t].type = "node"
    <3>1. e[t] = s.ent[t] BY <2>5, <1>4, FreeSlotType
    <3>2. s.ent[t].busy \in Nat /\ HoldersIn(s, t) \subseteq Jobs BY Parts
    <3>3. s.ent[t].busy <= Cardinality(HoldersIn(s, t)) BY DEF BusyHeld
    <3>4. Minus(s.ent[t].busy, Cardinality(Holders(s.mem, D, t)))
            <= Cardinality(HoldersIn(u, t))
      BY <2>1, <2>2, <3>2, <3>3, MinusCard
    <3> QED BY <3>1, <3>4, <2>5, <1>3
  <2> QED BY <2>4, <2>5
<1>10. TameJobs(s, u, None) BY <1>1, <1>a DEF TameJobs
<1>11. Lives(s, u)
  <2> SUFFICES ASSUME NEW i \in Instances, u.ins[i].life # s.ins[i].life
               PROVE  /\ s.ins[i].life = "DELETE" /\ u.ins[i].life = "GONE"
                      /\ Destroyed(s, u, i)
    BY DEF Lives
  <2>1. /\ s.ins[i].life = "DELETE" /\ u.ins[i].life = "GONE" /\ st = "SUCCESS"
        /\ \E j \in D : s.row[j].action = "DESTROY" /\ s.row[j].target = i
    BY JobsOverIns DEF u
  <2>2. \A j \in D : j \in Jobs /\ s.pos[j] > 0 /\ u.pos[j] = 0
    BY <1>1 DEF Queued
  <2> QED BY <1>1, <2>1, <2>2 DEF Destroyed
<1> QED BY <1>1, <1>5, <1>6, <1>7, <1>8, <1>9, <1>10, <1>11 DEF StateOK, Tame, TameJobs, u

\* The counts that job s.mem holds do not depend on the status fields.
LEMMA SameHolders ==
    ASSUME NEW s \in StateType, NEW u \in StateType,
           \A j \in Jobs : /\ u.pos[j] = s.pos[j]
                           /\ u.mem[j].pend = s.mem[j].pend
                           /\ u.mem[j].ent = s.mem[j].ent
    PROVE  \A t : HoldersIn(u, t) = HoldersIn(s, t)
BY DEF HoldersIn, Holders, Queued

\* job_update_status of the jobs R, all of them queued, with an ending status.
LEMMA JobUpdateAllOK ==
    ASSUME NEW s, StateOK(s), NEW R, R \subseteq Queued(s), NEW F,
           NEW st \in Ended
    PROVE  LET u == JobUpdateAll(s, R, F, st)
           IN  /\ StateOK(u) /\ Tame(s, u, None)
               /\ \A k \in Jobs \ R : u.pos[k] = s.pos[k]
               /\ F = {} => Lag(u) \subseteq Lag(s)
<1> DEFINE t == SetStatus(s, R, R \ F, st)
           u == JobsOver(t, R \ F, {}, st)
<1>0. s \in StateType /\ st \in Statuses \ {"INITIATED"}
      /\ st \notin {"PENDING", "NONE", "INITIATED"}
      /\ st \notin {"PENDING"} \cup Waiting
  BY StatusFacts DEF StateOK, Statuses, Ended, Waiting
<1>1. /\ t \in StateType
      /\ t.pos = s.pos /\ t.ent = s.ent /\ t.ins = s.ins
      /\ \A j \in Jobs :
           /\ t.mem[j].status = IF j \in R THEN st ELSE s.mem[j].status
           /\ t.mem[j].pend = s.mem[j].pend
           /\ t.mem[j].ent = s.mem[j].ent
           /\ t.row[j].action = s.row[j].action
           /\ t.row[j].status = IF j \in R \ F THEN st ELSE s.row[j].status
  BY <1>0, SetStatusParts
<1>2. Tame(s, t, None) BY <1>0, SetStatusTame
<1> HIDE DEF t
<1>3. NodeSlots(t) BY <1>1 DEF StateOK, NodeSlots
<1>4. PendingStarts(t) BY <1>0, <1>1 DEF StateOK, PendingStarts
<1>5. \A x : HoldersIn(t, x) = HoldersIn(s, x) BY <1>0, <1>1, SameHolders
<1>6. BusyHeld(t) BY <1>1, <1>5 DEF StateOK, BusyHeld
<1>7. R \ F \subseteq Queued(t) BY <1>1 DEF Queued
<1>8. \A j \in Jobs \ (R \ F) :
              /\ t.row[j].status \in Ended \cup {"NONE"} => t.pos[j] = 0
              /\ t.pos[j] > 0 /\ t.mem[j].status \in {"INITIATED", "PENDING"}
                    => t.mem[j].pend # 0 /\ t.mem[j].ent = 0
  BY <1>0, <1>1 DEF StateOK, OverIsOut, FreshIdle
<1>x. \A j \in R \ F : t.row[j].status = st BY <1>1 DEF Queued
<1>9. StateOK(u) /\ Tame(t, u, None)
  BY <1>1, <1>3, <1>4, <1>6, <1>7, <1>8, <1>x, JobsOverOK
<1>10. Tame(s, u, None) BY <1>0, <1>1, <1>2, <1>9, TameTrans DEF StateOK
<1>11. R \ F \subseteq Jobs BY DEF Queued
<1>12. \A k \in Jobs \ R : u.pos[k] = s.pos[k]
  BY <1>1, <1>11, JobsOverParts
<1>13. ASSUME F = {} PROVE Lag(u) \subseteq Lag(s)
  <2> DEFINE D == R \ F
             v == JobsOver(t, D, {}, st)
  <2>0. D \subseteq Jobs BY <1>11
  <2> HIDE DEF D
  <2>1. /\ v.row = t.row
        /\ \A j \in Jobs : /\ v.pos[j] = IF j \in D THEN 0 ELSE t.pos[j]
                           /\ v.mem[j] = IF j \in D THEN Blank ELSE t.mem[j]
    BY <1>1, <2>0, JobsOverParts
  <2>2. u = v BY DEF D
  <2> HIDE DEF u, v
  <2> QED BY <1>1, <1>13, <2>1, <2>2 DEF Lag, D
<1> QED BY <1>9, <1>10, <1>12, <1>13 DEF JobUpdateAll, t

\* ly_entity_db_id returns a row id or -1, also for a slot that does not exist.
LEMMA DbIdType ==
    ASSUME NEW e \in [Slots -> EntType], NEW t
    PROVE  DbId(e, t) \in Nat \cup {-1}
BY DEF DbId, EntType

\* db_instance_update_status with a node leaves a well-formed instance table and
\* deletes nothing.
LEMMA SetNodeType ==
    ASSUME NEW ii \in [Instances -> InsType], NEW i, NEW n \in Nat \cup {-1}
    PROVE  /\ SetNode(ii, i, n) \in [Instances -> InsType]
           /\ \A x \in Instances : SetNode(ii, i, n)[x].life = ii[x].life
<1>1. CASE i \in Instances
  <2>1. ii[i] \in InsType BY <1>1
  <2>2. (IF ii[i].life = "LIVE" /\ n > 0 THEN n ELSE ii[i].node) \in Nat
    BY <2>1 DEF InsType
  <2> QED BY <1>1, <2>2 DEF SetNode, InsType
<1>2. CASE i \notin Instances
  BY <1>2 DEF SetNode, InsType
<1> QED BY <1>1, <1>2

\* The start of an instance gives the count of its job back.
LEMMA InstanceStartedOK ==
    ASSUME NEW s, StateOK(s), NEW j \in Queued(s),
           s.mem[j].status \notin {"INITIATED", "PENDING"}
    PROVE  LET u == InstanceStarted(s, j)
           IN  /\ StateOK(u) /\ Tame(s, u, None)
               /\ u.mem[j].status = s.mem[j].status /\ u.pos = s.pos
               /\ Lag(u) = Lag(s)
<1> DEFINE m == [s.mem EXCEPT ![j].pend = IF @ = 0 THEN -1 ELSE @]
           e == JobBusyRemove(s.ent, s.mem, {j})
           i == SetNode(s.ins, s.row[j].target, DbId(s.ent, s.mem[j].ent))
           u == InstanceStarted(s, j)
<1>0. s \in StateType /\ j \in Jobs /\ {j} \subseteq Jobs BY DEF StateOK, Queued
<1>1. m \in [Jobs -> MemType] BY <1>0, Parts DEF MemType
<1>2. e \in [Slots -> EntType] BY <1>0, Parts, BusyRemoveParts
<1>3. /\ i \in [Instances -> InsType]
      /\ \A x \in Instances : i[x].life = s.ins[x].life
  BY <1>0, Parts, DbIdType, SetNodeType
<1>4. u = [s EXCEPT !.ins = i, !.ent = e, !.mem = m] BY <1>0 DEF InstanceStarted, StateType
<1>5. /\ m[j].pend # 0 /\ m[j].status = s.mem[j].status /\ m[j].ent = s.mem[j].ent
      /\ \A k \in Jobs \ {j} : m[k] = s.mem[k]
  BY <1>0, Parts DEF MemType
<1>6. \A t \in Slots :
         /\ e[t].type = s.ent[t].type /\ e[t].db = s.ent[t].db
         /\ e[t].busy = IF s.ent[t].type = "node"
                        THEN Minus(s.ent[t].busy, Cardinality(Holders(s.mem, {j}, t)))
                        ELSE s.ent[t].busy
  BY <1>0, Parts, BusyRemoveParts
<1> HIDE DEF m, e, i, u
<1>7. /\ u \in StateType
      /\ u.row = s.row /\ u.pos = s.pos /\ u.mem = m /\ u.ent = e /\ u.ins = i
  BY <1>0, <1>1, <1>2, <1>3, <1>4 DEF StateType
<1>8. NodeSlots(u) BY <1>6, <1>7 DEF StateOK, NodeSlots
<1>9. OverIsOut(u) BY <1>7 DEF StateOK, OverIsOut
<1>10. FreshIdle(u) BY <1>5, <1>7 DEF StateOK, FreshIdle
<1>11. PendingStarts(u) BY <1>5, <1>7 DEF StateOK, PendingStarts
<1>12. BusyHeld(u)
  <2> SUFFICES ASSUME NEW t \in Slots
               PROVE  e[t].busy <= Cardinality(HoldersIn(u, t))
    BY <1>7 DEF BusyHeld
  <2>1. HoldersIn(u, t) = HoldersIn(s, t) \ Holders(s.mem, {j}, t)
    BY <1>0, <1>5, <1>7 DEF HoldersIn, Holders, Queued
  <2>2. Holders(s.mem, {j}, t) \subseteq HoldersIn(s, t)
    BY DEF HoldersIn, Holders
  <2>3. /\ s.ent[t].busy \in Nat /\ HoldersIn(s, t) \subseteq Jobs
        /\ Cardinality(HoldersIn(u, t)) \in Nat
    BY <1>0, <1>7, Parts
  <2>4. s.ent[t].busy <= Cardinality(HoldersIn(s, t)) BY DEF StateOK, BusyHeld
  <2>5. Minus(s.ent[t].busy, Cardinality(Holders(s.mem, {j}, t)))
            <= Cardinality(HoldersIn(u, t))
    BY <2>1, <2>2, <2>3, <2>4, MinusCard
  <2>6. CASE s.ent[t].type = "node" BY <2>5, <2>6, <1>6
  <2>7. CASE s.ent[t].type # "node"
    <3>1. e[t].busy = 0 BY <2>7, <1>6 DEF StateOK, NodeSlots
    <3> QED BY <3>1, <2>3
  <2> QED BY <2>6, <2>7
<1>13. Tame(s, u, None) BY <1>3, <1>5, <1>7 DEF Tame, TameJobs, Lives
<1>14. Lag(u) = Lag(s) BY <1>5, <1>7 DEF Lag
<1> QED BY <1>5, <1>7, <1>8, <1>9, <1>10, <1>11, <1>12, <1>13, <1>14 DEF StateOK, u

\* A queued job takes a status: what SetStatus does then.
LEMMA SetStatusOK ==
    ASSUME NEW s, StateOK(s), NEW j \in Queued(s), NEW D, D \subseteq {j},
           NEW st \in Statuses \ (Ended \cup {"INITIATED"}),
           st = "PENDING" => s.mem[j].pend # 0 /\ s.mem[j].ent = 0,
           st \in {"PENDING"} \cup Waiting => s.row[j].action \in StartActions
    PROVE  LET u == SetStatus(s, {j}, D, st)
           IN  /\ StateOK(u) /\ Tame(s, u, None)
               /\ u.pos = s.pos /\ u.mem[j].status = st
               /\ D = {j} => Lag(u) \subseteq Lag(s)
<1> DEFINE u == SetStatus(s, {j}, D, st)
<1>0. /\ s \in StateType /\ j \in Jobs /\ {j} \subseteq Queued(s)
      /\ st \in Statuses /\ st \notin Ended \cup {"NONE", "INITIATED"}
  BY DEF StateOK, Queued, Statuses, Ended, Waiting
<1>1. /\ u \in StateType
      /\ u.pos = s.pos /\ u.ent = s.ent /\ u.ins = s.ins
      /\ \A k \in Jobs :
           /\ u.mem[k].status = IF k \in {j} THEN st ELSE s.mem[k].status
           /\ u.mem[k].pend = s.mem[k].pend
           /\ u.mem[k].ent = s.mem[k].ent
           /\ u.row[k].action = s.row[k].action
           /\ u.row[k].status = IF k \in D THEN st ELSE s.row[k].status
  BY <1>0, SetStatusParts
<1>2. Tame(s, u, None) BY <1>0, SetStatusTame
<1> HIDE DEF u
<1>3. NodeSlots(u) BY <1>1 DEF StateOK, NodeSlots
<1>4. PendingStarts(u) BY <1>0, <1>1 DEF StateOK, PendingStarts
<1>5. \A x : HoldersIn(u, x) = HoldersIn(s, x) BY <1>0, <1>1, SameHolders
<1>6. BusyHeld(u) BY <1>1, <1>5 DEF StateOK, BusyHeld
<1>7. OverIsOut(u) BY <1>0, <1>1 DEF StateOK, OverIsOut
<1>8. FreshIdle(u) BY <1>0, <1>1 DEF StateOK, FreshIdle
<1>9. D = {j} => Lag(u) \subseteq Lag(s) BY <1>1 DEF Lag
<1> QED BY <1>0, <1>1, <1>2, <1>3, <1>4, <1>6, <1>7, <1>8, <1>9 DEF StateOK, u

\* job_update_status of a queued job.
LEMMA JobUpdateStatusOK ==
    ASSUME NEW s, StateOK(s), NEW j \in Queued(s),
           NEW st \in Statuses \ {"INITIATED"},
           st = "PENDING" => s.mem[j].pend # 0 /\ s.mem[j].ent = 0,
           st \in {"PENDING"} \cup Waiting => s.row[j].action \in StartActions,
           NEW fail \in {"no", "row", "ins"}
    PROVE  LET u == JobUpdateStatus(s, j, fail, st)
           IN  /\ StateOK(u) /\ Tame(s, u, None)
               /\ u.pos[j] > 0 => u.mem[j].status = st
               /\ \A k \in Jobs \ {j} : u.pos[k] = s.pos[k]
               /\ fail # "row" => Lag(u) \subseteq Lag(s)
<1> DEFINE t == SetStatus(s, {j}, IF fail = "row" THEN {} ELSE {j}, st)
           X == IF fail = "ins" THEN {s.row[j].target} ELSE {}
           o == JobsOver(t, {j}, X, st)
           u == JobUpdateStatus(s, j, fail, st)
<1>0. s \in StateType /\ j \in Jobs /\ st \in Statuses BY DEF StateOK, Queued
<1>1. CASE st \notin Ended
  <2>1. /\ StateOK(t) /\ Tame(s, t, None)
        /\ t.pos = s.pos /\ t.mem[j].status = st
        /\ fail # "row" => Lag(t) \subseteq Lag(s)
    <3> DEFINE D == IF fail = "row" THEN {} ELSE {j}
               v == SetStatus(s, {j}, D, st)
    <3>1. D \subseteq {j} OBVIOUS
    <3>2. st \in Statuses \ (Ended \cup {"INITIATED"}) BY <1>1
    <3> HIDE DEF D
    <3>3. /\ StateOK(v) /\ Tame(s, v, None)
          /\ v.pos = s.pos /\ v.mem[j].status = st
          /\ D = {j} => Lag(v) \subseteq Lag(s)
      BY <3>1, <3>2, SetStatusOK
    <3> QED BY <3>3 DEF D
  <2>2. j \in Queued(t) BY <2>1 DEF Queued
  <2>3. CASE u = t BY <2>1, <2>3
  <2>4. CASE st = "STARTING_OSM" /\ u = InstanceStarted(t, j)
    <3>1. /\ StateOK(u) /\ Tame(t, u, None) /\ u.mem[j].status = st
          /\ u.pos = t.pos /\ Lag(u) = Lag(t)
      BY <2>1, <2>2, <2>4, InstanceStartedOK
    <3> QED BY <3>1, <2>1, TameTrans DEF StateOK
  <2> QED BY <1>1, <2>3, <2>4 DEF JobUpdateStatus
<1>2. CASE st \in Ended /\ fail # "row"
  <2>0. st \notin {"NONE", "INITIATED"} /\ st \notin {"PENDING"} \cup Waiting
    BY <1>2, StatusFacts DEF Ended
  <2>1. /\ t \in StateType
        /\ t.pos = s.pos /\ t.ent = s.ent /\ t.ins = s.ins
        /\ \A k \in Jobs :
             /\ t.mem[k].status = IF k \in {j} THEN st ELSE s.mem[k].status
             /\ t.mem[k].pend = s.mem[k].pend
             /\ t.mem[k].ent = s.mem[k].ent
             /\ t.row[k].action = s.row[k].action
             /\ t.row[k].status = IF k \in {j} THEN st ELSE s.row[k].status
    BY <1>0, <1>2, SetStatusParts
  <2>2. Tame(s, t, None) BY <1>0, <1>2, SetStatusTame
  <2>3. u = o BY <1>2 DEF JobUpdateStatus
  <2> HIDE DEF t, u
  <2>4. NodeSlots(t) BY <2>1 DEF StateOK, NodeSlots
  <2>5. PendingStarts(t) BY <2>0, <2>1 DEF StateOK, PendingStarts
  <2>6. \A x : HoldersIn(t, x) = HoldersIn(s, x) BY <1>0, <2>1, SameHolders
  <2>7. BusyHeld(t) BY <2>1, <2>6 DEF StateOK, BusyHeld
  <2>8. {j} \subseteq Queued(t) BY <2>1 DEF Queued
  <2>9. \A k \in Jobs \ {j} :
              /\ t.row[k].status \in Ended \cup {"NONE"} => t.pos[k] = 0
              /\ t.pos[k] > 0 /\ t.mem[k].status \in {"INITIATED", "PENDING"}
                    => t.mem[k].pend # 0 /\ t.mem[k].ent = 0
    BY <2>1 DEF StateOK, OverIsOut, FreshIdle
  <2>a. \A k \in {j} : t.row[k].status = st BY <1>0, <2>1
  <2>10. StateOK(u) /\ Tame(t, u, None)
    BY <1>2, <2>1, <2>3, <2>4, <2>5, <2>7, <2>8, <2>9, <2>a, JobsOverOK
  <2>11. u.pos[j] = 0 /\ \A k \in Jobs \ {j} : u.pos[k] = s.pos[k]
    BY <1>0, <2>1, <2>3, JobsOverParts
  <2>12. u.row = t.row /\ \A k \in Jobs \ {j} : u.mem[k] = t.mem[k]
    <3> DEFINE D == {j}
               v == JobsOver(t, D, X, st)
    <3>1. D \subseteq Jobs /\ v = u BY <1>0, <2>3
    <3> HIDE DEF D, X
    <3>2. v.row = t.row /\ \A k \in Jobs : v.mem[k] = IF k \in D THEN Blank ELSE t.mem[k]
      BY <2>1, <3>1, JobsOverParts
    <3> HIDE DEF v
    <3> QED BY <3>1, <3>2 DEF D
  <2>13. Lag(u) \subseteq Lag(s) BY <2>1, <2>11, <2>12 DEF Lag
  <2> QED BY <1>0, <2>1, <2>2, <2>10, <2>11, <2>13, TameTrans DEF StateOK, u
<1>3. CASE st \in Ended /\ fail = "row"
  <2>0. st \notin {"NONE", "INITIATED"} /\ st \notin {"PENDING"} \cup Waiting
    BY <1>3, StatusFacts DEF Ended
  <2>1. /\ t \in StateType
        /\ t.pos = s.pos /\ t.ent = s.ent /\ t.ins = s.ins
        /\ \A k \in Jobs :
             /\ t.mem[k].status = IF k \in {j} THEN st ELSE s.mem[k].status
             /\ t.mem[k].pend = s.mem[k].pend
             /\ t.mem[k].ent = s.mem[k].ent
             /\ t.row[k] = s.row[k]
    BY <1>0, <1>3, SetStatusParts
  <2>2. Tame(s, t, None) BY <1>0, <1>3, SetStatusTame
  <2>3. u = t BY <1>3 DEF JobUpdateStatus
  <2> HIDE DEF t, u
  <2>4. NodeSlots(t) BY <2>1 DEF StateOK, NodeSlots
  <2>5. PendingStarts(t) BY <2>0, <2>1 DEF StateOK, PendingStarts
  <2>6. \A x : HoldersIn(t, x) = HoldersIn(s, x) BY <1>0, <2>1, SameHolders
  <2>7. BusyHeld(t) BY <2>1, <2>6 DEF StateOK, BusyHeld
  <2>8. OverIsOut(t) /\ FreshIdle(t) BY <2>0, <2>1 DEF StateOK, OverIsOut, FreshIdle
  <2> QED BY <1>0, <1>3, <2>1, <2>2, <2>3, <2>4, <2>5, <2>7, <2>8 DEF StateOK, u
<1> QED BY <1>1, <1>2, <1>3

---------------------------------------------------------------------------
(* The steps of a handler on the state before and after it.                *)

\* The parts of the state a handler starts from are the variables.
LEMMA NowParts ==
    /\ Now.pos = pos /\ Now.mem = mem /\ Now.row = row /\ Now.ent = ent
    /\ Now.ins = ins /\ Queued(Now) = Queue
BY DEF Now, Queued, Queue

\* The state a handler starts from is well formed.
LEMMA NowType == ASSUME TypeOK PROVE Now \in StateType
BY DEF TypeOK, Now, StateType

\* A handler that ends in state u leaves u for the next one.
LEMMA BecomeNow ==
    ASSUME NEW u \in StateType, Become(u)
    PROVE  Now' = u
BY DEF Become, Now, StateType

\* The counter of failed statements stays a number and counts every one.
LEMMA SpendType ==
    ASSUME NEW c \in Nat, faults \in Nat, Spend(c)
    PROVE  faults' \in Nat /\ faults <= faults' /\ (c > 0 => faults' # faults)
BY DEF Spend

\* Without a failure a handler that starts from s leaves no row behind its job.
Counted(s) == /\ faults' \in Nat /\ faults <= faults'
              /\ faults' = faults => Lag(Now') \subseteq Lag(s)

\* A handler in which a statement or a send failed.
LEMMA SpentCounted ==
    ASSUME NEW s, NEW c \in Nat \ {0}, faults \in Nat, Spend(c)
    PROVE  Counted(s)
BY SpendType DEF Counted

\* A handler in which nothing failed.
LEMMA BecomeCounted ==
    ASSUME NEW s, NEW u \in StateType, Become(u), faults \in Nat, faults' = faults,
           Lag(u) \subseteq Lag(s)
    PROVE  Counted(s)
BY BecomeNow DEF Counted

\* A handler that does nothing.
LEMMA IdleCounted ==
    ASSUME UNCHANGED clcVars, faults \in Nat, faults' = faults
    PROVE  Counted(Now)
<1>1. Now' = Now BY DEF clcVars, Now
<1> QED BY <1>1 DEF Counted

\* What the dispatch of job j does: the jobs behind j stay, and a DISABLE that
\* is still queued is no longer new.
Served(s, u, j) ==
    /\ StateOK(u) /\ Tame(s, u, j)
    /\ \A k \in Jobs : s.pos[k] > s.pos[j] => u.pos[k] = s.pos[k]
    /\ s.row[j].action = "DISABLE" /\ u.pos[j] > 0
            => u.mem[j].status # "INITIATED"

\* A tame update that ends no job behind j may come before the dispatch of j.
LEMMA ServedTrans ==
    ASSUME NEW s \in StateType, NEW t, NEW u, NEW j \in Jobs,
           StateOK(t), Tame(s, t, j),
           \A k \in Jobs : s.pos[k] > s.pos[j] => t.pos[k] = s.pos[k],
           Served(t, u, j)
    PROVE  Served(s, u, j)
<1>1. t \in StateType /\ u \in StateType /\ Tame(t, u, j) BY DEF StateOK, Served
<1>2. Tame(s, u, j) BY <1>1, TameTrans
<1>3. t.row[j].action = s.row[j].action BY DEF Tame, TameJobs
<1>4. ASSUME NEW k \in Jobs, s.pos[k] > s.pos[j] PROVE u.pos[k] = s.pos[k]
  <2>1. t.pos[k] = s.pos[k] BY <1>4
  <2>2. t.pos[j] <= s.pos[j] BY Parts DEF Tame, TameJobs
  <2>3. t.pos[k] > t.pos[j] BY <2>1, <2>2, <1>1, <1>4, Parts
  <2> QED BY <2>1, <2>3 DEF Served
<1> QED BY <1>2, <1>3, <1>4 DEF Served

\* An Update of a queued job from state s.
LEMMA UpdateOK ==
    ASSUME NEW s, StateOK(s), NEW j \in Queued(s),
           NEW st \in Statuses \ {"INITIATED"},
           st = "PENDING" => s.mem[j].pend # 0 /\ s.mem[j].ent = 0,
           st \in {"PENDING"} \cup Waiting => s.row[j].action \in StartActions,
           NEW c \in Nat, faults \in Nat, Update(s, j, st, c)
    PROVE  /\ StateOK(Now') /\ Tame(s, Now', None)
           /\ \A k \in Jobs \ {j} : pos'[k] = s.pos[k]
           /\ pos'[j] > 0 => mem'[j].status = st
           /\ Counted(s)
<1>1. PICK fail \in {"no", "row", "ins"} :
            /\ Spend(c + IF fail = "no" THEN 0 ELSE 1)
            /\ Become(JobUpdateStatus(s, j, fail, st))
  BY DEF Update
<1> DEFINE u == JobUpdateStatus(s, j, fail, st)
<1>2. /\ StateOK(u) /\ Tame(s, u, None)
      /\ u.pos[j] > 0 => u.mem[j].status = st
      /\ \A k \in Jobs \ {j} : u.pos[k] = s.pos[k]
      /\ fail # "row" => Lag(u) \subseteq Lag(s)
  BY JobUpdateStatusOK
<1> HIDE DEF u
<1>3. Now' = u BY <1>1, <1>2, BecomeNow DEF StateOK, u
<1>4. Now'.pos = pos' /\ Now'.mem = mem' BY DEF Now
<1>5. Counted(s)
  <2> DEFINE n == c + IF fail = "no" THEN 0 ELSE 1
  <2>1. n \in Nat /\ (n = 0 => fail # "row") OBVIOUS
  <2>2. Spend(n) BY <1>1
  <2> HIDE DEF n
  <2>3. CASE n = 0
    <3>1. faults' \in Nat /\ faults <= faults' BY <2>1, <2>2, SpendType
    <3> QED BY <3>1, <2>1, <2>3, <1>2, <1>3 DEF Counted
  <2>4. CASE n # 0 BY <2>1, <2>2, <2>4, SpentCounted
  <2> QED BY <2>3, <2>4
<1> QED BY <1>2, <1>3, <1>4, <1>5

\* The same, as the end of the dispatch of j.
LEMMA UpdateServed ==
    ASSUME NEW s, StateOK(s), NEW j \in Queued(s),
           NEW st \in Statuses \ {"INITIATED"},
           st = "PENDING" => s.mem[j].pend # 0 /\ s.mem[j].ent = 0,
           st \in {"PENDING"} \cup Waiting => s.row[j].action \in StartActions,
           NEW c \in Nat, faults \in Nat, Update(s, j, st, c)
    PROVE  Served(s, Now', j) /\ Counted(s)
<1>1. /\ StateOK(Now') /\ Tame(s, Now', None)
      /\ \A k \in Jobs \ {j} : pos'[k] = s.pos[k]
      /\ pos'[j] > 0 => mem'[j].status = st
      /\ Counted(s)
  BY UpdateOK
<1>2. Tame(s, Now', j) BY <1>1, TameAny
<1>3. Now'.pos = pos' /\ Now'.mem = mem' BY DEF Now
<1>4. j \in Jobs /\ s \in StateType BY DEF Queued, StateOK
<1>5. \A k \in Jobs : s.pos[k] > s.pos[j] => Now'.pos[k] = s.pos[k]
  BY <1>1, <1>3, <1>4, Parts
<1> QED BY <1>1, <1>2, <1>3, <1>5 DEF Served

\* Entities may be released, and fields that count no jobs may change.
LEMMA EntitiesOK ==
    ASSUME NEW s, StateOK(s), NEW v \in StateType,
           v.pos = s.pos, v.mem = s.mem, v.row = s.row, v.ins = s.ins,
           \A t \in Slots :
              /\ v.ent[t].busy <= s.ent[t].busy
              /\ IF v.ent[t].type = "node" THEN v.ent[t].db \in Nodes
                 ELSE v.ent[t].busy = 0
    PROVE  StateOK(v) /\ Tame(s, v, None) /\ Lag(v) = Lag(s)
<1>0. s \in StateType BY DEF StateOK
<1>1. \A t : HoldersIn(v, t) = HoldersIn(s, t) BY DEF HoldersIn, Queued
<1>2. BusyHeld(v) BY <1>0, <1>1, Parts DEF StateOK, BusyHeld
<1>3. Tame(s, v, None) BY DEF Tame, TameJobs, Lives
<1>4. Lag(v) = Lag(s) BY DEF Lag
<1> QED BY <1>2, <1>3, <1>4 DEF StateOK, NodeSlots, OverIsOut, FreshIdle, PendingStarts

\* The job that is being served, which held no count, may take an entity.
LEMMA TouchOK ==
    ASSUME NEW s, StateOK(s), NEW j \in Queued(s), NEW v \in StateType,
           s.mem[j].status \notin {"INITIATED", "PENDING"}, s.mem[j].pend # 0,
           v.pos = s.pos, v.row = s.row, v.ent = s.ent,
           \A k \in Jobs \ {j} : v.mem[k] = s.mem[k],
           v.mem[j].status = s.mem[j].status,
           \A i \in Instances : v.ins[i].life = s.ins[i].life
    PROVE  StateOK(v) /\ Tame(s, v, j) /\ Lag(v) = Lag(s)
<1>0. s \in StateType /\ j \in Jobs BY DEF StateOK, Queued
<1>1. ASSUME NEW t PROVE HoldersIn(s, t) \subseteq HoldersIn(v, t)
  BY DEF HoldersIn, Holders, Queued
<1>2. ASSUME NEW t PROVE Cardinality(HoldersIn(s, t)) <= Cardinality(HoldersIn(v, t))
  <2>1. HoldersIn(v, t) \subseteq Jobs BY Parts
  <2>2. IsFiniteSet(HoldersIn(v, t)) BY <2>1, JobsFinite
  <2> QED BY <1>1, <2>2, FS_Subset
<1>3. BusyHeld(v) BY <1>0, <1>2, Parts DEF StateOK, BusyHeld
<1>4. Tame(s, v, j) BY <1>0 DEF Tame, TameJobs, Lives
<1>5. Lag(v) = Lag(s) BY DEF Lag
<1> QED BY <1>0, <1>3, <1>4, <1>5 DEF StateOK, NodeSlots, OverIsOut, FreshIdle, PendingStarts

---------------------------------------------------------------------------
(* __job_run and job_dispatch.                                             *)

\* The job becomes RUNNING before anything else happens to it.
LEMMA RunningOK ==
    ASSUME StateOK(Now), NEW j \in Queue,
           mem[j].status \in {"INITIATED", "PENDING"},
           NEW fail \in {"no", "row", "ins"}
    PROVE  LET s == JobUpdateStatus(Now, j, fail, "RUNNING")
           IN  /\ StateOK(s) /\ Tame(Now, s, None) /\ Served(Now, s, j)
               /\ j \in Queued(s)
               /\ s.pos = pos /\ s.ent = ent /\ s.ins = ins
               /\ s.mem[j].status = "RUNNING"
               /\ s.mem[j].pend # 0 /\ s.mem[j].ent = 0
               /\ fail = "no" => Lag(s) \subseteq Lag(Now)
<1> DEFINE s == JobUpdateStatus(Now, j, fail, "RUNNING")
           D == IF fail = "row" THEN {} ELSE {j}
           t == SetStatus(Now, {j}, D, "RUNNING")
<1>0. j \in Queued(Now) /\ j \in Jobs /\ Now \in StateType
  BY NowParts DEF Queue, StateOK
<1>1. s = t BY DEF JobUpdateStatus, Ended
<1>2. D \subseteq {j} /\ D \subseteq Queued(Now) BY <1>0
<1>3. "RUNNING" \in Statuses \ (Ended \cup {"INITIATED"})
  BY DEF Statuses, Ended, Waiting
<1>x. "RUNNING" # "PENDING" /\ "RUNNING" \notin {"PENDING"} \cup Waiting
  BY DEF Waiting
<1> HIDE DEF D
<1>4. /\ StateOK(t) /\ Tame(Now, t, None)
      /\ t.pos = Now.pos /\ t.mem[j].status = "RUNNING"
      /\ D = {j} => Lag(t) \subseteq Lag(Now)
  <2>1. PICK st : st = "RUNNING" OBVIOUS
  <2>2. /\ st \in Statuses \ (Ended \cup {"INITIATED"})
        /\ st # "PENDING" /\ st \notin {"PENDING"} \cup Waiting
    BY <1>3, <1>x, <2>1
  <2>3. LET u == SetStatus(Now, {j}, D, st)
        IN  /\ StateOK(u) /\ Tame(Now, u, None)
            /\ u.pos = Now.pos /\ u.mem[j].status = st
            /\ D = {j} => Lag(u) \subseteq Lag(Now)
    BY <1>0, <1>2, <2>2, SetStatusOK
  <2> QED BY <2>1, <2>3
<1>5. t.ent = Now.ent /\ t.ins = Now.ins
      /\ t.mem[j].pend = Now.mem[j].pend /\ t.mem[j].ent = Now.mem[j].ent
  BY <1>0, <1>3, SetStatusParts
<1>6. mem[j].pend # 0 /\ mem[j].ent = 0
  BY <1>0, NowParts DEF StateOK, FreshIdle, Queued
<1> HIDE DEF t, s
<1>7. Served(Now, t, j) BY <1>4, TameAny DEF Served
<1>8. fail = "no" => D = {j} BY DEF D
<1> QED BY <1>0, <1>1, <1>4, <1>5, <1>6, <1>7, <1>8, NowParts DEF Queued, s

\* node_schedule returns a node entity, or a reason.
LEMMA ScheduleNode ==
    ASSUME NEW e, NEW n, NEW o \in NodeSchedule(e, n), o \in Slots
    PROVE  e[o].type = "node"
<1>1. o \notin {UNAVAIL, BUSY, STROKE}
  BY ConstantsOK DEF Slots, UNAVAIL, BUSY, STROKE
<1> QED BY <1>1 DEF NodeSchedule, Usable

\* Update from a state that serving j has reached.
LEMMA ThenUpdate ==
    ASSUME NEW s, StateOK(s), StateOK(Now), NEW j \in Queue, s.pos = pos,
           Tame(Now, s, j), NEW st \in Statuses \ {"INITIATED"},
           st = "PENDING" => s.mem[j].pend # 0 /\ s.mem[j].ent = 0,
           st \in {"PENDING"} \cup Waiting => s.row[j].action \in StartActions,
           NEW c \in Nat, faults \in Nat, Update(s, j, st, c),
           c = 0 => Lag(s) \subseteq Lag(Now)
    PROVE  Served(Now, Now', j) /\ Counted(Now)
<1>1. j \in Queued(s) /\ j \in Jobs BY DEF Queued, Queue
<1>2. Served(s, Now', j) /\ Counted(s) BY <1>1, UpdateServed
<1>3. Served(Now, Now', j) BY <1>1, <1>2, ServedTrans, NowParts DEF StateOK
<1>4. CASE c = 0
  <2>1. Lag(s) \subseteq Lag(Now) BY <1>4
  <2>2. faults' = faults => Lag(Now') \subseteq Lag(s) BY <1>2 DEF Counted
  <2>3. faults' = faults => Lag(Now') \subseteq Lag(Now)
    <3> DEFINE x == Lag(Now')
               y == Lag(Now)
               z == Lag(s)
    <3>1. z \subseteq y /\ (faults' = faults => x \subseteq z) BY <2>1, <2>2
    <3> HIDE DEF x, y, z
    <3>2. faults' = faults => x \subseteq y BY <3>1
    <3> QED BY <3>2 DEF x, y
  <2> QED BY <2>3, <1>2, <1>3 DEF Counted
<1>5. CASE c # 0
  <2>1. PICK fail \in {"no", "row", "ins"} : Spend(c + IF fail = "no" THEN 0 ELSE 1)
    BY DEF Update
  <2>2. (c + IF fail = "no" THEN 0 ELSE 1) \in Nat \ {0} BY <1>5
  <2> QED BY <2>1, <2>2, <1>3, SpentCounted
<1> QED BY <1>3, <1>4, <1>5

\* __job_start_instance of a job that is new or pending.
LEMMA StartInstanceOK ==
    ASSUME StateOK(Now), faults \in Nat, NEW j \in Queue,
           mem[j].status \in {"INITIATED", "PENDING"},
           row[j].action \in StartActions, StartInstance(j)
    PROVE  /\ Served(Now, Now', j) /\ Counted(Now)
           /\ wire' = wire \/ \E n \in Nodes : Send(j, n)
<1> DEFINE i == row[j].target
           s0 == JobUpdateStatus(Now, j, "no", "RUNNING")
           s == [s0 EXCEPT !.mem[j].pend = 0]
           f == JobUpdateStatus(Now, j, "row", "RUNNING")
<1>0. j \in Jobs BY DEF Queue
<1>1. /\ StateOK(s0) /\ Tame(Now, s0, None) /\ j \in Queued(s0)
      /\ s0.pos = pos /\ s0.ent = ent /\ s0.ins = ins
      /\ s0.mem[j].status = "RUNNING"
      /\ s0.mem[j].pend # 0 /\ s0.mem[j].ent = 0
      /\ Lag(s0) \subseteq Lag(Now)
  BY RunningOK
<1>2. StateOK(f) /\ Served(Now, f, j) BY RunningOK
<1> HIDE DEF s0, f
<1>3. s0 \in StateType /\ s0.mem[j] \in MemType /\ s0.mem \in [Jobs -> MemType]
  BY <1>0, <1>1, Parts DEF StateOK
<1>4. s0.row[j].action \in StartActions BY <1>0, <1>1, NowParts DEF Tame, TameJobs
\* every state that differs from s0 in the entry of j and in the instances only
<1>5. ASSUME NEW v \in StateType, v.pos = s0.pos, v.row = s0.row, v.ent = s0.ent,
             \A k \in Jobs \ {j} : v.mem[k] = s0.mem[k],
             v.mem[j].status = "RUNNING",
             \A x \in Instances : v.ins[x].life = s0.ins[x].life
      PROVE  StateOK(v) /\ Tame(Now, v, j) /\ v.pos = pos /\ Lag(v) \subseteq Lag(Now)
  <2>1. StateOK(v) /\ Tame(s0, v, j) /\ Lag(v) = Lag(s0) BY <1>1, <1>5, TouchOK
  <2>2. Tame(Now, s0, j) BY <1>1, TameAny
  <2>3. Tame(Now, v, j) BY <2>1, <2>2, <1>1, TameTrans DEF StateOK
  <2> QED BY <2>1, <2>3, <1>1, <1>5
<1>6. /\ s \in StateType /\ s.pos = s0.pos /\ s.row = s0.row /\ s.ent = s0.ent
      /\ s.ins = s0.ins
      /\ \A k \in Jobs \ {j} : s.mem[k] = s0.mem[k]
      /\ s.mem[j].status = "RUNNING" /\ s.mem[j].ent = 0 /\ s.mem[j].pend = 0
  BY <1>0, <1>1, <1>3 DEF StateType, MemType
<1>7. StateOK(s) /\ Tame(Now, s, j) /\ s.pos = pos /\ Lag(s) \subseteq Lag(Now)
  BY <1>5, <1>6
<1> HIDE DEF s
<1>8. CASE Spend(1) /\ Become(f) /\ UNCHANGED wire
  BY <1>2, <1>8, BecomeNow, SpentCounted DEF StateOK
<1>9. CASE /\ Update(s, j, "FAILURE", IF ins[i].life = "GONE" THEN 0 ELSE 1)
           /\ UNCHANGED wire
  <2>1. (IF ins[i].life = "GONE" THEN 0 ELSE 1) \in Nat OBVIOUS
  <2> QED BY <2>1, <1>7, <1>9, ThenUpdate, StatusFacts
<1>10. ASSUME NEW o \in NodeSchedule(ent, ins[i].node),
              o \in {UNAVAIL, BUSY}, Update(s, j, "FAILURE", 0), UNCHANGED wire
       PROVE  Served(Now, Now', j) /\ Counted(Now)
  BY <1>7, <1>10, ThenUpdate, StatusFacts
<1>11. ASSUME NEW o \in NodeSchedule(ent, ins[i].node), o = STROKE,
              Update([s EXCEPT !.mem[j].pend = 1], j, "PENDING", 0),
              UNCHANGED wire
       PROVE  Served(Now, Now', j) /\ Counted(Now)
  <2> DEFINE p == [s EXCEPT !.mem[j].pend = 1]
  <2>1. /\ p \in StateType /\ p.pos = s.pos /\ p.row = s.row /\ p.ent = s.ent
        /\ p.ins = s.ins
        /\ \A k \in Jobs \ {j} : p.mem[k] = s.mem[k]
        /\ p.mem[j].status = "RUNNING" /\ p.mem[j].ent = 0 /\ p.mem[j].pend = 1
    BY <1>0, <1>6 DEF StateType, MemType
  <2> HIDE DEF p
  <2>2. StateOK(p) /\ Tame(Now, p, j) /\ p.pos = pos /\ Lag(p) \subseteq Lag(Now)
    BY <2>1, <1>5, <1>6
  <2>3. p.row[j].action \in StartActions BY <2>1, <1>6, <1>4
  <2>4. Update(p, j, "PENDING", 0) BY <1>11 DEF p
  <2> QED BY <2>1, <2>2, <2>3, <2>4, ThenUpdate, StatusFacts
<1> DEFINE t(o) == [s EXCEPT !.mem[j].ent = o]
           u(o) == [t(o) EXCEPT !.ins = SetNode(ins, i, ent[o].db)]
           v(o, room) == [u(o) EXCEPT !.ent[o].busy = @ + 1, !.ent[o].room = room]
<1>12. ASSUME NEW o \in NodeSchedule(ent, ins[i].node), o \in Slots
       PROVE  /\ \A w \in {t(o), u(o)} :
                   /\ w \in StateType
                   /\ w.pos = s0.pos /\ w.row = s0.row /\ w.ent = s0.ent
                   /\ \A k \in Jobs \ {j} : w.mem[k] = s0.mem[k]
                   /\ w.mem[j].status = "RUNNING" /\ w.mem[j].pend = 0
                   /\ w.mem[j].ent = o
                   /\ \A x \in Instances : w.ins[x].life = s0.ins[x].life
                   /\ StateOK(w) /\ Tame(Now, w, j) /\ w.pos = pos
                   /\ Lag(w) \subseteq Lag(Now)
              /\ ent[o].db \in Nodes /\ ent[o].type = "node"
  <2> DEFINE tt == t(o)
             uu == u(o)
  <2>0. o \in 0 .. MaxSlot BY <1>12 DEF Slots
  <2>1. ent[o].type = "node" /\ ent[o].db \in Nodes
    BY <1>12, ScheduleNode, NowParts DEF StateOK, NodeSlots
  <2>2. /\ SetNode(ins, i, ent[o].db) \in [Instances -> InsType]
        /\ \A x \in Instances : SetNode(ins, i, ent[o].db)[x].life = ins[x].life
    <3>1. ent[o].db \in Nat \cup {-1} BY <2>1, ConstantsOK
    <3>2. ins \in [Instances -> InsType] BY NowParts, Parts DEF StateOK
    <3> QED BY <3>1, <3>2, SetNodeType
  <2>3. /\ tt \in StateType /\ tt.pos = s.pos /\ tt.row = s.row /\ tt.ent = s.ent
        /\ tt.ins = s.ins
        /\ \A k \in Jobs \ {j} : tt.mem[k] = s.mem[k]
        /\ tt.mem[j].status = "RUNNING" /\ tt.mem[j].pend = 0 /\ tt.mem[j].ent = o
    BY <1>0, <1>6, <2>0 DEF StateType, MemType
  <2>4. uu = [tt EXCEPT !.ins = SetNode(ins, i, ent[o].db)] OBVIOUS
  <2> HIDE DEF tt, uu, t, u
  <2>5. /\ uu \in StateType /\ uu.pos = tt.pos /\ uu.row = tt.row
        /\ uu.ent = tt.ent /\ uu.mem = tt.mem
        /\ uu.ins = SetNode(ins, i, ent[o].db)
    BY <2>2, <2>3, <2>4 DEF StateType
  <2>6. /\ StateOK(tt) /\ Tame(Now, tt, j) /\ tt.pos = pos
        /\ Lag(tt) \subseteq Lag(Now)
    BY <2>3, <1>5, <1>6
  <2>8. \A x \in Instances : uu.ins[x].life = s0.ins[x].life BY <2>2, <2>5, <1>1
  <2>7. /\ StateOK(uu) /\ Tame(Now, uu, j) /\ uu.pos = pos
        /\ Lag(uu) \subseteq Lag(Now)
    <3>1. \A k \in Jobs \ {j} : uu.mem[k] = s0.mem[k] BY <2>3, <2>5, <1>6
    <3>2. uu.mem[j].status = "RUNNING" BY <2>3, <2>5
    <3> QED BY <2>3, <2>5, <2>8, <3>1, <3>2, <1>5, <1>6
  <2> QED BY <2>1, <2>3, <2>5, <2>6, <2>7, <2>8, <1>6 DEF tt, uu
<1> HIDE DEF t, u
<1>13. ASSUME NEW o \in NodeSchedule(ent, ins[i].node), o \in Slots,
              NEW w \in {t(o), u(o)}, Update(w, j, "FAILURE", 1)
       PROVE  Served(Now, Now', j) /\ Counted(Now)
  BY <1>12, <1>13, ThenUpdate, StatusFacts
<1>14. ASSUME NEW o \in NodeSchedule(ent, ins[i].node), o \in Slots,
              NEW room \in BOOLEAN, Become(v(o, room)), UNCHANGED faults
       PROVE  Served(Now, Now', j) /\ Counted(Now)
  <2> DEFINE uu == u(o)
             vv == v(o, room)
             e == [uu.ent EXCEPT ![o].busy = @ + 1, ![o].room = room]
  <2>1. /\ uu \in StateType
        /\ uu.pos = s0.pos /\ uu.row = s0.row /\ uu.ent = s0.ent
        /\ \A k \in Jobs \ {j} : uu.mem[k] = s0.mem[k]
        /\ uu.mem[j].status = "RUNNING" /\ uu.mem[j].pend = 0
        /\ uu.mem[j].ent = o
        /\ StateOK(uu) /\ Tame(Now, uu, j) /\ uu.pos = pos
        /\ Lag(uu) \subseteq Lag(Now)
        /\ ent[o].type = "node"
    BY <1>12, <1>14
  <2>2. vv = [uu EXCEPT !.ent[o].busy = @ + 1, !.ent[o].room = room] OBVIOUS
  <2> HIDE DEF uu, vv, v
  <2>3. /\ vv \in StateType
        /\ vv.pos = uu.pos /\ vv.row = uu.row /\ vv.mem = uu.mem /\ vv.ins = uu.ins
        /\ \A x \in Slots \ {o} : vv.ent[x] = uu.ent[x]
        /\ vv.ent[o].busy = uu.ent[o].busy + 1
        /\ vv.ent[o].type = uu.ent[o].type /\ vv.ent[o].db = uu.ent[o].db
    <3>1. uu.ent \in [Slots -> EntType] BY <2>1, Parts
    <3>2. /\ e \in [Slots -> EntType]
          /\ \A x \in Slots \ {o} : e[x] = uu.ent[x]
          /\ e[o].busy = uu.ent[o].busy + 1
          /\ e[o].type = uu.ent[o].type /\ e[o].db = uu.ent[o].db
      BY <3>1, <1>14 DEF EntType
    <3>3. vv = [uu EXCEPT !.ent = e]
      BY <1>14, <2>1, <2>2, <3>1 DEF StateType, EntType
    <3> HIDE DEF e
    <3> QED BY <2>1, <3>2, <3>3 DEF StateType
  <2>4. BusyHeld(vv)
    <3> SUFFICES ASSUME NEW x \in Slots
                 PROVE  vv.ent[x].busy <= Cardinality(HoldersIn(vv, x))
      BY DEF BusyHeld
    <3>1. HoldersIn(vv, x) = HoldersIn(uu, x) BY <2>3 DEF HoldersIn, Queued
    <3>2. CASE x # o BY <3>1, <3>2, <2>1, <2>3 DEF StateOK, BusyHeld
    <3>3. CASE x = o
      <4>1. j \notin HoldersIn(s0, o) BY <1>1 DEF HoldersIn, Holders
      <4>2. HoldersIn(uu, o) = HoldersIn(s0, o) \cup {j}
        BY <1>0, <1>1, <2>1 DEF HoldersIn, Holders, Queued
      <4>3. IsFiniteSet(HoldersIn(s0, o)) /\ Cardinality(HoldersIn(s0, o)) \in Nat
        BY <1>3, Parts, JobsFinite
      <4>4. Cardinality(HoldersIn(uu, o)) = Cardinality(HoldersIn(s0, o)) + 1
        BY <4>1, <4>2, <4>3, FS_AddElement
      <4>5. s0.ent[o].busy <= Cardinality(HoldersIn(s0, o)) /\ s0.ent[o].busy \in Nat
        BY <1>1, <1>3, <1>14, Parts DEF StateOK, BusyHeld
      <4> QED BY <3>1, <3>3, <4>3, <4>4, <4>5, <2>1, <2>3
    <3> QED BY <3>2, <3>3
  <2>5. NodeSlots(vv) BY <2>1, <2>3, <1>1 DEF NodeSlots, StateOK
  <2>6. OverIsOut(vv) /\ FreshIdle(vv) /\ PendingStarts(vv)
    BY <2>1, <2>3 DEF StateOK, OverIsOut, FreshIdle, PendingStarts
  <2>7. StateOK(vv) BY <2>3, <2>4, <2>5, <2>6 DEF StateOK
  <2>8. Tame(Now, vv, j) BY <2>1, <2>3 DEF Tame, TameJobs, Lives, Destroyed
  <2>9. Now' = vv BY <1>14, <2>3, BecomeNow DEF vv
  <2>11. Counted(Now)
    <3>1. Lag(vv) = Lag(uu) BY <2>3 DEF Lag
    <3>2. Become(vv) BY <1>14 DEF vv
    <3> QED BY <1>14, <2>1, <2>3, <3>1, <3>2, BecomeCounted
  <2>10. vv.pos = pos /\ vv.mem[j].status = "RUNNING" BY <2>1, <2>3
  <2> QED BY <2>7, <2>8, <2>9, <2>10, <2>11, NowParts DEF Served
<1>15. ASSUME NEW o \in NodeSchedule(ent, ins[i].node), o \in Slots,
              NEW room \in {ent[o].room} \cup (Rooms \ {TRUE}),
              Become(v(o, room)), Send(j, ent[o].db), UNCHANGED faults
       PROVE  /\ Served(Now, Now', j) /\ Counted(Now)
              /\ \E n \in Nodes : Send(j, n)
  <2>1. ent[o].db \in Nodes BY <1>12, <1>15
  <2>2. room \in BOOLEAN
    <3>1. ent[o] \in EntType BY <1>15, NowParts, Parts DEF StateOK
    <3> QED BY <3>1, ConstantsOK DEF EntType
  <2> QED BY <2>1, <2>2, <1>14, <1>15
<1> HIDE DEF v
<1>16. CASE \E o \in NodeSchedule(ent, ins[i].node) :
                \/ /\ o \in {UNAVAIL, BUSY}
                   /\ Update(s, j, "FAILURE", 0)
                   /\ UNCHANGED wire
                \/ /\ o = STROKE
                   /\ Update([s EXCEPT !.mem[j].pend = 1], j, "PENDING", 0)
                   /\ UNCHANGED wire
                \/ /\ o \in Slots
                   /\ \/ /\ \E w \in {t(o), u(o)} : Update(w, j, "FAILURE", 1)
                         /\ UNCHANGED wire
                      \/ /\ \E room \in {ent[o].room} \cup (Rooms \ {TRUE}) :
                                  Become(v(o, room))
                         /\ Send(j, ent[o].db)
                         /\ UNCHANGED faults
  BY <1>10, <1>11, <1>13, <1>15, <1>16, Zenon
<1> QED BY <1>8, <1>9, <1>16 DEF StartInstance, s, s0, f, t, u, v

\* A dispatch that leaves everything as it is.
LEMMA IdleServed ==
    ASSUME StateOK(Now), NEW j \in Queue, UNCHANGED clcVars,
           row[j].action # "DISABLE" \/ mem[j].status # "INITIATED"
    PROVE  Served(Now, Now', j)
<1>1. Now' = Now BY DEF clcVars, Now
<1> QED BY <1>1, TameRefl, NowParts DEF Served

\* __job_start_instance of a job that waits for its OS manager.
LEMMA WaitOsmOK ==
    ASSUME StateOK(Now), faults \in Nat, NEW j \in Queue,
           mem[j].status \in Waiting, row[j].action \in StartActions, WaitOsm(j)
    PROVE  Served(Now, Now', j) /\ Counted(Now)
<1>1. \/ \E st \in {"SYCING_OSM", "STARTING_SERVICE", "SUCCESS", "FAILURE"} :
            Update(Now, j, st, 0)
      \/ StillWaiting(j)
  BY DEF WaitOsm, Waiting
<1>2. CASE StillWaiting(j)
  BY <1>2, IdleServed, IdleCounted DEF StillWaiting, Waiting
<1>3. ASSUME NEW st \in {"SYCING_OSM", "STARTING_SERVICE", "SUCCESS", "FAILURE"},
             Update(Now, j, st, 0)
      PROVE  Served(Now, Now', j) /\ Counted(Now)
  <2>1. st \in Statuses \ {"INITIATED"} /\ st # "PENDING" BY StatusFacts
  <2> QED BY <1>3, <2>1, TameRefl, NowParts, ThenUpdate
<1> QED BY <1>1, <1>2, <1>3

\* A request to entity t, or the failure to send it.
LEMMA RelayOK ==
    ASSUME StateOK(Now), faults \in Nat, NEW j \in Queue, NEW s, StateOK(s),
           Tame(Now, s, None), s.pos = pos, j \in Queued(s),
           s.mem[j].status = "RUNNING", s.mem[j].pend # 0,
           Lag(s) \subseteq Lag(Now),
           NEW t \in Slots, NEW to, Relay(s, j, t, to)
    PROVE  /\ Served(Now, Now', j) /\ Counted(Now)
           /\ wire' = wire \/ Send(j, to)
<1> DEFINE v == [s EXCEPT !.mem[j].ent = t]
<1>0. j \in Jobs /\ s \in StateType /\ t \in 0 .. MaxSlot
  BY DEF Queue, StateOK, Slots
<1>1. /\ v \in StateType /\ v.pos = s.pos /\ v.row = s.row /\ v.ent = s.ent
      /\ v.ins = s.ins
      /\ \A k \in Jobs \ {j} : v.mem[k] = s.mem[k]
      /\ v.mem[j].status = "RUNNING"
  BY <1>0 DEF StateType, MemType
<1>2. \/ Become(v) /\ Send(j, to) /\ UNCHANGED faults
      \/ Update(v, j, "FAILURE", 1) /\ UNCHANGED wire
  BY DEF Relay
<1> HIDE DEF v
<1>3. StateOK(v) /\ Tame(s, v, j) /\ Lag(v) \subseteq Lag(Now) BY <1>1, TouchOK
<1>4. Tame(Now, v, j)
  <2>1. Tame(Now, s, j) BY TameAny
  <2> QED BY <2>1, <1>0, <1>1, <1>3, TameTrans DEF StateOK
<1>5. CASE Become(v) /\ Send(j, to) /\ UNCHANGED faults
  <2>1. Now' = v BY <1>1, <1>5, BecomeNow
  <2>2. Counted(Now) BY <1>1, <1>3, <1>5, BecomeCounted
  <2> QED BY <2>1, <2>2, <1>1, <1>3, <1>4, <1>5, NowParts DEF Served
<1>6. CASE Update(v, j, "FAILURE", 1) /\ UNCHANGED wire
  BY <1>1, <1>3, <1>4, <1>6, StatusFacts, ThenUpdate
<1> QED BY <1>2, <1>5, <1>6

\* __job_control_instance_simple
LEMMA ControlSimpleOK ==
    ASSUME StateOK(Now), faults \in Nat, NEW j \in Queue,
           mem[j].status \in {"INITIATED", "PENDING"}, ControlInstanceSimple(j)
    PROVE  /\ Served(Now, Now', j) /\ Counted(Now)
           /\ wire' = wire \/ \E n \in Nodes : Send(j, n)
<1> DEFINE i == row[j].target
           s == JobUpdateStatus(Now, j, "no", "RUNNING")
           f == JobUpdateStatus(Now, j, "row", "RUNNING")
<1>1. /\ StateOK(s) /\ Tame(Now, s, None) /\ j \in Queued(s) /\ s.pos = pos
      /\ s.mem[j].status = "RUNNING" /\ s.mem[j].pend # 0
      /\ Lag(s) \subseteq Lag(Now)
  BY RunningOK
<1>2. StateOK(f) /\ Served(Now, f, j) BY RunningOK
<1>3. Tame(Now, s, j) BY <1>1, TameAny
<1>4. \/ Spend(1) /\ Become(f) /\ UNCHANGED wire
      \/ /\ Update(s, j, "FAILURE", IF ins[i].life = "GONE" THEN 0 ELSE 1)
         /\ UNCHANGED wire
      \/ Update(s, j, "SUCCESS", 0) /\ UNCHANGED wire
      \/ Update(s, j, "FAILURE", 0) /\ UNCHANGED wire
      \/ \E node : \E t \in FindByDb(ent, "node", node) : Relay(s, j, t, node)
  BY Zenon DEF ControlInstanceSimple
<1> HIDE DEF s, f
<1>5. CASE Spend(1) /\ Become(f) /\ UNCHANGED wire
  BY <1>2, <1>5, BecomeNow, SpentCounted DEF StateOK
<1>6. ASSUME NEW st \in {"FAILURE", "SUCCESS"}, NEW c \in Nat, Update(s, j, st, c)
      PROVE  Served(Now, Now', j) /\ Counted(Now)
  <2>1. st \in Statuses \ {"INITIATED"} /\ st \notin {"PENDING"} \cup Waiting
    BY StatusFacts
  <2> QED BY <1>1, <1>3, <1>6, <2>1, ThenUpdate
<1>7. ASSUME NEW node, NEW t \in FindByDb(ent, "node", node), Relay(s, j, t, node)
      PROVE  /\ Served(Now, Now', j) /\ Counted(Now)
             /\ wire' = wire \/ \E n \in Nodes : Send(j, n)
  <2>1. t \in Slots /\ node \in Nodes
    BY <1>7, NowParts DEF FindByDb, StateOK, NodeSlots
  <2> QED BY <1>1, <1>7, <2>1, RelayOK
<1>8. (IF ins[i].life = "GONE" THEN 0 ELSE 1) \in Nat OBVIOUS
<1> QED BY <1>4, <1>5, <1>6, <1>7, <1>8

\* __job_query_node and __job_query_osm
LEMMA QueryPeerOK ==
    ASSUME StateOK(Now), faults \in Nat, NEW j \in Queue,
           mem[j].status \in {"INITIATED", "PENDING"}, QueryPeer(j)
    PROVE  /\ Served(Now, Now', j) /\ Counted(Now)
           /\ \/ wire' = wire \/ \E n \in Nodes : Send(j, n)
              \/ row[j].action = "OSM_QUERY" /\ Send(j, -1)
<1> DEFINE s == JobUpdateStatus(Now, j, "no", "RUNNING")
           f == JobUpdateStatus(Now, j, "row", "RUNNING")
           osm == row[j].action = "OSM_QUERY"
           found == FindByDb(ent, IF osm THEN "osm" ELSE "node", row[j].target)
           to == IF osm THEN -1 ELSE row[j].target
<1>1. /\ StateOK(s) /\ Tame(Now, s, None) /\ j \in Queued(s) /\ s.pos = pos
      /\ s.mem[j].status = "RUNNING" /\ s.mem[j].pend # 0
      /\ Lag(s) \subseteq Lag(Now)
  BY RunningOK
<1>2. StateOK(f) /\ Served(Now, f, j) BY RunningOK
<1>3. Tame(Now, s, j) BY <1>1, TameAny
<1>4. \/ Spend(1) /\ Become(f) /\ UNCHANGED wire
      \/ Update(s, j, "SUCCESS", 0) /\ UNCHANGED wire
      \/ \E t \in found : Relay(s, j, t, to)
  BY Zenon DEF QueryPeer
<1> HIDE DEF s, f
<1>5. CASE Spend(1) /\ Become(f) /\ UNCHANGED wire
  BY <1>2, <1>5, BecomeNow, SpentCounted DEF StateOK
<1>6. CASE Update(s, j, "SUCCESS", 0) /\ UNCHANGED wire
  BY <1>1, <1>3, <1>6, StatusFacts, ThenUpdate
<1>7. ASSUME NEW t \in found, Relay(s, j, t, to)
      PROVE  /\ Served(Now, Now', j) /\ Counted(Now)
             /\ \/ wire' = wire \/ \E n \in Nodes : Send(j, n)
                \/ row[j].action = "OSM_QUERY" /\ Send(j, -1)
  <2>1. t \in Slots /\ (~ osm => to \in Nodes)
    BY <1>7, NowParts DEF FindByDb, StateOK, NodeSlots
  <2>2. /\ Served(Now, Now', j) /\ Counted(Now)
        /\ wire' = wire \/ Send(j, to)
    <3> HIDE DEF to
    <3> QED BY <1>1, <1>7, <2>1, RelayOK
  <2> QED BY <2>1, <2>2
<1> QED BY <1>4, <1>5, <1>6, <1>7

\* Fields of entities that say nothing of jobs change: state v for s.
LEMMA RelabelOK ==
    ASSUME NEW s, StateOK(s), NEW e \in [Slots -> EntType],
           \A t \in Slots : /\ e[t].type = s.ent[t].type
                            /\ e[t].db = s.ent[t].db
                            /\ e[t].busy = s.ent[t].busy
    PROVE  LET v == [s EXCEPT !.ent = e]
           IN  /\ v \in StateType /\ StateOK(v) /\ Tame(s, v, None)
               /\ v.pos = s.pos /\ v.mem = s.mem /\ v.row = s.row
               /\ Lag(v) = Lag(s)
<1> DEFINE v == [s EXCEPT !.ent = e]
<1>0. s \in StateType BY DEF StateOK
<1>1. /\ v \in StateType /\ v.ent = e
      /\ v.pos = s.pos /\ v.mem = s.mem /\ v.row = s.row /\ v.ins = s.ins
  BY <1>0 DEF StateType
<1> HIDE DEF v
<1>2. \A t \in Slots :
          /\ v.ent[t].busy <= s.ent[t].busy
          /\ IF v.ent[t].type = "node" THEN v.ent[t].db \in Nodes
             ELSE v.ent[t].busy = 0
  BY <1>0, <1>1, Parts DEF StateOK, NodeSlots
<1>3. StateOK(v) /\ Tame(s, v, None) /\ Lag(v) = Lag(s) BY <1>1, <1>2, EntitiesOK
<1> QED BY <1>1, <1>3 DEF v

\* __job_node_enable
LEMMA NodeEnableOK ==
    ASSUME StateOK(Now), faults \in Nat, NEW j \in Queue, NodeEnable(j),
           en \in [Nodes -> BOOLEAN]
    PROVE  /\ Served(Now, Now', j) /\ Counted(Now)
           /\ en' \in [Nodes -> BOOLEAN]
<1> DEFINE n == row[j].target
           found == FindByDb(ent, "node", n)
           e == [t \in Slots |-> IF t \in found THEN [ent[t] EXCEPT !.join = TRUE]
                                 ELSE ent[t]]
           v == [Now EXCEPT !.ent = e]
<1>1. /\ \/ \E c \in {0, 1} : Update(Now, j, "FAILURE", c)
         \/ Update(v, j, "SUCCESS", 0)
      /\ en' \in {en, [en EXCEPT ![n] = TRUE]}
  BY DEF NodeEnable
<1>2. ent \in [Slots -> EntType] /\ Now.ent = ent BY NowParts, Parts DEF StateOK
<1>3. /\ e \in [Slots -> EntType]
      /\ \A t \in Slots : /\ e[t].type = ent[t].type
                          /\ e[t].db = ent[t].db
                          /\ e[t].busy = ent[t].busy
  BY <1>2 DEF EntType
<1> HIDE DEF e
<1>4. StateOK(v) /\ Tame(Now, v, None) /\ v.pos = pos /\ Lag(v) = Lag(Now)
  BY <1>2, <1>3, RelabelOK, NowParts
<1>5. Tame(Now, v, j) BY <1>4, TameAny
<1> HIDE DEF v
<1>6. ASSUME NEW c \in {0, 1}, Update(Now, j, "FAILURE", c)
      PROVE  Served(Now, Now', j) /\ Counted(Now)
  BY <1>6, TameRefl, NowParts, StatusFacts, ThenUpdate
<1>7. ASSUME Update(v, j, "SUCCESS", 0)
      PROVE  Served(Now, Now', j) /\ Counted(Now)
  BY <1>4, <1>5, <1>7, StatusFacts, ThenUpdate
<1> QED BY <1>1, <1>6, <1>7

\* __job_node_config
LEMMA NodeConfigOK ==
    ASSUME StateOK(Now), faults \in Nat, NEW j \in Queue, NodeConfig(j)
    PROVE  Served(Now, Now', j) /\ Counted(Now)
<1> DEFINE found == FindByDb(ent, "node", row[j].target)
           e(room) == [t \in Slots |-> IF t \in found
                                       THEN [ent[t] EXCEPT !.room = room[t]]
                                       ELSE ent[t]]
           v(room) == [Now EXCEPT !.ent = e(room)]
<1>1. \/ \E room \in [found -> Rooms] : Update(v(room), j, "SUCCESS", 0)
      \/ Update(Now, j, "FAILURE", 1)
  BY DEF NodeConfig
<1>2. ent \in [Slots -> EntType] /\ Now.ent = ent BY NowParts, Parts DEF StateOK
<1>3. ASSUME NEW room \in [found -> Rooms], Update(v(room), j, "SUCCESS", 0)
      PROVE  Served(Now, Now', j) /\ Counted(Now)
  <2> DEFINE ee == e(room)
             vv == [Now EXCEPT !.ent = ee]
  <2>1. /\ ee \in [Slots -> EntType]
        /\ \A t \in Slots : /\ ee[t].type = ent[t].type
                            /\ ee[t].db = ent[t].db
                            /\ ee[t].busy = ent[t].busy
    <3>1. \A t \in found : room[t] \in BOOLEAN BY ConstantsOK
    <3> QED BY <1>2, <3>1 DEF EntType
  <2>2. Update(vv, j, "SUCCESS", 0) BY <1>3
  <2> HIDE DEF ee, e, v
  <2>3. StateOK(vv) /\ Tame(Now, vv, None) /\ vv.pos = pos /\ Lag(vv) = Lag(Now)
    BY <1>2, <2>1, RelabelOK, NowParts
  <2>4. Tame(Now, vv, j) BY <2>3, TameAny
  <2> HIDE DEF vv
  <2> QED BY <2>2, <2>3, <2>4, StatusFacts, ThenUpdate
<1>4. CASE Update(Now, j, "FAILURE", 1)
  BY <1>4, TameRefl, NowParts, StatusFacts, ThenUpdate
<1> QED BY <1>1, <1>3, <1>4

\* __job_node_disable of a new job: it ends neither itself nor a job behind it.
LEMMA NodeDisableOK ==
    ASSUME StateOK(Now), faults \in Nat, NEW j \in Queue, NodeDisable(j),
           mem[j].ent = 0, \A k \in Queue : pos[k] > pos[j] => mem[k].ent = 0,
           en \in [Nodes -> BOOLEAN]
    PROVE  /\ Served(Now, Now', j) /\ Counted(Now)
           /\ en' \in [Nodes -> BOOLEAN]
<1> DEFINE n == row[j].target
           found == FindByDb(ent, "node", n)
           regd == {t \in found : ent[t].status >= REGISTERED}
           R == UNION {JobsOn(t) : t \in regd}
           s(F) == JobUpdateAll(Now, R, F, "FAILURE")
           v(F) == [s(F) EXCEPT !.ent = [t \in Slots |->
                               IF t \in found
                               THEN [s(F).ent[t] EXCEPT !.enabled = FALSE]
                               ELSE s(F).ent[t]]]
<1>1. \/ Update(Now, j, "FAILURE", 1) /\ UNCHANGED en
      \/ /\ en' = [en EXCEPT ![n] = FALSE]
         /\ \E F \in SUBSET R : Update(v(F), j, "SUCCESS", Cardinality(F))
  BY DEF NodeDisable
<1>2. CASE Update(Now, j, "FAILURE", 1) /\ UNCHANGED en
  <2>1. Update(Now, j, "FAILURE", 1) /\ Tame(Now, Now, j) BY <1>2, TameRefl
  <2>2. Served(Now, Now', j) /\ Counted(Now)
    BY <2>1, NowParts, StatusFacts, ThenUpdate
  <2> QED BY <1>2, <2>2
<1>3. /\ R \subseteq Queue /\ j \notin R /\ 0 \notin Slots
      /\ \A k \in Queue : pos[k] > pos[j] => k \notin R
  BY ConstantsOK DEF JobsOn, FindByDb, Slots
<1>4. ASSUME NEW F \in SUBSET R, Update(v(F), j, "SUCCESS", Cardinality(F))
      PROVE  Served(Now, Now', j) /\ Counted(Now)
  <2> DEFINE ss == s(F)
             e == [t \in Slots |-> IF t \in found
                                   THEN [ss.ent[t] EXCEPT !.enabled = FALSE]
                                   ELSE ss.ent[t]]
             vv == [ss EXCEPT !.ent = e]
  <2>1. Update(vv, j, "SUCCESS", Cardinality(F)) BY <1>4
  <2> HIDE DEF R, found
  <2>2. /\ StateOK(ss) /\ Tame(Now, ss, None)
        /\ \A k \in Jobs \ R : ss.pos[k] = pos[k]
        /\ F = {} => Lag(ss) \subseteq Lag(Now)
    <3>1. "FAILURE" \in Ended /\ R \subseteq Queued(Now) BY <1>3, NowParts DEF Ended
    <3>2. PICK st \in Ended : st = "FAILURE" BY <3>1
    <3>3. LET u == JobUpdateAll(Now, R, F, st)
          IN  /\ StateOK(u) /\ Tame(Now, u, None)
              /\ \A k \in Jobs \ R : u.pos[k] = Now.pos[k]
              /\ F = {} => Lag(u) \subseteq Lag(Now)
      BY <3>1, JobUpdateAllOK
    <3> QED BY <3>2, <3>3, NowParts
  <2> HIDE DEF ss, s, v
  <2>3. /\ e \in [Slots -> EntType]
        /\ \A t \in Slots : /\ e[t].type = ss.ent[t].type
                            /\ e[t].db = ss.ent[t].db
                            /\ e[t].busy = ss.ent[t].busy
    <3>1. ss.ent \in [Slots -> EntType] BY <2>2, Parts DEF StateOK
    <3> QED BY <3>1 DEF EntType
  <2> HIDE DEF e
  <2>4. StateOK(vv) /\ Tame(ss, vv, None) /\ vv.pos = ss.pos /\ Lag(vv) = Lag(ss)
    BY <2>2, <2>3, RelabelOK
  <2> HIDE DEF vv
  <2>5. Tame(Now, vv, j)
    <3>1. Tame(Now, vv, None) BY <2>2, <2>4, TameTrans DEF StateOK
    <3> QED BY <3>1, TameAny
  <2>6. Cardinality(F) \in Nat
    <3>1. F \subseteq Jobs BY <1>3 DEF Queue
    <3> QED BY <3>1, JobsFinite
  <2>7. j \in Jobs /\ j \in Queued(vv) BY <1>3, <2>2, <2>4 DEF Queued, Queue
  <2>8. Served(vv, Now', j) /\ Counted(vv)
    BY <2>1, <2>4, <2>6, <2>7, StatusFacts, UpdateServed
  <2>a. Counted(Now)
    <3>1. CASE F = {} BY <3>1, <2>2, <2>4, <2>8 DEF Counted
    <3>2. CASE F # {}
      <4>1. PICK fail \in {"no", "row", "ins"} :
              Spend(Cardinality(F) + IF fail = "no" THEN 0 ELSE 1)
        BY <2>1 DEF Update
      <4>2. IsFiniteSet(F)
        <5>1. F \subseteq Jobs BY <1>3 DEF Queue
        <5> QED BY <5>1, JobsFinite
      <4>3. Cardinality(F) # 0 BY <3>2, <4>2, FS_EmptySet
      <4>4. (Cardinality(F) + IF fail = "no" THEN 0 ELSE 1) \in Nat \ {0}
        BY <2>6, <4>3
      <4> QED BY <4>1, <4>4, SpentCounted
    <3> QED BY <3>1, <3>2
  <2>9. \A k \in Jobs : pos[k] > pos[j] => vv.pos[k] = pos[k]
    <3>1. ASSUME NEW k \in Jobs, pos[k] > pos[j] PROVE k \in Queue
      BY <3>1, NowParts, Parts DEF Queue, StateOK
    <3> QED BY <3>1, <1>3, <2>2, <2>4
  <2> QED BY <2>4, <2>5, <2>7, <2>8, <2>9, <2>a, ServedTrans, NowParts DEF StateOK
<1> QED BY <1>1, <1>2, <1>4

\* Where a request of job j may go.
SentOK(j) == \/ wire' = wire \/ \E n \in Nodes : Send(j, n)
             \/ row[j].action = "OSM_QUERY" /\ Send(j, -1)

\* __job_run of a new, pending or waiting job.
LEMMA JobRunOK ==
    ASSUME StateOK(Now), faults \in Nat, en \in [Nodes -> BOOLEAN],
           NEW j \in Queue,
           mem[j].status \in {"INITIATED", "PENDING"} \cup Waiting,
           mem[j].status # "INITIATED" => row[j].action \in StartActions,
           row[j].action = "DISABLE" =>
               \A k \in Queue : pos[k] > pos[j] => mem[k].ent = 0,
           JobRun(j)
    PROVE  /\ Served(Now, Now', j) /\ Counted(Now)
           /\ en' \in [Nodes -> BOOLEAN] /\ SentOK(j)
<1> DEFINE a == row[j].action
<1>0. mem[j].status \in Waiting => mem[j].status \notin {"INITIATED", "PENDING"}
  BY DEF Waiting
<1>1. a \notin StartActions => mem[j].status = "INITIATED" OBVIOUS
<1>2. mem[j].status = "INITIATED" => mem[j].ent = 0
  BY NowParts DEF StateOK, FreshIdle, Queue
<1>3. CASE /\ a \in StartActions /\ mem[j].status \in Waiting
           /\ WaitOsm(j) /\ UNCHANGED <<en, wire>>
  BY <1>3, WaitOsmOK DEF SentOK
<1>4. CASE /\ a \in StartActions /\ mem[j].status \notin Waiting
           /\ StartInstance(j) /\ UNCHANGED en
  BY <1>4, StartInstanceOK DEF SentOK
<1>5. CASE a \in SimpleActions /\ ControlInstanceSimple(j) /\ UNCHANGED en
  <2>1. mem[j].status = "INITIATED" BY <1>1, <1>5 DEF SimpleActions, StartActions
  <2> QED BY <1>5, <2>1, ControlSimpleOK DEF SentOK
<1>6. CASE a \in {"NODE_QUERY", "OSM_QUERY"} /\ QueryPeer(j) /\ UNCHANGED en
  <2>1. mem[j].status = "INITIATED" BY <1>1, <1>6 DEF StartActions
  <2> QED BY <1>6, <2>1, QueryPeerOK DEF SentOK
<1>7. CASE a = "ENABLE" /\ NodeEnable(j) /\ UNCHANGED wire
  BY <1>7, NodeEnableOK DEF SentOK
<1>8. CASE a = "DISABLE" /\ NodeDisable(j) /\ UNCHANGED wire
  <2>1. mem[j].status = "INITIATED" BY <1>1, <1>8 DEF StartActions
  <2> QED BY <1>2, <1>8, <2>1, NodeDisableOK DEF SentOK
<1>9. CASE a = "CONFIG" /\ NodeConfig(j) /\ UNCHANGED <<en, wire>>
  BY <1>9, NodeConfigOK DEF SentOK
<1>10. CASE a = "SAVE" /\ UNCHANGED <<clcVars, faults, en, wire>>
  BY <1>10, IdleServed, IdleCounted DEF SentOK
<1> QED BY <1>3, <1>4, <1>5, <1>6, <1>7, <1>8, <1>9, <1>10 DEF JobRun

\* job_dispatch of one job.
LEMMA DispatchOK ==
    ASSUME StateOK(Now), faults \in Nat, en \in [Nodes -> BOOLEAN],
           NEW j \in Queue,
           row[j].action = "DISABLE" /\ mem[j].status = "INITIATED" =>
               \A k \in Queue : pos[k] > pos[j] => mem[k].ent = 0,
           Dispatch(j)
    PROVE  /\ Served(Now, Now', j) /\ Counted(Now)
           /\ en' \in [Nodes -> BOOLEAN] /\ SentOK(j)
<1>0. mem[j].status \in {"PENDING"} \cup Waiting => row[j].action \in StartActions
  BY NowParts DEF StateOK, PendingStarts, Queue
<1>1. CASE mem[j].status \in {"INITIATED", "PENDING"} \cup Waiting /\ JobRun(j)
  <2>1. mem[j].status # "INITIATED" => row[j].action \in StartActions BY <1>0, <1>1
  <2>2. row[j].action = "DISABLE" =>
               \A k \in Queue : pos[k] > pos[j] => mem[k].ent = 0
    BY <2>1, <1>1 DEF StartActions
  <2> QED BY <1>1, <2>1, <2>2, JobRunOK
<1>2. CASE Update(Now, j, "TIMEOUT", 0) /\ UNCHANGED <<en, wire>>
  <2>1. Served(Now, Now', j) /\ Counted(Now)
    BY <1>2, TameRefl, NowParts, StatusFacts, ThenUpdate
  <2> QED BY <1>2, <2>1 DEF SentOK
<1>3. CASE Update(Now, j, "UNKNOWN", 0) /\ UNCHANGED <<en, wire>>
  <2>1. Served(Now, Now', j) /\ Counted(Now)
    BY <1>3, TameRefl, NowParts, StatusFacts, ThenUpdate
  <2> QED BY <1>3, <2>1 DEF SentOK
<1>4. CASE /\ mem[j].status \in {"RUNNING", "PENDING"}
           /\ UNCHANGED <<clcVars, faults, en, wire>>
  BY <1>4, IdleServed, IdleCounted DEF SentOK
<1> QED BY <1>1, <1>2, <1>3, <1>4 DEF Dispatch

---------------------------------------------------------------------------
(* The inductive invariant.                                                *)

\* A notified job is not queued yet and its row is as the web wrote it.
NoteOK == \A j \in note : pos[j] = 0 /\ row[j].status = "INITIATED"

\* A row that was not created yet is blank.
RowOK == \A j \in Jobs :
            row[j].status = "NONE" => row[j].action = "NONE" /\ row[j].target = 0

\* Only an OSM_QUERY goes to an OS manager, only a start is answered by one.
WireOK == \A j \in Jobs :
             /\ wire[j].node = -1 => row[j].action = "OSM_QUERY"
             /\ wire[j].rep = "STARTING_OSM" => row[j].action \in StartActions

\* Places in the queue are distinct and none is behind the tail.
OrderOK == /\ \A j, k \in Queue : pos[j] = pos[k] => j = k
           /\ \A j \in Queue : pos[j] <= tail

DisableNew(j) == row[j].action = "DISABLE" /\ mem[j].status = "INITIATED"

\* No job behind a DISABLE that has not run is on an entity.
BehindOK == \A j, k \in Queue : DisableNew(j) /\ pos[j] < pos[k] => mem[k].ent = 0

\* The walk stands on a queued job, and no DISABLE that has not run is before it.
WalkOK == walk # None => /\ walk \in Queue
                         /\ \A j \in Queue : DisableNew(j) => pos[walk] <= pos[j]

Inv == /\ TypeOK /\ StateOK(Now)
       /\ NoteOK /\ RowOK /\ WireOK /\ OrderOK /\ BehindOK /\ WalkOK

\* What no step does to a row.
Keep == \A j \in Jobs : row[j].status \in Ended => row'[j] = row[j]

\* A step that creates, takes in and forgets no job.
Calm == /\ \E k \in Jobs \cup {None} : Tame(Now, Now', k)
        /\ note' = note /\ restarts' = restarts /\ Counted(Now)

\* The part of Tame that the order of the queue depends on, but for job x.
Steady(k, x) ==
    \A j \in Jobs \ {x} :
        /\ pos'[j] \in {0, pos[j]}
        /\ row'[j].action = row[j].action /\ row'[j].target = row[j].target
        /\ row'[j].status = "NONE" => row[j].status = "NONE"
        /\ pos'[j] > 0 => /\ mem'[j].status = "INITIATED" => mem[j].status = "INITIATED"
                          /\ j # k => mem'[j].ent = mem[j].ent

\* The head of a part of the queue is in it, and first in it.
LEMMA FirstOfMin ==
    ASSUME pos \in [Jobs -> Nat], NEW L, L \subseteq Jobs, L # {}
    PROVE  FirstOf(L) \in L /\ \A k \in L : pos[FirstOf(L)] <= pos[k]
<1> DEFINE T == {pos[j] : j \in L}
<1>1. T \subseteq Nat /\ T # {} OBVIOUS
<1>2. PICK x \in T : \A y \in T : ~ (<<y, x>> \in OpToRel(<, Nat))
  BY <1>1, NatLessThanWellFounded, WFMin
<1>3. ASSUME NEW y \in T PROVE x <= y
  <2>1. x \in Nat /\ y \in Nat BY <1>1
  <2>2. ~ (<<y, x>> \in OpToRel(<, Nat)) BY <1>2
  <2>3. y < x => <<y, x>> \in OpToRel(<, Nat) BY <2>1 DEF OpToRel
  <2>4. ~ (y < x) BY <2>2, <2>3, Zenon
  <2> QED BY <2>1, <2>4
<1>4. \E j \in L : \A k \in L : pos[j] <= pos[k] BY <1>3
<1> QED BY <1>4 DEF FirstOf

\* TypeOK after a handler, from its parts.
LEMMA TypeStep ==
    ASSUME StateOK(Now'), note' \subseteq Jobs, elapsed' \subseteq Jobs,
           walk' \in Jobs \cup {None}, tail' \in Nat, en' \in [Nodes -> BOOLEAN],
           wire' \in [Jobs -> WireType], vm' \in [Instances -> SUBSET Nodes],
           ran' \in [Instances -> SUBSET Nodes], conns' \in Nat, osms' \in Nat,
           takeovers' \in Nat, faults' \in Nat, restarts' \in Nat
    PROVE  TypeOK'
<1>1. Now' \in StateType BY DEF StateOK
<1>2. /\ row' \in [Jobs -> RowType] /\ pos' \in [Jobs -> Nat]
      /\ mem' \in [Jobs -> MemType] /\ ent' \in [Slots -> EntType]
      /\ ins' \in [Instances -> InsType]
  BY <1>1 DEF Now, StateType
<1> QED BY <1>2 DEF TypeOK

\* The order of the queue survives a handler.
LEMMA SteadyStep ==
    ASSUME Inv, NEW k, NEW x, Steady(k, x), pos' \in [Jobs -> Nat],
           x \in Jobs => pos'[x] = 0, tail' = tail,
           k = None \/ (k \in Queue /\ \A j \in Queue : DisableNew(j) => pos[k] <= pos[j])
    PROVE  OrderOK' /\ BehindOK'
<1>0. pos \in [Jobs -> Nat] BY DEF Inv, TypeOK
<1>1. \A j \in Queue' : /\ j \in Queue /\ pos'[j] = pos[j]
                        /\ DisableNew(j)' => DisableNew(j)
                        /\ j # k => mem'[j].ent = mem[j].ent
  BY <1>0 DEF Queue, Steady, DisableNew
<1>2. OrderOK' BY <1>1 DEF Inv, OrderOK
<1>3. ASSUME NEW j \in Queue', NEW i \in Queue', DisableNew(j)', pos'[j] < pos'[i]
      PROVE  mem'[i].ent = 0
  <2>1. /\ j \in Queue /\ i \in Queue /\ DisableNew(j) /\ pos[j] < pos[i]
    BY <1>1, <1>3
  <2>2. mem[i].ent = 0 BY <2>1 DEF Inv, BehindOK
  <2>3. i # k
    <3>1. CASE k = None BY <3>1, ConstantsOK DEF Queue
    <3>2. CASE k # None
      <4>1. pos[k] <= pos[j] /\ k \in Jobs BY <3>2, <2>1 DEF Queue
      <4> QED BY <4>1, <2>1, <1>0 DEF Queue
    <3> QED BY <3>1, <3>2
  <2> QED BY <1>1, <2>2, <2>3
<1> QED BY <1>2, <1>3 DEF BehindOK

\* What a tame handler keeps: the order, the ends and the rows of jobs not queued.
LEMMA TameSteady ==
    ASSUME StateOK(Now), NEW k, Tame(Now, Now', k)
    PROVE  Steady(k, None) /\ Keep
           /\ \A j \in Jobs : pos[j] = 0 => pos'[j] = 0 /\ row'[j] = row[j]
<1>1. /\ Now.pos = pos /\ Now.mem = mem /\ Now.row = row
      /\ Now'.pos = pos' /\ Now'.mem = mem' /\ Now'.row = row'
  BY DEF Now
<1> QED BY <1>1 DEF Tame, TameJobs, Steady, Keep, StateOK, OverIsOut

\* What a handler with no walk under way keeps of the invariant.
LEMMA HandlerStep ==
    ASSUME Inv, StateOK(Now'), Tame(Now, Now', None), note' \subseteq note,
           tail' = tail, walk = None, walk' = None
    PROVE  NoteOK' /\ RowOK' /\ OrderOK' /\ BehindOK' /\ WalkOK' /\ Keep
           /\ \A j \in Jobs : row'[j].action = row[j].action
<1>1. Steady(None, None) /\ Keep
      /\ \A j \in Jobs : pos[j] = 0 => pos'[j] = 0 /\ row'[j] = row[j]
  BY TameSteady DEF Inv
<1>2. pos' \in [Jobs -> Nat] BY DEF StateOK, StateType, Now
<1>3. OrderOK' /\ BehindOK' BY <1>1, <1>2, ConstantsOK, SteadyStep
<1>4. NoteOK' BY <1>1 DEF Inv, NoteOK, TypeOK
<1>5. \A j \in Jobs : /\ row'[j].action = row[j].action
                      /\ row'[j].target = row[j].target
                      /\ row'[j].status = "NONE" => row[j].status = "NONE"
  BY <1>1, ConstantsOK DEF Steady
<1>6. RowOK' BY <1>5 DEF Inv, RowOK
<1> QED BY <1>1, <1>3, <1>4, <1>5, <1>6 DEF WalkOK

---------------------------------------------------------------------------
(* Every action keeps the invariant.                                       *)

\* Sending a request changes the wire of that job only.
LEMMA SendType ==
    ASSUME wire \in [Jobs -> WireType], NEW j \in Jobs, NEW n \in Nodes \cup {-1},
           Send(j, n)
    PROVE  /\ wire' \in [Jobs -> WireType]
           /\ wire'[j].node = n /\ wire'[j].rep = "NONE"
           /\ \A k \in Jobs \ {j} : wire'[k] = wire[k]
BY DEF Send, WireType

\* One step of the dispatch walk.
LEMMA DispatchStepInv ==
    ASSUME Inv, DispatchStep
    PROVE  Inv' /\ Keep /\ Calm
<1> DEFINE j == walk
           L == {k \in Queue : pos[k] > pos[j]}
<1>0. /\ j \in Queue /\ j \in Jobs /\ Dispatch(j) /\ walk' = FirstOf(L)
      /\ UNCHANGED <<note, tail, vm, ran, conns, osms, takeovers, restarts>>
  BY DEF DispatchStep, Queue, NextJob
<1>1. /\ StateOK(Now) /\ faults \in Nat /\ en \in [Nodes -> BOOLEAN]
      /\ pos \in [Jobs -> Nat] /\ wire \in [Jobs -> WireType]
  BY DEF Inv, TypeOK
<1>2. \A k \in Queue : DisableNew(k) => pos[j] <= pos[k]
  BY <1>0, ConstantsOK DEF Inv, WalkOK, Queue
<1>3. row[j].action = "DISABLE" /\ mem[j].status = "INITIATED" =>
         \A k \in Queue : pos[k] > pos[j] => mem[k].ent = 0
  BY <1>0, <1>1 DEF Inv, BehindOK, DisableNew, Queue
<1>4. /\ Served(Now, Now', j) /\ Counted(Now) /\ faults' \in Nat
      /\ en' \in [Nodes -> BOOLEAN] /\ SentOK(j)
  BY <1>0, <1>1, <1>3, DispatchOK DEF Counted
<1>5. /\ StateOK(Now') /\ Tame(Now, Now', j)
      /\ \A k \in Jobs : pos[k] > pos[j] => pos'[k] = pos[k]
      /\ row[j].action = "DISABLE" /\ pos'[j] > 0 => mem'[j].status # "INITIATED"
  BY <1>4 DEF Served, Now
<1>6. Steady(j, None) /\ Keep
      /\ \A k \in Jobs : pos[k] = 0 => pos'[k] = 0 /\ row'[k] = row[k]
  BY <1>1, <1>5, TameSteady
<1>7. pos' \in [Jobs -> Nat] BY <1>5 DEF StateOK, StateType, Now
<1>8. OrderOK' /\ BehindOK'
  BY <1>0, <1>2, <1>6, <1>7, ConstantsOK, SteadyStep
<1>9. NoteOK' BY <1>0, <1>6 DEF Inv, NoteOK, TypeOK
<1>10. \A k \in Jobs : /\ row'[k].action = row[k].action
                       /\ row'[k].target = row[k].target
                       /\ row'[k].status = "NONE" => row[k].status = "NONE"
  BY <1>6, ConstantsOK DEF Steady
<1>11. RowOK' BY <1>10 DEF Inv, RowOK
<1>12. /\ wire' \in [Jobs -> WireType]
       /\ \A k \in Jobs :
            \/ wire'[k] = wire[k]
            \/ /\ wire'[k].rep = "NONE"
               /\ wire'[k].node = -1 => row[k].action = "OSM_QUERY"
  <2>1. CASE wire' = wire BY <2>1, <1>1
  <2>2. ASSUME NEW n \in Nodes, Send(j, n)
        PROVE  /\ wire' \in [Jobs -> WireType] /\ wire'[j].rep = "NONE"
               /\ wire'[j].node # -1
               /\ \A k \in Jobs \ {j} : wire'[k] = wire[k]
    <3>1. n # -1 BY ConstantsOK
    <3> QED BY <3>1, <2>2, <1>0, <1>1, SendType
  <2>3. CASE row[j].action = "OSM_QUERY" /\ Send(j, -1)
    BY <2>3, <1>0, <1>1, SendType
  <2> QED BY <2>1, <2>2, <2>3, <1>0, <1>4 DEF SentOK
<1>13. WireOK' BY <1>10, <1>12 DEF Inv, WireOK
<1>14. L \subseteq Jobs BY DEF Queue
<1>15. walk' \in Jobs \cup {None} /\ WalkOK'
  <2>1. CASE L = {} BY <2>1, <1>0 DEF FirstOf, WalkOK
  <2>2. CASE L # {}
    <3>1. walk' \in L /\ \A k \in L : pos[walk'] <= pos[k]
      <4> HIDE DEF L
      <4> QED BY <2>2, <1>0, <1>1, <1>14, FirstOfMin
    <3>2. walk' \in Jobs /\ pos'[walk'] = pos[walk'] /\ walk' \in Queue'
      BY <3>1, <1>1, <1>5 DEF Queue
    <3>3. ASSUME NEW k \in Queue', DisableNew(k)'
          PROVE  pos'[walk'] <= pos'[k]
      <4>1. /\ k \in Jobs /\ k \in Queue /\ pos'[k] = pos[k] /\ DisableNew(k)
        BY <3>3, <1>1, <1>6, <1>10, ConstantsOK DEF Queue, Steady, DisableNew
      <4>2. k # j
        BY <3>3, <1>5, <4>1 DEF DisableNew, Queue
      <4>3. pos[j] # pos[k] BY <4>1, <4>2, <1>0 DEF Inv, OrderOK
      <4>4. pos[k] > pos[j] BY <4>1, <4>3, <1>0, <1>1, <1>2
      <4> QED BY <3>1, <3>2, <4>1, <4>4
    <3> QED BY <3>2, <3>3 DEF WalkOK
  <2> QED BY <2>1, <2>2
<1>16. TypeOK'
  <2>1. elapsed' \subseteq Jobs BY DEF DispatchStep, Inv, TypeOK
  <2>2. /\ note' \subseteq Jobs /\ tail' \in Nat /\ vm' \in [Instances -> SUBSET Nodes]
        /\ ran' \in [Instances -> SUBSET Nodes] /\ conns' \in Nat /\ osms' \in Nat
        /\ takeovers' \in Nat /\ restarts' \in Nat
    BY <1>0 DEF Inv, TypeOK
  <2> QED BY <2>1, <2>2, <1>4, <1>5, <1>12, <1>15, TypeStep
<1>17. Calm BY <1>0, <1>4, <1>5 DEF Calm
<1> QED BY <1>17, <1>5, <1>6, <1>8, <1>9, <1>11, <1>13, <1>15, <1>16 DEF Inv

\* A step that leaves the queue and the tables alone is calm.
LEMMA IdleCalm ==
    ASSUME Inv, UNCHANGED <<clcVars, note, faults, restarts>>
    PROVE  Calm
<1>1. Now' = Now BY DEF clcVars, Now
<1>2. Counted(Now) BY IdleCounted DEF Inv, TypeOK
<1> QED BY <1>1, <1>2, TameRefl DEF Calm

\* job_dispatch puts its walk on the first job of the queue.
LEMMA DispatchBeginInv ==
    ASSUME Inv, DispatchBegin
    PROVE  Inv' /\ Keep /\ Calm
<1>0. /\ Queue # {} /\ walk' = FirstOf(Queue) /\ Queue \subseteq Jobs
      /\ UNCHANGED <<clcVars, note, elapsed, en, wire, tail, vm, ran, bounds>>
  BY DEF DispatchBegin, Queue
<1>1. pos \in [Jobs -> Nat] BY DEF Inv, TypeOK
<1>2. walk' \in Queue /\ \A k \in Queue : pos[walk'] <= pos[k]
  BY <1>0, <1>1, FirstOfMin
<1>3. /\ Now' = Now /\ Queue' = Queue /\ \A j : DisableNew(j)' = DisableNew(j)
      /\ pos' = pos /\ mem' = mem /\ row' = row
  BY <1>0 DEF Now, clcVars, Queue, DisableNew
<1>4. WalkOK' BY <1>2, <1>3 DEF WalkOK
<1>5. TypeOK' BY <1>0, <1>2 DEF Inv, TypeOK, clcVars, bounds
<1>6. NoteOK' /\ RowOK' /\ WireOK'
  BY <1>0, <1>3 DEF Inv, NoteOK, RowOK, WireOK
<1>7. OrderOK' /\ BehindOK' BY <1>0, <1>3 DEF Inv, OrderOK, BehindOK
<1>8. Calm BY <1>0, IdleCalm DEF bounds
<1> QED BY <1>8, <1>3, <1>4, <1>5, <1>6, <1>7 DEF Inv, Keep

\* An action that leaves the queue, the tables and the walk alone.
LEMMA IdleInv ==
    ASSUME Inv, UNCHANGED <<clcVars, note, tail, walk, faults, restarts>>, TypeOK', WireOK'
    PROVE  Inv' /\ Keep /\ Calm
<1>1. /\ Now' = Now /\ Queue' = Queue /\ \A j : DisableNew(j)' = DisableNew(j)
      /\ pos' = pos /\ mem' = mem /\ row' = row
  BY DEF Now, clcVars, Queue, DisableNew
<1>2. NoteOK' /\ RowOK' BY <1>1 DEF Inv, NoteOK, RowOK
<1>3. OrderOK' /\ BehindOK' /\ WalkOK' BY <1>1 DEF Inv, OrderOK, BehindOK, WalkOK
<1> QED BY <1>1, <1>2, <1>3, IdleCalm DEF Inv, Keep

\* The passing of time.
LEMMA ElapseInv ==
    ASSUME Inv, NEW j \in Jobs, Elapse(j)
    PROVE  Inv' /\ Keep /\ Calm
<1>1. TypeOK' BY DEF Inv, TypeOK, Elapse, clcVars, bounds
<1>2. WireOK' BY DEF Inv, WireOK, Elapse, clcVars
<1> QED BY <1>1, <1>2, IdleInv DEF Elapse, bounds

\* A thread of lynode answers: nothing of lyclc changes.
LEMMA NodeStepInv ==
    ASSUME Inv, NEW j \in Jobs, NodeStep(j)
    PROVE  Inv' /\ Keep /\ Calm
<1> DEFINE n == wire[j].node
           a == row[j].action
           i == row[j].target
<1>0. /\ UNCHANGED <<clcVars, tail, note, elapsed, walk, en, bounds>>
      /\ n # 0 /\ n \in Nodes \cup {-1, 0} /\ wire \in [Jobs -> WireType]
      /\ vm \in [Instances -> SUBSET Nodes] /\ ran \in [Instances -> SUBSET Nodes]
      /\ n = -1 => a = "OSM_QUERY"
  BY DEF NodeStep, Inv, TypeOK, WireType, WireOK
<1>1. PICK rep \in Ended \cup {"NONE", "RUNNING", "STOPPED", "STARTING_OSM"},
           stopped \in BOOLEAN :
         /\ Replied(j, rep, stopped)
         /\ rep = "STARTING_OSM" => a \in StartActions
         /\ \/ UNCHANGED <<vm, ran>>
            \/ a \in StartActions \cup {"STOP"} /\ (VmUp(i, n) \/ VmDown(i, n))
  <2>1. wire[j].stopped \in BOOLEAN BY <1>0 DEF WireType
  <2> QED BY <2>1 DEF NodeStep, Ended, StartActions
<1>2. /\ wire' \in [Jobs -> WireType]
      /\ wire'[j].node = n /\ wire'[j].rep = rep
      /\ \A k \in Jobs \ {j} : wire'[k] = wire[k]
  BY <1>0, <1>1 DEF Replied, WireType
<1>3. vm' \in [Instances -> SUBSET Nodes] /\ ran' \in [Instances -> SUBSET Nodes]
  <2>1. CASE UNCHANGED <<vm, ran>> BY <2>1, <1>0
  <2>2. CASE a \in StartActions \cup {"STOP"} /\ (VmUp(i, n) \/ VmDown(i, n))
    <3>1. n \in Nodes BY <2>2, <1>0 DEF StartActions
    <3> QED BY <3>1, <2>2, <1>0 DEF VmUp, VmDown
  <2> QED BY <1>1, <2>1, <2>2
<1>4. TypeOK' BY <1>0, <1>2, <1>3 DEF Inv, TypeOK, clcVars, bounds
<1>5. WireOK' BY <1>0, <1>1, <1>2 DEF Inv, WireOK, clcVars
<1> QED BY <1>0, <1>4, <1>5, IdleInv DEF bounds

\* The web application creates a job.
LEMMA WebCreateInv ==
    ASSUME Inv, NEW j \in Jobs, NEW a \in AllActions, NEW t \in Nat, WebCreate(j, a, t)
    PROVE  Inv' /\ Keep
<1>0. /\ row[j].status = "NONE" /\ row \in [Jobs -> RowType]
      /\ UNCHANGED <<pos, mem, elapsed, walk, ent, en, wire, tail, vm, ran, conns,
                     osms, takeovers, restarts>>
  BY DEF WebCreate, Inv, TypeOK
<1>1. /\ row' \in [Jobs -> RowType]
      /\ \A k \in Jobs \ {j} : row'[k] = row[k]
      /\ row'[j].action = a /\ row'[j].status \in {"INITIATED", "FAILURE"}
      /\ note' = note \/ (note' = note \cup {j} /\ row'[j].status = "INITIATED")
  BY <1>0 DEF WebCreate, RowType, Statuses, Ended
<1>2. ins' \in [Instances -> InsType]
  BY DEF WebCreate, Inv, TypeOK, InsType
<1>3. faults' \in Nat
  BY SpendType DEF WebCreate, Inv, TypeOK
<1>4. TypeOK' BY <1>0, <1>1, <1>2, <1>3 DEF Inv, TypeOK
<1>5. pos[j] = 0 BY <1>0, NowParts DEF Inv, StateOK, OverIsOut
<1>6. StateOK(Now')
  <2>0. /\ Now'.pos = pos /\ Now'.mem = mem /\ Now'.ent = ent /\ Now'.row = row'
        /\ Now.pos = pos /\ Now.mem = mem /\ Now.ent = ent /\ Now.row = row
        /\ Now' \in StateType
    BY <1>0, <1>4 DEF Now, TypeOK, StateType
  <2>1. StateOK(Now) BY DEF Inv
  <2>2. NodeSlots(Now') BY <2>0, <2>1 DEF NodeSlots, StateOK
  <2>3. OverIsOut(Now') BY <2>0, <2>1, <1>1, <1>5 DEF OverIsOut, StateOK
  <2>4. FreshIdle(Now') BY <2>0, <2>1 DEF FreshIdle, StateOK
  <2>5. PendingStarts(Now') BY <2>0, <2>1, <1>1, <1>5 DEF PendingStarts, StateOK
  <2>6. BusyHeld(Now') BY <2>0, <2>1 DEF BusyHeld, HoldersIn, Queued, StateOK
  <2> QED BY <2>0, <2>2, <2>3, <2>4, <2>5, <2>6 DEF StateOK
<1>7. NoteOK'
  BY <1>0, <1>1, <1>5 DEF Inv, NoteOK, TypeOK
<1>8. RowOK' BY <1>1 DEF Inv, RowOK
<1>9. WireOK'
  <2>1. row[j].action = "NONE" BY <1>0 DEF Inv, RowOK
  <2>2. wire[j].node # -1 /\ wire[j].rep # "STARTING_OSM"
    BY <2>1 DEF Inv, WireOK, StartActions
  <2> QED BY <2>2, <1>0, <1>1 DEF Inv, WireOK
<1>10. /\ Queue' = Queue /\ j \notin Queue
       /\ \A k \in Queue : DisableNew(k)' = DisableNew(k)
  BY <1>0, <1>1, <1>5 DEF Queue, DisableNew
<1>11. OrderOK' /\ BehindOK' /\ WalkOK'
  BY <1>0, <1>10 DEF Inv, OrderOK, BehindOK, WalkOK
<1>12. Keep BY <1>0, <1>1 DEF Keep, Ended
<1> QED BY <1>4, <1>6, <1>7, <1>8, <1>9, <1>11, <1>12 DEF Inv

\* An instance is marked for deletion, without a job.
LEMMA WebDeleteInv ==
    ASSUME Inv, NEW i \in Instances, WebDelete(i)
    PROVE  Inv' /\ Keep
<1>1. /\ UNCHANGED <<row, pos, mem, ent, note, elapsed, walk, en, wire, tail, vm, ran,
                     conns, osms, takeovers, faults, restarts>>
      /\ ins' \in [Instances -> InsType]
  BY DEF WebDelete, bounds, Inv, TypeOK, InsType
<1>2. TypeOK' BY <1>1 DEF Inv, TypeOK
<1>3. StateOK(Now')
  <2>1. /\ Now'.pos = pos /\ Now'.mem = mem /\ Now'.ent = ent /\ Now'.row = row
        /\ Now' \in StateType
    BY <1>1, <1>2 DEF Now, TypeOK, StateType
  <2>2. StateOK(Now) BY DEF Inv
  <2>3. NodeSlots(Now') /\ OverIsOut(Now')
    BY <2>1, <2>2, NowParts DEF StateOK, NodeSlots, OverIsOut
  <2>4. FreshIdle(Now') /\ PendingStarts(Now')
    BY <2>1, <2>2, NowParts DEF StateOK, FreshIdle, PendingStarts
  <2>5. BusyHeld(Now')
    BY <2>1, <2>2, NowParts DEF StateOK, BusyHeld, HoldersIn, Queued
  <2> QED BY <2>1, <2>3, <2>4, <2>5 DEF StateOK
<1>4. NoteOK' /\ RowOK' /\ WireOK' BY <1>1 DEF Inv, NoteOK, RowOK, WireOK
<1>5. Queue' = Queue /\ \A j : DisableNew(j)' = DisableNew(j)
  BY <1>1 DEF Queue, DisableNew
<1>6. OrderOK' /\ BehindOK' /\ WalkOK' BY <1>1, <1>5 DEF Inv, OrderOK, BehindOK, WalkOK
<1> QED BY <1>1, <1>2, <1>3, <1>4, <1>6 DEF Inv, Keep

\* A step in which the rows of the jobs F cannot be written counts them all.
LEMMA FailsCounted ==
    ASSUME NEW F, F \subseteq Jobs, faults \in Nat, Spend(Cardinality(F))
    PROVE  /\ faults' \in Nat /\ faults <= faults'
           /\ faults' = faults => F = {}
<1>1. Cardinality(F) \in Nat /\ IsFiniteSet(F) BY JobsFinite
<1>2. Cardinality(F) = 0 => F = {} BY <1>1, FS_EmptySet
<1> QED BY <1>1, <1>2, SpendType

\* The jobs that job_check cancels are queued.
LEMMA ReplacedQueued == ASSUME NEW j PROVE Replaced(j) \subseteq Queue
<1>1. OnTarget(j) \subseteq Queue BY DEF OnTarget
<1> DEFINE K == OnTarget(j)
           B == {k \in K \ With({"QUERY"}, K) : \A b \in Blockers(j) : pos[k] < pos[b]}
<1>2. Replaced(j) \in {{}, K \ With({"STOP"}, K), B} BY DEF Replaced
<1> QED BY <1>1, <1>2

\* job_check on the queue.
LEMMA CheckedOK ==
    ASSUME Inv, NEW j, NEW F
    PROVE  StateOK(Checked(j, F)) /\ Tame(Now, Checked(j, F), None)
<1>1. Replaced(j) \subseteq Queued(Now) BY ReplacedQueued, NowParts
<1>2. "CANCELLED" \in Ended BY DEF Ended
<1> QED BY <1>1, <1>2, JobUpdateAllOK DEF Inv, Checked

\* The row of a job that never enters the queue is cancelled, or cannot be.
LEMMA RefuseOK ==
    ASSUME Inv, NEW j \in note, Refuse(j)
    PROVE  /\ StateOK(Now') /\ Steady(None, j) /\ faults' \in Nat /\ tail' = tail
           /\ pos'[j] = 0 /\ row'[j].action = row[j].action /\ row'[j].status # "NONE"
           /\ \A k \in Jobs \ {j} : pos[k] = 0 => pos'[k] = 0 /\ row'[k] = row[k]
<1>1. PICK F \in SUBSET Replaced(j), C \in SUBSET {j} :
         /\ Spend(Cardinality(F) + Cardinality(C))
         /\ Become(SetStatus(Checked(j, F), {}, {j} \ C, "CANCELLED"))
  BY DEF Refuse
<1> DEFINE s == Checked(j, F)
           D == {j} \ C
           v == SetStatus(s, {}, D, "CANCELLED")
<1>2. /\ StateOK(s) /\ Tame(Now, s, None) BY CheckedOK
<1>3. j \in Jobs /\ pos[j] = 0 /\ row[j].status = "INITIATED"
  BY DEF Inv, NoteOK, TypeOK
<1>4. s \in StateType /\ "CANCELLED" \in Statuses
  BY <1>2 DEF StateOK, Statuses, Ended
<1> HIDE DEF s
<1>5. s.pos[j] = 0 /\ s.row[j] = row[j] BY <1>2, <1>3, NowParts DEF Tame, TameJobs
<1>6. /\ v \in StateType
      /\ v.pos = s.pos /\ v.ent = s.ent /\ v.ins = s.ins
      /\ \A k \in Jobs :
           /\ v.mem[k].status = s.mem[k].status
           /\ v.mem[k].pend = s.mem[k].pend
           /\ v.mem[k].ent = s.mem[k].ent
           /\ v.row[k].action = s.row[k].action
           /\ v.row[k].target = s.row[k].target
           /\ v.row[k].status = IF k \in D THEN "CANCELLED" ELSE s.row[k].status
           /\ k \notin D => v.row[k] = s.row[k]
  BY <1>4, SetStatusParts
<1>7. Now' = v BY <1>1, <1>6, BecomeNow DEF s
<1> HIDE DEF v
<1>8. StateOK(v)
  <2>1. NodeSlots(v) BY <1>2, <1>6 DEF NodeSlots, StateOK
  <2>2. OverIsOut(v) BY <1>2, <1>5, <1>6 DEF OverIsOut, StateOK
  <2>3. FreshIdle(v) BY <1>2, <1>6 DEF FreshIdle, StateOK
  <2>4. PendingStarts(v) BY <1>2, <1>5, <1>6 DEF PendingStarts, StateOK
  <2>5. \A x : HoldersIn(v, x) = HoldersIn(s, x) BY <1>4, <1>6, SameHolders
  <2>6. BusyHeld(v) BY <1>2, <1>6, <2>5 DEF BusyHeld, StateOK
  <2> QED BY <1>6, <2>1, <2>2, <2>3, <2>4, <2>6 DEF StateOK
<1>9. Now'.pos = pos' /\ Now'.mem = mem' /\ Now'.row = row' BY DEF Now
<1>10. Steady(None, j)
  BY <1>2, <1>6, <1>7, <1>9, NowParts DEF Steady, Tame, TameJobs
<1>11. \A k \in Jobs \ {j} : pos[k] = 0 => pos'[k] = 0 /\ row'[k] = row[k]
  BY <1>2, <1>6, <1>7, <1>9, NowParts DEF Tame, TameJobs
<1>12. faults' \in Nat
  <2>1. F \subseteq Jobs /\ C \subseteq Jobs BY <1>3, ReplacedQueued DEF Queue
  <2>2. Cardinality(F) + Cardinality(C) \in Nat BY <2>1, JobsFinite
  <2> QED BY <1>1, <2>2, SpendType DEF Inv, TypeOK
<1>13. pos'[j] = 0 /\ row'[j].action = row[j].action /\ row'[j].status # "NONE"
  BY <1>3, <1>5, <1>6, <1>7, <1>9
<1> QED BY <1>7, <1>8, <1>10, <1>11, <1>12, <1>13 DEF Refuse

\* A job is appended to the queue.
LEMMA InsertOK ==
    ASSUME Inv, NEW j \in note, Insert(j)
    PROVE  /\ StateOK(Now') /\ Steady(None, j) /\ faults' \in Nat
           /\ tail' = Place /\ pos'[j] = Place /\ row'[j] = row[j]
           /\ mem'[j] = Blank
           /\ \A k \in Jobs \ {j} : pos[k] = 0 => pos'[k] = 0 /\ row'[k] = row[k]
<1>1. PICK F \in SUBSET Replaced(j) :
         /\ Spend(Cardinality(F))
         /\ Become([Checked(j, F) EXCEPT !.pos[j] = Place, !.mem[j] = Blank])
  BY DEF Insert
<1> DEFINE s == Checked(j, F)
           v == [s EXCEPT !.pos[j] = Place, !.mem[j] = Blank]
<1>2. /\ StateOK(s) /\ Tame(Now, s, None) BY CheckedOK
<1>3. j \in Jobs /\ pos[j] = 0 /\ row[j].status = "INITIATED"
  BY DEF Inv, NoteOK, TypeOK
<1>4. s \in StateType /\ Place \in Nat \ {0}
  BY <1>2 DEF StateOK, Place, Inv, TypeOK
<1> HIDE DEF s
<1>5. s.pos[j] = 0 /\ s.row[j] = row[j] BY <1>2, <1>3, NowParts DEF Tame, TameJobs
<1>6. /\ v \in StateType
      /\ v.pos = [s.pos EXCEPT ![j] = Place] /\ v.mem = [s.mem EXCEPT ![j] = Blank]
      /\ v.row = s.row /\ v.ent = s.ent
  BY <1>3, <1>4, BlankType DEF StateType
<1>7. Now' = v BY <1>1, <1>6, BecomeNow DEF s
<1> HIDE DEF v
<1>8. /\ v.pos[j] = Place /\ v.mem[j] = Blank
      /\ \A k \in Jobs \ {j} : v.pos[k] = s.pos[k] /\ v.mem[k] = s.mem[k]
  BY <1>3, <1>4, <1>6, Parts
<1>9. StateOK(v)
  <2>0. Blank.pend = -1 /\ Blank.ent = 0 /\ Blank.status = "INITIATED" BY DEF Blank
  <2>1. NodeSlots(v) BY <1>2, <1>6 DEF NodeSlots, StateOK
  <2>2. OverIsOut(v) BY <1>2, <1>3, <1>5, <1>6, <1>8 DEF OverIsOut, StateOK, Ended
  <2>3. FreshIdle(v) BY <1>2, <1>8, <2>0 DEF FreshIdle, StateOK
  <2>4. PendingStarts(v)
    BY <1>2, <1>3, <1>5, <1>6, <1>8, <2>0 DEF PendingStarts, StateOK, Waiting
  <2>5. ASSUME NEW x PROVE HoldersIn(v, x) = HoldersIn(s, x)
    <3>1. j \notin HoldersIn(v, x) BY <1>8, <2>0 DEF HoldersIn, Holders
    <3>2. j \notin HoldersIn(s, x) BY <1>5 DEF HoldersIn, Holders, Queued
    <3>3. \A k \in Jobs \ {j} : k \in HoldersIn(v, x) <=> k \in HoldersIn(s, x)
      BY <1>8 DEF HoldersIn, Holders, Queued
    <3>4. HoldersIn(v, x) \subseteq Jobs /\ HoldersIn(s, x) \subseteq Jobs
      BY DEF HoldersIn, Holders, Queued
    <3> QED BY <3>1, <3>2, <3>3, <3>4
  <2>6. BusyHeld(v) BY <1>2, <1>6, <2>5 DEF BusyHeld, StateOK
  <2> QED BY <1>6, <2>1, <2>2, <2>3, <2>4, <2>6 DEF StateOK
<1>10. Now'.pos = pos' /\ Now'.mem = mem' /\ Now'.row = row' BY DEF Now
<1>11. Steady(None, j)
  <2>1. v.row = s.row BY <1>6
  <2> SUFFICES ASSUME NEW k \in Jobs \ {j}
               PROVE  /\ v.pos[k] \in {0, pos[k]}
                      /\ v.row[k].action = row[k].action
                      /\ v.row[k].target = row[k].target
                      /\ v.row[k].status = "NONE" => row[k].status = "NONE"
                      /\ v.pos[k] > 0 =>
                            /\ v.mem[k].status = "INITIATED"
                                  => mem[k].status = "INITIATED"
                            /\ k # None => v.mem[k].ent = mem[k].ent
    BY <1>7, <1>10 DEF Steady
  <2> QED BY <1>2, <1>8, <2>1, NowParts DEF Tame, TameJobs
<1>12. \A k \in Jobs \ {j} : pos[k] = 0 => pos'[k] = 0 /\ row'[k] = row[k]
  BY <1>2, <1>6, <1>7, <1>8, <1>10, NowParts DEF Tame, TameJobs
<1>13. faults' \in Nat
  <2>1. F \subseteq Jobs BY ReplacedQueued DEF Queue
  <2>2. Cardinality(F) \in Nat BY <2>1, JobsFinite
  <2> QED BY <1>1, <2>2, SpendType DEF Inv, TypeOK
<1> QED BY <1>5, <1>6, <1>7, <1>8, <1>9, <1>10, <1>11, <1>12, <1>13 DEF Insert

\* __process_web_job
LEMMA WebJobInv ==
    ASSUME Inv, NEW j \in Jobs, WebJob(j)
    PROVE  Inv' /\ Keep
<1>0. /\ walk = None /\ j \in note /\ note' = note \ {j} /\ elapsed' \subseteq elapsed
      /\ UNCHANGED <<walk, en, wire, vm, ran, conns, osms, takeovers, restarts>>
  BY DEF WebJob
<1>1. j \in Jobs /\ pos[j] = 0 /\ row[j].status = "INITIATED" /\ pos \in [Jobs -> Nat]
  BY <1>0 DEF Inv, NoteOK, TypeOK
\* what the two outcomes have in common
<1>2. ASSUME StateOK(Now'), Steady(None, j), faults' \in Nat, tail' \in Nat,
             row'[j].action = row[j].action, row'[j].status # "NONE",
             \A k \in Jobs \ {j} : pos[k] = 0 => pos'[k] = 0 /\ row'[k] = row[k],
             OrderOK', BehindOK'
      PROVE  Inv' /\ Keep
  <2>1. TypeOK'
    <3>1. /\ note' \subseteq Jobs /\ elapsed' \subseteq Jobs /\ walk' \in Jobs \cup {None}
          /\ en' \in [Nodes -> BOOLEAN] /\ wire' \in [Jobs -> WireType]
          /\ vm' \in [Instances -> SUBSET Nodes]
          /\ ran' \in [Instances -> SUBSET Nodes] /\ conns' \in Nat /\ osms' \in Nat
          /\ takeovers' \in Nat /\ restarts' \in Nat
      BY <1>0 DEF Inv, TypeOK
    <3> QED BY <3>1, <1>2, TypeStep
  <2>2. NoteOK' BY <1>0, <1>2 DEF Inv, NoteOK, TypeOK
  <2>3. \A k \in Jobs : /\ row'[k].action = row[k].action
                        /\ row'[k].status = "NONE"
                              => row[k].status = "NONE" /\ row'[k].target = row[k].target
    BY <1>2 DEF Steady
  <2>4. RowOK' BY <2>3 DEF Inv, RowOK
  <2>5. WireOK' BY <1>0, <2>3 DEF Inv, WireOK
  <2>6. WalkOK' BY <1>0 DEF WalkOK
  <2>7. Keep
    <3>1. \A k \in Jobs : row[k].status \in Ended => k # j /\ pos[k] = 0
      BY <1>1, NowParts DEF Inv, StateOK, OverIsOut, Ended
    <3> QED BY <3>1, <1>2 DEF Keep
  <2> QED BY <1>2, <2>1, <2>2, <2>4, <2>5, <2>6, <2>7 DEF Inv
<1>3. CASE Spend(1) /\ UNCHANGED <<clcVars, tail>>
  <2>1. /\ Now' = Now /\ Queue' = Queue /\ \A k : DisableNew(k)' = DisableNew(k)
        /\ pos' = pos /\ mem' = mem /\ row' = row /\ tail' = tail
    BY <1>3 DEF Now, clcVars, Queue, DisableNew
  <2>2. OrderOK' /\ BehindOK' BY <2>1 DEF Inv, OrderOK, BehindOK
  <2>3. Steady(None, j) BY <2>1 DEF Steady
  <2>4. faults' \in Nat BY <1>3, SpendType DEF Inv, TypeOK
  <2>5. StateOK(Now') /\ tail' \in Nat BY <2>1 DEF Inv, TypeOK
  <2> QED BY <1>1, <1>2, <2>1, <2>2, <2>3, <2>4, <2>5
<1>4. CASE Refuse(j)
  <2>1. /\ StateOK(Now') /\ Steady(None, j) /\ faults' \in Nat /\ tail' = tail
        /\ pos'[j] = 0 /\ row'[j].action = row[j].action /\ row'[j].status # "NONE"
        /\ \A k \in Jobs \ {j} : pos[k] = 0 => pos'[k] = 0 /\ row'[k] = row[k]
    BY <1>0, <1>4, RefuseOK
  <2>2. pos' \in [Jobs -> Nat] BY <2>1 DEF StateOK, StateType, Now
  <2>3. OrderOK' /\ BehindOK' BY <2>1, <2>2, SteadyStep
  <2>4. tail' \in Nat BY <2>1 DEF Inv, TypeOK
  <2> QED BY <1>2, <2>1, <2>3, <2>4
<1>5. CASE Insert(j)
  <2>1. /\ StateOK(Now') /\ Steady(None, j) /\ faults' \in Nat
        /\ tail' = Place /\ pos'[j] = Place /\ row'[j] = row[j]
        /\ mem'[j] = Blank
        /\ \A k \in Jobs \ {j} : pos[k] = 0 => pos'[k] = 0 /\ row'[k] = row[k]
    BY <1>0, <1>5, InsertOK
  <2>2. Place \in Nat /\ \A k \in Queue : pos[k] < Place
    BY <1>1 DEF Place, Inv, TypeOK, OrderOK, Queue
  <2>3. \A k \in Queue' \ {j} :
            /\ k \in Queue /\ pos'[k] = pos[k] /\ pos'[k] < Place
            /\ DisableNew(k)' => DisableNew(k)
            /\ mem'[k].ent = mem[k].ent
    BY <1>1, <2>1, <2>2, ConstantsOK DEF Queue, Steady, DisableNew
  <2>4. Blank.ent = 0 BY DEF Blank
  <2>5. \A k \in Queue : pos[k] \in Nat BY <1>1 DEF Queue
  <2>6. OrderOK'
    BY <2>1, <2>2, <2>3, <2>5 DEF Inv, OrderOK
  <2>7. BehindOK'
    BY <2>1, <2>2, <2>3, <2>4, <2>5 DEF Inv, BehindOK
  <2> QED BY <1>1, <1>2, <2>1, <2>2, <2>6, <2>7
<1> QED BY <1>3, <1>4, <1>5 DEF WebJob

\* A response of a node or an OS manager.
LEMMA NodeResponseInv ==
    ASSUME Inv, NEW j \in Jobs, NodeResponse(j)
    PROVE  Inv' /\ Keep /\ Calm
<1> DEFINE rep == wire[j].rep
           st == IF rep = "STOPPED" THEN "RUNNING" ELSE rep
           osm == FindByDb(ent, "osm", row[j].target)
<1>0. /\ walk = None /\ walk' = None /\ rep # "NONE" /\ elapsed' \subseteq elapsed
      /\ wire' = [wire EXCEPT ![j] = IF st = "RUNNING"
                                     THEN [@ EXCEPT !.rep = "NONE"] ELSE NoRequest]
      /\ UNCHANGED <<note, en, tail, vm, ran, conns, osms, takeovers, restarts>>
  BY DEF NodeResponse
<1>1. wire \in [Jobs -> WireType] /\ faults \in Nat /\ StateOK(Now) BY DEF Inv, TypeOK
<1>2. rep \in Ended \cup {"RUNNING", "STOPPED", "STARTING_OSM"}
  BY <1>0, <1>1 DEF WireType
<1>3. /\ st \in Statuses \ {"INITIATED"} /\ st # "PENDING"
      /\ st \in {"PENDING"} \cup Waiting => row[j].action \in StartActions
  BY <1>2, StatusFacts DEF Inv, WireOK, Waiting, Ended
<1>4. /\ wire' \in [Jobs -> WireType] /\ wire'[j].rep = "NONE"
      /\ wire'[j].node \in {0, wire[j].node}
      /\ \A k \in Jobs \ {j} : wire'[k] = wire[k]
  BY <1>0, <1>1 DEF NoRequest, WireType
<1>5. StateOK(Now') /\ Tame(Now, Now', None) /\ Counted(Now)
  <2>1. CASE j \notin Queue
    <3>1. Now' = Now /\ UNCHANGED clcVars /\ faults' = faults
      BY <2>1 DEF NodeResponse, clcVars, Now
    <3> QED BY <3>1, <1>1, TameRefl, IdleCounted
  <2>2. CASE j \in Queue /\ rep # "STOPPED"
    <3>1. Update(Now, j, st, 0) BY <2>2 DEF NodeResponse
    <3>2. j \in Queued(Now) BY <2>2, NowParts
    <3> HIDE DEF st
    <3> QED BY <3>1, <3>2, <1>1, <1>3, NowParts, UpdateOK
  <2>3. CASE j \in Queue /\ rep = "STOPPED"
    <3> DEFINE s == JobUpdateStatus(Now, j, "no", "RUNNING")
               v == [s EXCEPT !.ent = Release(s.ent, osm)]
               f == JobUpdateStatus(Now, j, "row", "RUNNING")
    <3>1. \/ Spend(0) /\ Become(v)
          \/ Spend(1) /\ Become(f)
      BY <2>3 DEF NodeResponse
    <3>2. j \in Queued(Now) BY <2>3, NowParts
    <3>3. /\ StateOK(s) /\ Tame(Now, s, None) /\ StateOK(f) /\ Tame(Now, f, None)
          /\ Lag(s) \subseteq Lag(Now)
      BY <3>2, <1>1, JobUpdateStatusOK, StatusFacts
    <3> HIDE DEF s, f
    <3>4. StateOK(v) /\ Tame(s, v, None) /\ Lag(v) = Lag(s)
      <4>1. s \in StateType /\ s.ent \in [Slots -> EntType]
        BY <3>3, Parts DEF StateOK
      <4>2. /\ Release(s.ent, osm) \in [Slots -> EntType]
            /\ \A t \in Slots : Release(s.ent, osm)[t] \in {FreeSlot, s.ent[t]}
        BY <4>1, ReleaseParts
      <4>3. /\ v \in StateType /\ v.pos = s.pos /\ v.mem = s.mem /\ v.row = s.row
            /\ v.ins = s.ins /\ v.ent = Release(s.ent, osm)
        BY <4>1, <4>2 DEF StateType
      <4> HIDE DEF v
      <4>4. \A t \in Slots :
              /\ v.ent[t].busy <= s.ent[t].busy
              /\ IF v.ent[t].type = "node" THEN v.ent[t].db \in Nodes
                 ELSE v.ent[t].busy = 0
        BY <4>1, <4>2, <4>3, <3>3, FreeSlotType, Parts DEF StateOK, NodeSlots
      <4> QED BY <3>3, <4>3, <4>4, EntitiesOK
    <3> HIDE DEF v
    <3>5. Tame(Now, v, None) BY <3>3, <3>4, <1>1, TameTrans DEF StateOK
    <3>6. Now' \in {v, f} BY <3>1, <3>3, <3>4, BecomeNow DEF StateOK
    <3>7. Counted(Now)
      <4>1. CASE Spend(0) /\ Become(v)
        <5>1. faults' = faults BY <4>1, <1>1 DEF Spend
        <5> QED BY <4>1, <5>1, <3>3, <3>4, <1>1, BecomeCounted DEF StateOK
      <4>2. CASE Spend(1) /\ Become(f) BY <4>2, <1>1, SpentCounted
      <4> QED BY <3>1, <4>1, <4>2
    <3> QED BY <3>3, <3>4, <3>5, <3>6, <3>7
  <2> QED BY <2>1, <2>2, <2>3
<1>6. NoteOK' /\ RowOK' /\ OrderOK' /\ BehindOK' /\ WalkOK' /\ Keep
      /\ \A k \in Jobs : row'[k].action = row[k].action
  BY <1>0, <1>5, HandlerStep
<1>7. WireOK' BY <1>1, <1>4, <1>6 DEF Inv, WireOK
<1>8. TypeOK'
  <2>1. /\ note' \subseteq Jobs /\ elapsed' \subseteq Jobs /\ walk' \in Jobs \cup {None}
        /\ en' \in [Nodes -> BOOLEAN] /\ tail' \in Nat
        /\ vm' \in [Instances -> SUBSET Nodes]
        /\ ran' \in [Instances -> SUBSET Nodes] /\ conns' \in Nat /\ osms' \in Nat
        /\ takeovers' \in Nat /\ restarts' \in Nat
    BY <1>0 DEF Inv, TypeOK
  <2>2. faults' \in Nat BY <1>5 DEF Counted
  <2> QED BY <2>1, <2>2, <1>4, <1>5, TypeStep
<1>9. Calm BY <1>0, <1>5 DEF Calm
<1> QED BY <1>5, <1>6, <1>7, <1>8, <1>9 DEF Inv

\* A connection is lost: what becomes of the requests.
LEMMA LoseOK ==
    ASSUME Inv, NEW n, NEW L, Lose(n, L), \A j \in Jobs : row'[j].action = row[j].action
    PROVE  wire' \in [Jobs -> WireType] /\ WireOK'
<1>1. wire \in [Jobs -> WireType] BY DEF Inv, TypeOK
<1>2. wire' \in [Jobs -> WireType] BY <1>1 DEF Lose, NoRequest, WireType
<1>3. \A j \in Jobs : \/ wire'[j] = wire[j]
                      \/ wire'[j].rep = "NONE" /\ wire'[j].node \in {0, wire[j].node}
  BY <1>1 DEF Lose, NoRequest, WireType
<1> QED BY <1>2, <1>3 DEF Inv, WireOK

\* Steps of connections: entities change, jobs do not.
LEMMA ConnectionStep ==
    ASSUME Inv, walk = None, UNCHANGED <<row, pos, mem, ins, note, elapsed, walk, en,
                                         tail, vm, ran, faults, restarts>>,
           ent' \in [Slots -> EntType], wire' \in [Jobs -> WireType], WireOK',
           conns' \in Nat, osms' \in Nat, takeovers' \in Nat,
           \A t \in Slots : /\ ent'[t].busy <= ent[t].busy
                            /\ IF ent'[t].type = "node" THEN ent'[t].db \in Nodes
                               ELSE ent'[t].busy = 0
    PROVE  Inv' /\ Keep /\ Calm
<1>1. TypeOK' BY DEF Inv, TypeOK
<1>2. /\ Now'.pos = pos /\ Now'.mem = mem /\ Now'.ent = ent' /\ Now'.row = row
      /\ Now.pos = pos /\ Now.mem = mem /\ Now.ent = ent /\ Now.row = row
      /\ Now'.ins = ins /\ Now.ins = ins
      /\ Now' \in StateType
  BY <1>1 DEF Now, TypeOK, StateType
<1>3. StateOK(Now') /\ Tame(Now, Now', None) /\ Lag(Now') = Lag(Now)
  BY <1>2, EntitiesOK DEF Inv
<1>4. NoteOK' /\ RowOK' /\ OrderOK' /\ BehindOK' /\ WalkOK' /\ Keep
  BY <1>3, HandlerStep
<1>5. Calm BY <1>3 DEF Calm, Counted, Inv, TypeOK
<1> QED BY <1>1, <1>3, <1>4, <1>5 DEF Inv

\* ConnectionStep for the actions that change one slot in fields without jobs.
LEMMA SlotFacts ==
    ASSUME Inv
    PROVE  /\ ent \in [Slots -> EntType] /\ wire \in [Jobs -> WireType]
           /\ \A t \in Slots :
                /\ ent[t] \in EntType /\ ent[t].busy \in Nat
                /\ IF ent[t].type = "node" THEN ent[t].db \in Nodes
                   ELSE ent[t].busy = 0
           /\ conns \in Nat /\ osms \in Nat /\ takeovers \in Nat
BY NowParts DEF Inv, TypeOK, StateOK, NodeSlots, EntType

\* ly_entity_init and ly_entity_update of a new connection.
LEMMA NewSlot ==
    ASSUME NEW type \in {"node", "osm"}, NEW id \in Nat
    PROVE  LET w == [FreeSlot EXCEPT !.type = type, !.db = id, !.status = ONLINE]
           IN  w \in EntType /\ w.type = type /\ w.db = id /\ w.busy = 0
<1>1. ONLINE \in 0 .. RUNNING BY DEF ONLINE, RUNNING
<1> QED BY <1>1, FreeSlotType DEF EntType

\* A node authenticates, maybe over an older entity of its own.
LEMMA NodeAuthInv ==
    ASSUME Inv, NEW n \in Nodes, NEW t \in Slots, NodeAuth(n, t)
    PROVE  Inv' /\ Keep /\ Calm
<1> DEFINE old == FindByDb(ent, "node", n)
           new == [FreeSlot EXCEPT !.type = "node", !.db = n, !.status = ONLINE]
<1>1. /\ walk = None /\ conns' \in Nat /\ takeovers' \in Nat /\ osms' \in Nat
      /\ UNCHANGED <<row, pos, mem, ins, note, elapsed, walk, en, tail, vm, ran,
                     faults, restarts>>
      /\ ent' = [Release(ent, old) EXCEPT ![t] = new]
      /\ UNCHANGED wire \/ \E L : Lose(n, L)
  BY SlotFacts DEF NodeAuth
<1>2. new \in EntType /\ new.type = "node" /\ new.db = n /\ new.busy = 0
  BY NewSlot, ConstantsOK
<1>3. /\ Release(ent, old) \in [Slots -> EntType]
      /\ \A x \in Slots : Release(ent, old)[x] \in {FreeSlot, ent[x]}
  BY SlotFacts, ReleaseParts
<1> HIDE DEF old, new
<1>4. /\ ent' \in [Slots -> EntType]
      /\ \A x \in Slots : ent'[x] \in {FreeSlot, ent[x], new}
  BY <1>1, <1>2, <1>3
<1>5. wire' \in [Jobs -> WireType] /\ WireOK'
  <2>1. CASE UNCHANGED wire BY <2>1, <1>1, SlotFacts DEF Inv, WireOK
  <2>2. CASE \E L : Lose(n, L) BY <2>2, <1>1, LoseOK
  <2> QED BY <1>1, <2>1, <2>2
<1>6. \A x \in Slots : /\ ent'[x].busy <= ent[x].busy
                       /\ IF ent'[x].type = "node" THEN ent'[x].db \in Nodes
                          ELSE ent'[x].busy = 0
  BY <1>2, <1>4, SlotFacts, FreeSlotType
<1> QED BY <1>1, <1>4, <1>5, <1>6, ConnectionStep

\* An OS manager authenticates.
LEMMA OsmAuthInv ==
    ASSUME Inv, NEW i \in Instances, NEW t \in Slots, OsmAuth(i, t)
    PROVE  Inv' /\ Keep /\ Calm
<1> DEFINE old == FindByDb(ent, "osm", i)
           new == [FreeSlot EXCEPT !.type = "osm", !.db = i, !.status = ONLINE]
<1>1. /\ walk = None /\ conns' \in Nat /\ takeovers' \in Nat /\ osms' \in Nat
      /\ UNCHANGED <<row, pos, mem, ins, note, elapsed, walk, en, tail, vm, ran,
                     faults, restarts, wire>>
      /\ ent' = [Release(ent, old) EXCEPT ![t] = new]
  BY SlotFacts DEF OsmAuth
<1>2. new \in EntType /\ new.type = "osm" /\ new.busy = 0
  BY NewSlot, ConstantsOK
<1>3. /\ Release(ent, old) \in [Slots -> EntType]
      /\ \A x \in Slots : Release(ent, old)[x] \in {FreeSlot, ent[x]}
  BY SlotFacts, ReleaseParts
<1> HIDE DEF old, new
<1>4. /\ ent' \in [Slots -> EntType]
      /\ \A x \in Slots : ent'[x] \in {FreeSlot, ent[x], new}
  BY <1>1, <1>2, <1>3
<1>5. wire' \in [Jobs -> WireType] /\ WireOK' BY <1>1, SlotFacts DEF Inv, WireOK
<1>6. \A x \in Slots : /\ ent'[x].busy <= ent[x].busy
                       /\ IF ent'[x].type = "node" THEN ent'[x].db \in Nodes
                          ELSE ent'[x].busy = 0
  BY <1>2, <1>4, SlotFacts, FreeSlotType
<1> QED BY <1>1, <1>4, <1>5, <1>6, ConnectionStep

\* Steps of one connection that leave the kind, the row id and the count alone.
LEMMA OneSlotInv ==
    ASSUME Inv, NEW t \in Slots,
           NodeReauth(t) \/ NodeRegister(t) \/ NodeReport(t) \/ OsmAdvance(t)
    PROVE  Inv' /\ Keep /\ Calm
<1>1. /\ walk = None /\ conns' \in Nat /\ takeovers' \in Nat /\ osms' \in Nat
      /\ UNCHANGED <<row, pos, mem, ins, note, elapsed, walk, en, tail, vm, ran,
                     faults, restarts, wire>>
  BY SlotFacts DEF NodeReauth, NodeRegister, NodeReport, OsmAdvance, bounds
<1>2. /\ ent' \in [Slots -> EntType]
      /\ \A x \in Slots : /\ ent'[x].type = ent[x].type /\ ent'[x].db = ent[x].db
                          /\ ent'[x].busy = ent[x].busy
  <2>1. CASE NodeReauth(t)
    BY <2>1, SlotFacts DEF NodeReauth, EntType, ONLINE, RUNNING
  <2>2. CASE NodeRegister(t)
    <3>1. en[ent[t].db] \in BOOLEAN BY <2>2, SlotFacts DEF NodeRegister, Inv, TypeOK
    <3>2. Rooms \subseteq BOOLEAN BY ConstantsOK
    <3>3. PICK b \in BOOLEAN, room \in BOOLEAN :
             ent' = [ent EXCEPT ![t].status = 3, ![t].room = room, ![t].enabled = b]
      BY <2>2, <3>1, <3>2 DEF NodeRegister, REGISTERED
    <3>4. 3 \in 0 .. RUNNING BY DEF RUNNING
    <3> QED BY <3>3, <3>4, SlotFacts DEF EntType
  <2>3. CASE NodeReport(t)
    BY <2>3, SlotFacts, ConstantsOK DEF NodeReport, EntType
  <2>4. CASE OsmAdvance(t)
    BY <2>4, SlotFacts DEF OsmAdvance, EntType, ONLINE, REGISTERED, RUNNING
  <2> QED BY <2>1, <2>2, <2>3, <2>4
<1>3. wire' \in [Jobs -> WireType] /\ WireOK' BY <1>1, SlotFacts DEF Inv, WireOK
<1>4. \A x \in Slots : /\ ent'[x].busy <= ent[x].busy
                       /\ IF ent'[x].type = "node" THEN ent'[x].db \in Nodes
                          ELSE ent'[x].busy = 0
  BY <1>2, SlotFacts
<1> QED BY <1>1, <1>2, <1>3, <1>4, ConnectionStep

\* The socket of an OS manager is closed.
LEMMA OsmCloseInv ==
    ASSUME Inv, NEW t \in Slots, OsmClose(t)
    PROVE  Inv' /\ Keep /\ Calm
<1>1. /\ walk = None /\ conns' \in Nat /\ takeovers' \in Nat /\ osms' \in Nat
      /\ UNCHANGED <<row, pos, mem, ins, note, elapsed, walk, en, tail, vm, ran,
                     faults, restarts, wire>>
      /\ ent' = Release(ent, {t})
  BY SlotFacts DEF OsmClose, bounds
<1>2. /\ ent' \in [Slots -> EntType]
      /\ \A x \in Slots : ent'[x] \in {FreeSlot, ent[x]}
  BY <1>1, SlotFacts, ReleaseParts
<1>3. wire' \in [Jobs -> WireType] /\ WireOK' BY <1>1, SlotFacts DEF Inv, WireOK
<1>4. \A x \in Slots : /\ ent'[x].busy <= ent[x].busy
                       /\ IF ent'[x].type = "node" THEN ent'[x].db \in Nodes
                          ELSE ent'[x].busy = 0
  BY <1>2, SlotFacts, FreeSlotType
<1> QED BY <1>1, <1>2, <1>3, <1>4, ConnectionStep

\* The connection of a node closes and ends the jobs on it.
LEMMA NodeCloseInv ==
    ASSUME Inv, NEW t \in Slots, NodeClose(t)
    PROVE  Inv' /\ Keep /\ Calm
<1>0. /\ walk = None /\ walk' = None /\ elapsed' \subseteq elapsed
      /\ UNCHANGED <<note, en, tail, vm, ran, conns, osms, takeovers, restarts>>
      /\ \E L : Lose(ent[t].db, L)
  BY DEF NodeClose
<1>1. PICK F \in SUBSET JobsOn(t) :
          LET s == JobUpdateAll(Now, JobsOn(t), F, "FAILURE")
          IN  /\ Spend(Cardinality(F))
              /\ Become([s EXCEPT !.ent = Release(s.ent, {t})])
  BY DEF NodeClose
<1> DEFINE s == JobUpdateAll(Now, JobsOn(t), F, "FAILURE")
           v == [s EXCEPT !.ent = Release(s.ent, {t})]
<1>2. /\ StateOK(s) /\ Tame(Now, s, None)
      /\ F = {} => Lag(s) \subseteq Lag(Now)
  <2>1. JobsOn(t) \subseteq Queued(Now) /\ "FAILURE" \in Ended
    BY NowParts DEF JobsOn, Ended
  <2> QED BY <2>1, JobUpdateAllOK DEF Inv
<1> HIDE DEF s
<1>3. StateOK(v) /\ Tame(s, v, None) /\ Lag(v) = Lag(s)
  <2>1. s \in StateType /\ s.ent \in [Slots -> EntType]
    BY <1>2, Parts DEF StateOK
  <2>2. /\ Release(s.ent, {t}) \in [Slots -> EntType]
        /\ \A x \in Slots : Release(s.ent, {t})[x] \in {FreeSlot, s.ent[x]}
    BY <2>1, ReleaseParts
  <2>3. /\ v \in StateType /\ v.pos = s.pos /\ v.mem = s.mem /\ v.row = s.row
        /\ v.ins = s.ins /\ v.ent = Release(s.ent, {t})
    BY <2>1, <2>2 DEF StateType
  <2> HIDE DEF v
  <2>4. \A x \in Slots :
          /\ v.ent[x].busy <= s.ent[x].busy
          /\ IF v.ent[x].type = "node" THEN v.ent[x].db \in Nodes
             ELSE v.ent[x].busy = 0
    <3>1. \A x \in Slots : /\ s.ent[x].busy \in Nat
                            /\ IF s.ent[x].type = "node" THEN s.ent[x].db \in Nodes
                               ELSE s.ent[x].busy = 0
      BY <2>1, <1>2, Parts DEF StateOK, NodeSlots
    <3>2. \A x \in Slots : v.ent[x] \in {FreeSlot, s.ent[x]} BY <2>2, <2>3
    <3>3. FreeSlot.busy = 0 /\ FreeSlot.type # "node" BY DEF FreeSlot
    <3> QED BY <3>1, <3>2, <3>3
  <2> QED BY <1>2, <2>3, <2>4, EntitiesOK
<1>4. Become(v) BY <1>1 DEF s
<1> HIDE DEF v
<1>5. Now' = v BY <1>3, <1>4, BecomeNow DEF StateOK
<1>6. Tame(Now, Now', None) /\ StateOK(Now')
  BY <1>2, <1>3, <1>5, TameTrans DEF StateOK, Inv
<1>7. NoteOK' /\ RowOK' /\ OrderOK' /\ BehindOK' /\ WalkOK' /\ Keep
      /\ \A j \in Jobs : row'[j].action = row[j].action
  BY <1>0, <1>6, HandlerStep
<1>8. wire' \in [Jobs -> WireType] /\ WireOK' BY <1>0, <1>7, LoseOK
<1>9. Counted(Now)
  <2>1. F \subseteq Jobs BY DEF JobsOn, Queue
  <2>2. /\ faults' \in Nat /\ faults <= faults'
        /\ faults' = faults => F = {}
    BY <2>1, <1>1, FailsCounted DEF Inv, TypeOK
  <2> QED BY <2>2, <1>2, <1>3, <1>5 DEF Counted
<1>10. TypeOK'
  <2>1. /\ note' \subseteq Jobs /\ elapsed' \subseteq Jobs /\ walk' \in Jobs \cup {None}
        /\ en' \in [Nodes -> BOOLEAN] /\ tail' \in Nat
        /\ vm' \in [Instances -> SUBSET Nodes]
        /\ ran' \in [Instances -> SUBSET Nodes] /\ conns' \in Nat /\ osms' \in Nat
        /\ takeovers' \in Nat /\ restarts' \in Nat
    BY <1>0 DEF Inv, TypeOK
  <2>2. faults' \in Nat BY <1>9 DEF Counted
  <2> QED BY <2>1, <2>2, <1>6, <1>8, TypeStep
<1>11. Calm BY <1>0, <1>6, <1>9 DEF Calm
<1> QED BY <1>6, <1>7, <1>8, <1>10, <1>11 DEF Inv

\* lyclc starts again.
LEMMA RestartInv ==
    ASSUME Inv, Restart
    PROVE  Inv' /\ Keep
<1> DEFINE P == {j \in Jobs : row[j].status = "PENDING"}
           B == [Blank EXCEPT !.status = "PENDING"]
<1>0. /\ restarts' = restarts + 1
      /\ mem' = [j \in Jobs |-> IF j \in P THEN B ELSE Blank]
      /\ elapsed' = P /\ ent' = [t \in Slots |-> FreeSlot]
      /\ note' = {} /\ walk' = None /\ tail' = Cardinality(P)
      /\ UNCHANGED <<row, ins, en, vm, ran, conns, osms, takeovers, faults>>
  BY DEF Restart
<1>1. PICK f \in [P -> 1 .. Cardinality(P)] :
         /\ \A j, k \in P : f[j] = f[k] => j = k
         /\ pos' = [j \in Jobs |-> IF j \in P THEN f[j] ELSE 0]
  BY DEF Restart
<1>2. PICK L : wire' = [j \in Jobs |->
                IF \/ j \in L \/ wire[j].node = -1
                   \/ wire[j].rep \notin {"NONE", "RUNNING", "STOPPED"}
                THEN NoRequest ELSE [wire[j] EXCEPT !.rep = "NONE"]]
  BY DEF Restart
<1>3. P \subseteq Jobs /\ Cardinality(P) \in Nat
  <2>1. P \subseteq Jobs OBVIOUS
  <2> HIDE DEF P
  <2> QED BY <2>1, JobsFinite
<1>4. /\ B \in MemType /\ B.pend = -1 /\ B.ent = 0 /\ B.status = "PENDING"
      /\ Blank.pend = -1 /\ Blank.ent = 0
  <2>1. "PENDING" \in Statuses BY DEF Statuses
  <2>2. Blank.pend = -1 /\ Blank.ent = 0 BY DEF Blank
  <2> QED BY <2>1, <2>2, BlankType DEF MemType
<1> HIDE DEF B
<1>5. /\ mem' \in [Jobs -> MemType]
      /\ \A j \in Jobs : mem'[j].pend # 0 /\ mem'[j].ent = 0
      /\ \A j \in P : mem'[j].status = "PENDING"
  BY <1>0, <1>4, BlankType
<1>6. /\ pos' \in [Jobs -> Nat]
      /\ \A j \in Jobs : IF j \in P THEN pos'[j] = f[j] /\ pos'[j] \in 1 .. Cardinality(P)
                         ELSE pos'[j] = 0
  <2>1. \A j \in P : f[j] \in 1 .. Cardinality(P) OBVIOUS
  <2> HIDE DEF P
  <2> QED BY <1>1, <1>3, <2>1
<1>7. ent' \in [Slots -> EntType] /\ \A t \in Slots : ent'[t] = FreeSlot
  BY <1>0, FreeSlotType
<1>8. /\ wire' \in [Jobs -> WireType]
      /\ \A j \in Jobs : wire'[j].rep = "NONE" /\ wire'[j].node # -1
  <2>1. wire \in [Jobs -> WireType] BY DEF Inv, TypeOK
  <2> QED BY <2>1, <1>2 DEF NoRequest, WireType
<1>9. TypeOK'
  <2> HIDE DEF P
  <2> QED BY <1>0, <1>3, <1>5, <1>6, <1>7, <1>8 DEF Inv, TypeOK
<1>10. StateOK(Now')
  <2>1. /\ Now'.pos = pos' /\ Now'.mem = mem' /\ Now'.ent = ent' /\ Now'.row = row
        /\ Now' \in StateType
    BY <1>0, <1>9 DEF Now, TypeOK, StateType
  <2>2. NodeSlots(Now') BY <2>1, <1>7, FreeSlotType DEF NodeSlots
  <2>3. OverIsOut(Now') BY <2>1, <1>6 DEF OverIsOut, Ended
  <2>4. FreshIdle(Now') BY <2>1, <1>5 DEF FreshIdle
  <2>5. PendingStarts(Now')
    <3>1. \A j \in P : row[j].action \in StartActions
      BY NowParts DEF Inv, StateOK, PendingStarts
    <3>2. \A j \in Jobs : row[j].status = "PENDING" => j \in P OBVIOUS
    <3> HIDE DEF P
    <3>3. \A j \in Jobs : pos'[j] > 0 => j \in P BY <1>6
    <3> QED BY <3>1, <3>2, <3>3, <2>1 DEF PendingStarts
  <2>6. BusyHeld(Now')
    <3>1. \A t : Cardinality(HoldersIn(Now', t)) \in Nat BY <2>1, Parts
    <3> QED BY <3>1, <2>1, <1>7, FreeSlotType DEF BusyHeld
  <2> QED BY <2>1, <2>2, <2>3, <2>4, <2>5, <2>6 DEF StateOK
<1>11. NoteOK' /\ RowOK' /\ WalkOK' BY <1>0 DEF Inv, NoteOK, RowOK, WalkOK
<1>12. WireOK' BY <1>8 DEF WireOK
<1>13. OrderOK'
  <2>1. \A j \in Queue' : j \in P /\ pos'[j] = f[j] /\ pos'[j] <= Cardinality(P)
    BY <1>3, <1>6 DEF Queue
  <2> QED BY <2>1, <1>0, <1>1 DEF OrderOK
<1>14. BehindOK' BY <1>5 DEF BehindOK, Queue
<1> QED BY <1>0, <1>9, <1>10, <1>11, <1>12, <1>13, <1>14 DEF Inv, Keep

\* The invariant holds when lyclc starts on an empty job table.
LEMMA InitInv == ASSUME Init PROVE Inv
<1>1. TypeOK
  <2>1. [action |-> "NONE", target |-> 0, status |-> "NONE"] \in RowType BY DEF RowType
  <2>2. [life |-> "LIVE", node |-> 0] \in InsType BY DEF InsType
  <2>3. NoRequest \in WireType BY DEF NoRequest, WireType
  <2> QED BY <2>1, <2>2, <2>3, BlankType, FreeSlotType DEF Init, TypeOK
<1>2. Queue = {} BY DEF Init, Queue
<1>3. StateOK(Now)
  <2>1. Now \in StateType BY <1>1, NowType
  <2>2. NodeSlots(Now) BY NowParts, FreeSlotType DEF Init, NodeSlots
  <2>3. OverIsOut(Now) /\ FreshIdle(Now) BY NowParts DEF Init, OverIsOut, FreshIdle
  <2>4. PendingStarts(Now) BY NowParts DEF Init, PendingStarts
  <2>5. BusyHeld(Now)
    <3>1. \A t : Cardinality(HoldersIn(Now, t)) \in Nat BY <2>1, Parts
    <3> QED BY <3>1, NowParts, FreeSlotType DEF Init, BusyHeld
  <2> QED BY <2>1, <2>2, <2>3, <2>4, <2>5 DEF StateOK
<1>4. NoteOK /\ RowOK /\ WireOK BY DEF Init, NoteOK, RowOK, WireOK, NoRequest
<1>5. OrderOK /\ BehindOK /\ WalkOK BY <1>2 DEF Init, OrderOK, BehindOK, WalkOK
<1> QED BY <1>1, <1>3, <1>4, <1>5 DEF Inv

\* Every step keeps the invariant and the rows of the jobs that are over.
LEMMA NextInv == ASSUME Inv, [Next]_vars PROVE Inv' /\ Keep
<1>1. CASE UNCHANGED vars
  <2>1. TypeOK' BY <1>1 DEF vars, Inv, TypeOK
  <2>2. WireOK' BY <1>1 DEF vars, Inv, WireOK
  <2> QED BY <1>1, <2>1, <2>2, IdleInv DEF vars, clcVars
<1>2. CASE Web
  <2>1. ASSUME NEW j \in Jobs, NEW a \in Actions,
               NEW t \in IF a \in NodeActions THEN Nodes ELSE Instances,
               WebCreate(j, a, t)
        PROVE  Inv' /\ Keep
    <3>1. a \in AllActions /\ t \in Nat BY ConstantsOK
    <3> QED BY <2>1, <3>1, WebCreateInv
  <2> QED BY <1>2, <2>1, WebDeleteInv DEF Web
<1>3. CASE Clc
  BY <1>3, WebJobInv, NodeResponseInv, DispatchBeginInv, DispatchStepInv DEF Clc
<1>4. CASE Connections
  BY <1>4, NodeAuthInv, OsmAuthInv, OneSlotInv, OsmCloseInv, NodeCloseInv
  DEF Connections
<1>5. CASE Restart BY <1>5, RestartInv
<1>6. CASE \E j \in Jobs : NodeStep(j) \/ Elapse(j)
  BY <1>6, NodeStepInv, ElapseInv
<1> QED BY <1>1, <1>2, <1>3, <1>4, <1>5, <1>6 DEF Next

\* A step is calm, or one of the web application, of a notification, or a restart.
LEMMA NextCalm ==
    ASSUME Inv, [Next]_vars
    PROVE  Calm \/ Web \/ Restart \/ \E j \in Jobs : WebJob(j)
<1>1. CASE UNCHANGED vars BY <1>1, IdleCalm DEF vars, clcVars
<1>2. CASE Clc
  BY <1>2, NodeResponseInv, DispatchBeginInv, DispatchStepInv DEF Clc
<1>3. CASE Connections
  BY <1>3, NodeAuthInv, OsmAuthInv, OneSlotInv, OsmCloseInv, NodeCloseInv
  DEF Connections
<1>4. CASE \E j \in Jobs : NodeStep(j) \/ Elapse(j)
  BY <1>4, NodeStepInv, ElapseInv
<1> QED BY <1>1, <1>2, <1>3, <1>4 DEF Next

---------------------------------------------------------------------------
(* The theorems.                                                           *)

\* The invariant is inductive.
THEOREM Invariance == Spec => []Inv
<1>1. Init => Inv BY InitInv
<1>2. Inv /\ [Next]_vars => Inv' BY NextInv
<1> QED BY <1>1, <1>2, PTL DEF Spec

\* Whatever handler runs, fails or is interrupted, the variables keep their types;
\* no job_busy_remove takes a counter below zero.
THEOREM TypeCorrect == Spec => []TypeOK
<1>1. Inv => TypeOK BY DEF Inv
<1> QED BY <1>1, Invariance, PTL

\* job_busy_remove gives back every count that a start job put on a node.
THEOREM BusyNeverLeaks == Spec => []BusyNoLeak
<1>1. Inv => BusyNoLeak
  <2> SUFFICES ASSUME Inv PROVE BusyNoLeak OBVIOUS
  <2>1. \A t : HoldersIn(Now, t) = Holders(mem, Queue, t) BY NowParts DEF HoldersIn
  <2> QED BY <2>1, NowParts DEF Inv, StateOK, BusyHeld, BusyNoLeak
<1> QED BY <1>1, Invariance, PTL

\* The dispatch walk of job_dispatch never stands on a job that was freed.
THEOREM WalkIsSafe == Spec => []WalkSafe
<1>1. Inv => WalkSafe BY DEF Inv, WalkOK, WalkSafe
<1> QED BY <1>1, Invariance, PTL
==============================================================================
