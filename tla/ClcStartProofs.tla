---------------------------- MODULE ClcStartProofs ----------------------------
(***************************************************************************)
(* The promises of the scheduler: a node is never given more start jobs at *)
(* a time than the limit, and with NODE_SELECT_LAST_ONLY an instance never *)
(* has a virtual machine on two nodes.  Both hold as long as no statement  *)
(* and no send failed and no node connected again while lyclc still had    *)
(* its older entity; lyclc may be restarted.                               *)
(*                                                                         *)
(* Both promises are about requests, which lyclc does not see: the proof   *)
(* ties each request that a node may still work on to what lyclc holds for *)
(* it, the row, the entry in the queue and the entity of the node.         *)
(***************************************************************************)
EXTENDS ClcJobsProofs

\* Nothing that the scheduler relies on has gone wrong.
Healthy == faults = 0 /\ takeovers = 0

\* A job in one of these has not been sent to anybody.
Early == {"NONE", "INITIATED", "PENDING"}

\* A node has one entity.
Alone(s) ==
    \A t, u \in Slots :
        /\ s.ent[t].type = "node" /\ s.ent[u].type = "node"
        /\ s.ent[t].db = s.ent[u].db
        => t = u

\* The counter of an entity counts every job that holds it, up to the limit.
Full(s) ==
    \A t \in Slots : /\ Cardinality(HoldersIn(s, t)) <= s.ent[t].busy
                     /\ s.ent[t].busy <= BusyLimit

\* The request of j (in w) is one that the state s of lyclc accounts for.
Placed(s, w, j) ==
    /\ s.row[j].status \in Early => w[j].node = 0
    /\ s.pos[j] > 0 /\ w[j].node # 0 =>
         /\ s.mem[j].status = "RUNNING"
         /\ s.row[j].action \in StartActions =>
              /\ s.mem[j].pend = 0 /\ s.mem[j].ent \in Slots
              /\ s.ent[s.mem[j].ent].type = "node"
              /\ s.ent[s.mem[j].ent].db = w[j].node

Good == Alone(Now) /\ Full(Now) /\ \A j \in Jobs : Placed(Now, wire, j)

---------------------------------------------------------------------------
(* What the operators on the queue leave alone.                            *)

\* From s to u node entities stay what they are.
SameNodes(s, u) ==
    \A t \in Slots :
        /\ u.ent[t].type = "node" <=> s.ent[t].type = "node"
        /\ s.ent[t].type = "node" => u.ent[t].db = s.ent[t].db

\* From s to u job j may end; while it is queued its entry stays as it is.
FirmJob(s, u, j) ==
    /\ u.row[j].action = s.row[j].action /\ u.row[j].target = s.row[j].target
    /\ u.row[j].status \in Early => s.row[j].status \in Early
    /\ u.pos[j] > 0 => /\ s.pos[j] > 0
                       /\ u.mem[j].status = s.mem[j].status
                       /\ u.mem[j].pend = s.mem[j].pend
                       /\ u.mem[j].ent = s.mem[j].ent

Firm(s, u, K) == SameNodes(s, u) /\ \A j \in Jobs \ K : FirmJob(s, u, j)

\* From s to u no instance moves, and none comes back to life.
SameIns(s, u) ==
    \A i \in Instances : /\ u.ins[i].node = s.ins[i].node
                         /\ u.ins[i].life = "LIVE" => s.ins[i].life = "LIVE"

LEMMA FirmTrans ==
    ASSUME NEW s, NEW t, NEW u, NEW K, Firm(s, t, K), Firm(t, u, K)
    PROVE  Firm(s, u, K)
<1>1. SameNodes(s, u) BY DEF Firm, SameNodes
<1>2. ASSUME NEW j \in Jobs \ K PROVE FirmJob(s, u, j) BY <1>2 DEF Firm, FirmJob
<1> QED BY <1>1, <1>2 DEF Firm

LEMMA SameInsTrans ==
    ASSUME NEW s, NEW t, NEW u, SameIns(s, t), SameIns(t, u)
    PROVE  SameIns(s, u)
BY DEF SameIns

\* A count that is at least that of A stays so when B leaves both.
LEMMA MinusFull ==
    ASSUME NEW A, A \subseteq Jobs, NEW B, B \subseteq A, NEW b \in Nat,
           Cardinality(A) <= b, b <= BusyLimit
    PROVE  /\ Cardinality(A \ B) <= Minus(b, Cardinality(B))
           /\ Minus(b, Cardinality(B)) <= BusyLimit
<1>1. /\ IsFiniteSet(A) /\ IsFiniteSet(B)
      /\ Cardinality(A) \in Nat /\ Cardinality(B) \in Nat
  BY JobsFinite
<1>2. Cardinality(A \ B) = Cardinality(A) - Cardinality(A \cap B)
  BY <1>1, FS_Difference
<1>3. A \cap B = B OBVIOUS
<1>4. BusyLimit \in Nat BY ConstantsOK
<1>5. Cardinality(B) <= Cardinality(A) BY <1>1, FS_Subset
<1> QED BY <1>1, <1>2, <1>3, <1>4, <1>5 DEF Minus

\* Fields that Full looks at.
LEMMA FullSame ==
    ASSUME NEW s \in StateType, NEW u \in StateType, Full(s),
           \A j \in Jobs : /\ u.pos[j] = s.pos[j]
                           /\ u.mem[j].pend = s.mem[j].pend
                           /\ u.mem[j].ent = s.mem[j].ent,
           \A t \in Slots : u.ent[t].busy = s.ent[t].busy
    PROVE  Full(u)
<1>1. \A t : HoldersIn(u, t) = HoldersIn(s, t) BY SameHolders
<1> QED BY <1>1 DEF Full

\* The jobs D are over and give back what they held.
LEMMA JobsOverFirm ==
    ASSUME NEW s \in StateType, NodeSlots(s), Full(s), NEW D, D \subseteq Queued(s),
           NEW X, NEW st
    PROVE  LET u == JobsOver(s, D, X, st)
           IN  u \in StateType /\ Full(u) /\ Firm(s, u, {}) /\ SameIns(s, u)
               /\ u.row = s.row /\ \A j \in D : u.pos[j] = 0
<1> DEFINE u == JobsOver(s, D, X, st)
           e == Release(s.ent, Dropped(s.ent, s.row, D, st))
<1>a. D \subseteq Jobs BY DEF Queued
<1>1. /\ u \in StateType
      /\ u.row = s.row
      /\ u.ent = JobBusyRemove(e, s.mem, D)
      /\ \A j \in Jobs : /\ u.pos[j] = IF j \in D THEN 0 ELSE s.pos[j]
                         /\ u.mem[j] = IF j \in D THEN Blank ELSE s.mem[j]
  BY <1>a, JobsOverParts
<1>b. Queued(u) = Queued(s) \ D BY <1>1, <1>a, Parts DEF Queued
<1>c. SameIns(s, u)
  <2> SUFFICES ASSUME NEW i \in Instances
               PROVE  /\ u.ins[i].node = s.ins[i].node
                      /\ u.ins[i].life = "LIVE" => s.ins[i].life = "LIVE"
    BY DEF SameIns
  <2> QED BY JobsOverIns
<1> HIDE DEF u
<1>2. e \in [Slots -> EntType] BY Parts, ReleaseParts
<1>3. \A t \in Slots :
         /\ u.ent[t].type = e[t].type /\ u.ent[t].db = e[t].db
         /\ u.ent[t].busy = IF e[t].type = "node"
                            THEN Minus(e[t].busy, Cardinality(Holders(s.mem, D, t)))
                            ELSE e[t].busy
  BY <1>1, <1>2, <1>a, BusyRemoveParts
<1>4. \A t \in Slots : e[t] = s.ent[t] \/ (e[t] = FreeSlot /\ s.ent[t].type = "osm")
  BY Parts, ReleaseParts DEF Dropped
<1> HIDE DEF e
<1>5. SameNodes(s, u) BY <1>3, <1>4, FreeSlotType DEF SameNodes
<1>6. \A j \in Jobs : FirmJob(s, u, j) BY <1>1 DEF FirmJob
<1>7. Full(u)
  <2> SUFFICES ASSUME NEW t \in Slots
               PROVE  /\ Cardinality(HoldersIn(u, t)) <= u.ent[t].busy
                      /\ u.ent[t].busy <= BusyLimit
    BY DEF Full
  <2>1. HoldersIn(u, t) = HoldersIn(s, t) \ Holders(s.mem, D, t)
    BY <1>1, <1>a, <1>b DEF HoldersIn, Holders, Queued
  <2>2. Holders(s.mem, D, t) \subseteq HoldersIn(s, t)
    BY DEF HoldersIn, Holders
  <2>3. /\ s.ent[t].busy \in Nat /\ HoldersIn(s, t) \subseteq Jobs
        /\ Cardinality(HoldersIn(s, t)) \in Nat /\ Cardinality(HoldersIn(u, t)) \in Nat
    BY <1>1, Parts
  <2>4. Cardinality(HoldersIn(s, t)) <= s.ent[t].busy /\ s.ent[t].busy <= BusyLimit
    BY DEF Full
  <2>5. CASE s.ent[t].type = "node"
    <3>1. e[t] = s.ent[t] BY <2>5, <1>4
    <3> QED BY <2>1, <2>2, <2>3, <2>4, <2>5, <3>1, <1>3, MinusFull
  <2>6. CASE s.ent[t].type # "node"
    <3>1. s.ent[t].busy = 0 BY <2>6 DEF NodeSlots
    <3>2. Cardinality(HoldersIn(s, t)) = 0 BY <3>1, <2>3, <2>4
    <3>3. HoldersIn(s, t) = {} BY <3>2, <2>3, JobsFinite, FS_EmptySet
    <3>4. Cardinality(HoldersIn(u, t)) = 0 BY <3>2, <3>3, <2>1
    <3>5. u.ent[t].busy = 0 BY <2>6, <3>1, <1>3, <1>4, FreeSlotType
    <3> QED BY <3>4, <3>5, ConstantsOK
  <2> QED BY <2>5, <2>6
<1> QED BY <1>1, <1>5, <1>6, <1>7, <1>a, <1>c DEF Firm, u

\* The LY_S_WAITING_STARTING_OSM branch of job_update_status.
LEMMA InstanceStartedFirm ==
    ASSUME NEW s \in StateType, NodeSlots(s), Full(s), NEW j \in Queued(s)
    PROVE  LET u == InstanceStarted(s, j)
           IN  /\ u \in StateType /\ Full(u) /\ Firm(s, u, {j})
               /\ u.ins = SetNode(s.ins, s.row[j].target, DbId(s.ent, s.mem[j].ent))
               /\ u.row = s.row /\ u.pos = s.pos
               /\ u.mem[j].status = s.mem[j].status /\ u.mem[j].ent = s.mem[j].ent
<1> DEFINE m == [s.mem EXCEPT ![j].pend = IF @ = 0 THEN -1 ELSE @]
           e == JobBusyRemove(s.ent, s.mem, {j})
           i == SetNode(s.ins, s.row[j].target, DbId(s.ent, s.mem[j].ent))
           u == InstanceStarted(s, j)
<1>0. j \in Jobs /\ {j} \subseteq Jobs BY DEF Queued
<1>1. m \in [Jobs -> MemType] BY <1>0, Parts DEF MemType
<1>2. e \in [Slots -> EntType] BY <1>0, Parts, BusyRemoveParts
<1>3. i \in [Instances -> InsType] BY <1>0, Parts, DbIdType, SetNodeType
<1>4. u = [s EXCEPT !.ins = i, !.ent = e, !.mem = m] BY <1>0 DEF InstanceStarted, StateType
<1>5. /\ m[j].pend # 0 /\ m[j].status = s.mem[j].status /\ m[j].ent = s.mem[j].ent
      /\ \A k \in Jobs \ {j} : m[k] = s.mem[k]
  BY <1>0, Parts DEF MemType
<1>6. \A t \in Slots :
         /\ e[t].type = s.ent[t].type /\ e[t].db = s.ent[t].db
         /\ e[t].busy = IF s.ent[t].type = "node"
                        THEN Minus(s.ent[t].busy, Cardinality(Holders(s.mem, {j}, t)))
                        ELSE s.ent[t].busy
  BY <1>0, Parts, BusyRemoveParts
<1> HIDE DEF m, e, i, u
<1>7. /\ u \in StateType
      /\ u.row = s.row /\ u.pos = s.pos /\ u.mem = m /\ u.ent = e /\ u.ins = i
  BY <1>0, <1>1, <1>2, <1>3, <1>4 DEF StateType
<1>8. SameNodes(s, u) BY <1>6, <1>7 DEF SameNodes
<1>9. \A k \in Jobs \ {j} : FirmJob(s, u, k) BY <1>5, <1>7 DEF FirmJob
<1>10. Full(u)
  <2> SUFFICES ASSUME NEW t \in Slots
               PROVE  /\ Cardinality(HoldersIn(u, t)) <= u.ent[t].busy
                      /\ u.ent[t].busy <= BusyLimit
    BY DEF Full
  <2>1. HoldersIn(u, t) = HoldersIn(s, t) \ Holders(s.mem, {j}, t)
    BY <1>0, <1>5, <1>7 DEF HoldersIn, Holders, Queued
  <2>2. Holders(s.mem, {j}, t) \subseteq HoldersIn(s, t)
    BY DEF HoldersIn, Holders
  <2>3. /\ s.ent[t].busy \in Nat /\ HoldersIn(s, t) \subseteq Jobs
        /\ Cardinality(HoldersIn(s, t)) \in Nat /\ Cardinality(HoldersIn(u, t)) \in Nat
    BY <1>7, Parts
  <2>4. Cardinality(HoldersIn(s, t)) <= s.ent[t].busy /\ s.ent[t].busy <= BusyLimit
    BY DEF Full
  <2>5. CASE s.ent[t].type = "node"
    BY <2>1, <2>2, <2>3, <2>4, <2>5, <1>6, <1>7, MinusFull
  <2>6. CASE s.ent[t].type # "node"
    <3>1. s.ent[t].busy = 0 BY <2>6 DEF NodeSlots
    <3>2. Cardinality(HoldersIn(s, t)) = 0 BY <3>1, <2>3, <2>4
    <3>3. HoldersIn(s, t) = {} BY <3>2, <2>3, JobsFinite, FS_EmptySet
    <3>4. Cardinality(HoldersIn(u, t)) = 0 BY <3>2, <3>3, <2>1
    <3>5. u.ent[t].busy = 0 BY <2>6, <3>1, <1>6, <1>7
    <3> QED BY <3>4, <3>5, ConstantsOK
  <2> QED BY <2>5, <2>6
<1> QED BY <1>5, <1>7, <1>8, <1>9, <1>10 DEF Firm, u, i

\* job_update_status when the database carries out what it is told.
LEMMA JobUpdateStatusFirm ==
    ASSUME NEW s, StateOK(s), Full(s), NEW j \in Queued(s), NEW st \in Statuses
    PROVE  LET u == JobUpdateStatus(s, j, "no", st)
           IN  /\ u \in StateType /\ Full(u) /\ Firm(s, u, {j})
               /\ u.row[j].action = s.row[j].action /\ u.row[j].target = s.row[j].target
               /\ u.row[j].status = st
               /\ st \in Ended => u.pos[j] = 0
               /\ st \notin Ended => /\ u.mem[j].status = st
                                     /\ u.mem[j].ent = s.mem[j].ent
               /\ st \notin Ended \cup {"STARTING_OSM"}
                      => u.mem[j].pend = s.mem[j].pend /\ u.pos = s.pos /\ u.ent = s.ent
                         /\ u.ins = s.ins
               /\ st # "STARTING_OSM" => SameIns(s, u)
               /\ st = "STARTING_OSM" =>
                    u.ins = SetNode(s.ins, s.row[j].target, DbId(s.ent, s.mem[j].ent))
<1> DEFINE t == SetStatus(s, {j}, {j}, st)
           u == JobUpdateStatus(s, j, "no", st)
<1>0. s \in StateType /\ j \in Jobs /\ NodeSlots(s) BY DEF StateOK, Queued
<1>1. /\ t \in StateType
      /\ t.pos = s.pos /\ t.ent = s.ent /\ t.ins = s.ins
      /\ \A k \in Jobs :
           /\ t.mem[k].status = IF k \in {j} THEN st ELSE s.mem[k].status
           /\ t.mem[k].pend = s.mem[k].pend
           /\ t.mem[k].ent = s.mem[k].ent
           /\ t.row[k].action = s.row[k].action
           /\ t.row[k].target = s.row[k].target
           /\ t.row[k].status = IF k \in {j} THEN st ELSE s.row[k].status
  BY <1>0, SetStatusParts
<1>2. u = IF st \in Ended THEN JobsOver(t, {j}, {}, st)
          ELSE IF st = "STARTING_OSM" THEN InstanceStarted(t, j) ELSE t
  BY DEF JobUpdateStatus
<1>x. "STARTING_OSM" \notin Ended BY DEF Ended
<1> HIDE DEF t, u
<1>3. Full(t) BY <1>0, <1>1, FullSame
<1>4. Firm(s, t, {j}) /\ SameIns(s, t)
  BY <1>0, <1>1 DEF Firm, FirmJob, SameNodes, SameIns
<1>5. NodeSlots(t) /\ j \in Queued(t) /\ {j} \subseteq Queued(t)
  BY <1>0, <1>1 DEF NodeSlots, Queued
<1>6. CASE st \in Ended
  <2>1. /\ u \in StateType /\ Full(u) /\ Firm(t, u, {}) /\ SameIns(t, u)
        /\ u.row = t.row /\ u.pos[j] = 0
    <3>1. u = JobsOver(t, {j}, {}, st) BY <1>2, <1>6
    <3> QED BY <3>1, <1>1, <1>3, <1>5, JobsOverFirm
  <2>2. Firm(t, u, {j}) BY <2>1 DEF Firm
  <2>3. Firm(s, u, {j}) /\ SameIns(s, u) BY <2>1, <2>2, <1>4, FirmTrans, SameInsTrans
  <2> QED BY <2>1, <2>3, <1>0, <1>1, <1>6, <1>x DEF u
<1>7. CASE st = "STARTING_OSM"
  <2>1. /\ u \in StateType /\ Full(u) /\ Firm(t, u, {j})
        /\ u.ins = SetNode(t.ins, t.row[j].target, DbId(t.ent, t.mem[j].ent))
        /\ u.row = t.row /\ u.pos = t.pos
        /\ u.mem[j].status = t.mem[j].status /\ u.mem[j].ent = t.mem[j].ent
    <3>1. u = InstanceStarted(t, j) BY <1>2, <1>7, <1>x
    <3> QED BY <3>1, <1>1, <1>3, <1>5, InstanceStartedFirm
  <2>2. Firm(s, u, {j}) BY <2>1, <1>4, FirmTrans
  <2> QED BY <2>1, <2>2, <1>0, <1>1, <1>7, <1>x DEF u
<1>8. CASE st \notin Ended \cup {"STARTING_OSM"}
  BY <1>0, <1>1, <1>2, <1>3, <1>4, <1>8 DEF u
<1> QED BY <1>6, <1>7, <1>8

\* The same for every job of R, which are over then.
LEMMA JobUpdateAllFirm ==
    ASSUME NEW s, StateOK(s), Full(s), NEW R, R \subseteq Queued(s), NEW st \in Ended
    PROVE  LET u == JobUpdateAll(s, R, {}, st)
           IN  u \in StateType /\ Full(u) /\ Firm(s, u, {}) /\ SameIns(s, u)
               /\ \A j \in R : u.pos[j] = 0
<1> DEFINE t == SetStatus(s, R, R, st)
           u == JobUpdateAll(s, R, {}, st)
<1>0. s \in StateType /\ NodeSlots(s) /\ st \in Statuses /\ R \subseteq Jobs
      /\ st \notin Early
  BY StatusFacts DEF StateOK, Queued, Early, Ended
<1>1. /\ t \in StateType
      /\ t.pos = s.pos /\ t.ent = s.ent /\ t.ins = s.ins
      /\ \A k \in Jobs :
           /\ t.mem[k].status = IF k \in R THEN st ELSE s.mem[k].status
           /\ t.mem[k].pend = s.mem[k].pend
           /\ t.mem[k].ent = s.mem[k].ent
           /\ t.row[k].action = s.row[k].action
           /\ t.row[k].target = s.row[k].target
           /\ t.row[k].status = IF k \in R THEN st ELSE s.row[k].status
  BY <1>0, SetStatusParts
<1>2. u = JobsOver(t, R, {}, st)
  <2>1. R \ {} = R OBVIOUS
  <2> QED BY <2>1 DEF JobUpdateAll
<1> HIDE DEF t, u
<1>3. Full(t) BY <1>0, <1>1, FullSame
<1>4. NodeSlots(t) /\ R \subseteq Queued(t) BY <1>0, <1>1 DEF NodeSlots, Queued
<1>5. /\ u \in StateType /\ Full(u) /\ Firm(t, u, {}) /\ SameIns(t, u)
      /\ u.row = t.row /\ \A j \in R : u.pos[j] = 0
  BY <1>1, <1>2, <1>3, <1>4, JobsOverFirm
<1>6. SameNodes(s, u) /\ SameIns(s, u)
  BY <1>1, <1>5 DEF Firm, SameNodes, SameIns
<1>7. ASSUME NEW k \in Jobs PROVE FirmJob(s, u, k)
  <2>1. FirmJob(t, u, k) BY <1>5 DEF Firm
  <2>2. CASE k \in R BY <2>1, <2>2, <1>0, <1>1, <1>5, Parts DEF FirmJob
  <2>3. CASE k \notin R BY <2>1, <2>3, <1>1 DEF FirmJob
  <2> QED BY <2>2, <2>3
<1> QED BY <1>5, <1>6, <1>7 DEF Firm, u

---------------------------------------------------------------------------
(* One job of the dispatch walk, when nothing fails.                       *)

LEMMA NowPartsNext ==
    /\ Now'.pos = pos' /\ Now'.mem = mem' /\ Now'.row = row' /\ Now'.ent = ent'
    /\ Now'.ins = ins'
BY DEF Now

LEMMA FirmRefl == ASSUME NEW s, NEW K PROVE Firm(s, s, K) /\ SameIns(s, s)
BY DEF Firm, FirmJob, SameNodes, SameIns

\* job_update_status at the end of a step that spends no fault.
LEMMA UpdateFirm ==
    ASSUME NEW s, StateOK(s), Full(s), NEW j \in Queued(s), NEW st \in Statuses,
           NEW c \in Nat, faults \in Nat, faults' = faults, Update(s, j, st, c)
    PROVE  /\ c = 0 /\ Full(Now') /\ Firm(s, Now', {j})
           /\ Now'.row[j].action = s.row[j].action
           /\ Now'.row[j].target = s.row[j].target
           /\ Now'.row[j].status = st
           /\ st \in Ended => Now'.pos[j] = 0
           /\ st \notin Ended => /\ Now'.mem[j].status = st
                                 /\ Now'.mem[j].ent = s.mem[j].ent
           /\ st \notin Ended \cup {"STARTING_OSM"} => Now'.mem[j].pend = s.mem[j].pend
           /\ st # "STARTING_OSM" => SameIns(s, Now')
           /\ st = "STARTING_OSM" =>
                Now'.ins = SetNode(s.ins, s.row[j].target, DbId(s.ent, s.mem[j].ent))
<1>1. PICK fail \in {"no", "row", "ins"} :
            /\ Spend(c + IF fail = "no" THEN 0 ELSE 1)
            /\ Become(JobUpdateStatus(s, j, fail, st))
  BY DEF Update
<1>2. c = 0 /\ fail = "no" BY <1>1 DEF Spend
<1> DEFINE u == JobUpdateStatus(s, j, "no", st)
<1>3. /\ u \in StateType /\ Full(u) /\ Firm(s, u, {j})
      /\ u.row[j].action = s.row[j].action /\ u.row[j].target = s.row[j].target
      /\ u.row[j].status = st
      /\ st \in Ended => u.pos[j] = 0
      /\ st \notin Ended => /\ u.mem[j].status = st
                            /\ u.mem[j].ent = s.mem[j].ent
      /\ st \notin Ended \cup {"STARTING_OSM"} => u.mem[j].pend = s.mem[j].pend
      /\ st # "STARTING_OSM" => SameIns(s, u)
      /\ st = "STARTING_OSM" =>
           u.ins = SetNode(s.ins, s.row[j].target, DbId(s.ent, s.mem[j].ent))
  BY JobUpdateStatusFirm
<1>4. Become(u) BY <1>1, <1>2
<1> HIDE DEF u
<1>5. Now' = u BY <1>3, <1>4, BecomeNow
<1> QED BY <1>2, <1>3, <1>5

\* What the dispatch of j may do besides: nothing, ...
Kept(j) == /\ Full(Now') /\ Firm(Now, Now', {j})
           /\ SameIns(Now, Now') /\ UNCHANGED wire

\* ... send a request that starts no machine, ...
Asked(j) == /\ Full(Now') /\ Firm(Now, Now', {j})
            /\ SameIns(Now, Now')
            /\ row[j].action \notin StartActions
            /\ row'[j].status = "RUNNING" /\ mem'[j].status = "RUNNING"
            /\ \E n \in Nodes \cup {-1} : Send(j, n)

\* ... or start an instance on the node of an entity that has room for it.
Begun(j) == /\ Full(Now') /\ Firm(Now, Now', {j})
            /\ row'[j].status = "RUNNING" /\ mem'[j].status = "RUNNING"
            /\ mem'[j].pend = 0
            /\ \E o \in Slots :
                 /\ ent[o].type = "node" /\ mem'[j].ent = o
                 /\ Send(j, ent[o].db)
                 /\ ins' = SetNode(ins, row[j].target, ent[o].db)
                 /\ NodeSelect = "LAST_ONLY" /\ ins[row[j].target].node > 0
                        => ent[o].db = ins[row[j].target].node

\* Update from a state that serving j has reached.
LEMMA ThenKept ==
    ASSUME NEW s, StateOK(s), Full(s), NEW j \in Queued(s), Firm(Now, s, {j}),
           SameIns(Now, s), NEW st \in Statuses \ {"STARTING_OSM"},
           NEW c \in Nat, faults \in Nat, faults' = faults, Update(s, j, st, c),
           UNCHANGED wire
    PROVE  Kept(j) /\ c = 0
<1>1. c = 0 /\ Full(Now') /\ Firm(s, Now', {j}) /\ SameIns(s, Now') BY UpdateFirm
<1> QED BY <1>1, FirmTrans, SameInsTrans DEF Kept

\* A job that starts to run.
LEMMA RunningFirm ==
    ASSUME StateOK(Now), Full(Now), NEW j \in Queue,
           mem[j].status \in {"INITIATED", "PENDING"}
    PROVE  LET s == JobUpdateStatus(Now, j, "no", "RUNNING")
           IN  /\ StateOK(s) /\ Full(s) /\ Firm(Now, s, {j}) /\ SameIns(Now, s)
               /\ j \in Queued(s)
               /\ s.pos = pos /\ s.ent = ent /\ s.ins = ins
               /\ s.row[j].status = "RUNNING"
               /\ s.row[j].action = row[j].action /\ s.row[j].target = row[j].target
               /\ s.mem[j].status = "RUNNING" /\ s.mem[j].pend # 0 /\ s.mem[j].ent = 0
<1> DEFINE s == JobUpdateStatus(Now, j, "no", "RUNNING")
<1>1. /\ StateOK(s) /\ j \in Queued(s)
      /\ s.pos = pos /\ s.ent = ent /\ s.ins = ins
      /\ s.mem[j].status = "RUNNING" /\ s.mem[j].pend # 0 /\ s.mem[j].ent = 0
  BY RunningOK
<1>2. PICK st \in Statuses : st = "RUNNING" BY DEF Statuses
<1>3. j \in Queued(Now) BY NowParts
<1>4. LET u == JobUpdateStatus(Now, j, "no", st)
      IN  /\ Full(u) /\ Firm(Now, u, {j})
          /\ u.row[j].action = Now.row[j].action /\ u.row[j].target = Now.row[j].target
          /\ u.row[j].status = st
          /\ st # "STARTING_OSM" => SameIns(Now, u)
  BY <1>3, JobUpdateStatusFirm
<1>5. /\ Full(s) /\ Firm(Now, s, {j})
      /\ s.row[j].action = Now.row[j].action /\ s.row[j].target = Now.row[j].target
      /\ s.row[j].status = "RUNNING" /\ SameIns(Now, s)
  BY <1>2, <1>4
<1> QED BY <1>1, <1>5, NowParts

\* __job_start_instance of a job that waits for its OS manager.
LEMMA WaitOsmFirm ==
    ASSUME StateOK(Now), Full(Now), faults \in Nat, faults' = faults, NEW j \in Queue,
           mem[j].status \in Waiting, WaitOsm(j), UNCHANGED wire
    PROVE  Kept(j)
<1>1. \/ UNCHANGED clcVars
      \/ \E st \in {"SYCING_OSM", "STARTING_SERVICE", "SUCCESS", "FAILURE"} :
            Update(Now, j, st, 0)
  <2>1. CASE mem[j].status = "STARTING_OSM" BY <2>1 DEF WaitOsm, StillWaiting
  <2>2. CASE mem[j].status = "SYCING_OSM" BY <2>2 DEF WaitOsm, StillWaiting
  <2>3. CASE mem[j].status = "STARTING_SERVICE" BY <2>3 DEF WaitOsm, StillWaiting
  <2> QED BY <2>1, <2>2, <2>3 DEF Waiting
<1>2. CASE UNCHANGED clcVars
  <2>1. Now' = Now BY <1>2 DEF Now, clcVars
  <2> QED BY <2>1, FirmRefl DEF Kept
<1>3. ASSUME NEW st \in {"SYCING_OSM", "STARTING_SERVICE", "SUCCESS", "FAILURE"},
             Update(Now, j, st, 0)
      PROVE  Kept(j)
  <2>1. st \in Statuses \ {"STARTING_OSM"} BY StatusFacts
  <2> QED BY <1>3, <2>1, FirmRefl, NowParts, ThenKept
<1> QED BY <1>1, <1>2, <1>3

\* A request sent to entity t.
LEMMA RelayFirm ==
    ASSUME StateOK(Now), Full(Now), faults \in Nat, faults' = faults, NEW j \in Queue,
           mem[j].status \in {"INITIATED", "PENDING"},
           row[j].action \notin StartActions,
           NEW t \in Slots, NEW to \in Nodes \cup {-1},
           Relay(JobUpdateStatus(Now, j, "no", "RUNNING"), j, t, to)
    PROVE  Asked(j)
<1> DEFINE s == JobUpdateStatus(Now, j, "no", "RUNNING")
           v == [s EXCEPT !.mem[j].ent = t]
<1>1. /\ StateOK(s) /\ Full(s) /\ Firm(Now, s, {j}) /\ SameIns(Now, s)
      /\ j \in Queued(s)
      /\ s.pos = pos /\ s.ent = ent /\ s.ins = ins
      /\ s.row[j].status = "RUNNING"
      /\ s.mem[j].status = "RUNNING" /\ s.mem[j].pend # 0 /\ s.mem[j].ent = 0
  BY RunningFirm
<1>2. \/ Become(v) /\ Send(j, to)
      \/ Update(v, j, "FAILURE", 1)
  BY DEF Relay
<1> HIDE DEF s
<1>0. j \in Jobs /\ s \in StateType /\ t \in 0 .. MaxSlot
  BY <1>1 DEF Queue, StateOK, Slots
<1>m. s.mem \in [Jobs -> MemType] /\ s.mem[j] \in MemType BY <1>0, Parts
<1>3. /\ v \in StateType /\ v.pos = s.pos /\ v.row = s.row /\ v.ent = s.ent
      /\ v.ins = s.ins
      /\ \A k \in Jobs \ {j} : v.mem[k] = s.mem[k]
      /\ v.mem[j].status = "RUNNING" /\ v.mem[j].pend = s.mem[j].pend
  BY <1>0, <1>1, <1>m DEF StateType, MemType
<1> HIDE DEF v
<1>4. ~ Update(v, j, "FAILURE", 1)
  <2>1. ASSUME NEW fail \in {"no", "row", "ins"},
               Spend(1 + IF fail = "no" THEN 0 ELSE 1)
        PROVE  FALSE
    BY <2>1 DEF Spend
  <2> QED BY <2>1 DEF Update
<1>5. Now' = v /\ Send(j, to) BY <1>2, <1>3, <1>4, BecomeNow
<1>6. Full(v)
  <2>1. \A x \in Slots : HoldersIn(v, x) = HoldersIn(s, x)
    BY <1>0, <1>1, <1>3 DEF HoldersIn, Holders, Queued
  <2> QED BY <2>1, <1>1, <1>3 DEF Full
<1>7. Firm(s, v, {j}) /\ SameIns(s, v)
  BY <1>3 DEF Firm, FirmJob, SameNodes, SameIns
<1>8. Firm(Now, v, {j}) /\ SameIns(Now, v) BY <1>1, <1>7, FirmTrans, SameInsTrans
<1> QED BY <1>1, <1>3, <1>5, <1>6, <1>8, NowPartsNext DEF Asked

\* A failure is counted.
LEMMA NotSpent ==
    ASSUME faults \in Nat, faults' = faults, NEW c \in Nat, Spend(c)
    PROVE  c = 0
BY DEF Spend

\* __job_control_instance_simple
LEMMA ControlSimpleFirm ==
    ASSUME StateOK(Now), Full(Now), faults \in Nat, faults' = faults, NEW j \in Queue,
           mem[j].status \in {"INITIATED", "PENDING"},
           row[j].action \notin StartActions, ControlInstanceSimple(j)
    PROVE  Kept(j) \/ Asked(j)
<1> DEFINE i == row[j].target
           s == JobUpdateStatus(Now, j, "no", "RUNNING")
<1>1. \/ Spend(1)
      \/ \E st \in {"FAILURE", "SUCCESS"}, c \in {0, 1} :
            Update(s, j, st, c) /\ UNCHANGED wire
      \/ \E node : \E t \in FindByDb(ent, "node", node) : Relay(s, j, t, node)
  <2>1. (IF ins[i].life = "GONE" THEN 0 ELSE 1) \in {0, 1} OBVIOUS
  <2>2. \/ Spend(1)
        \/ /\ Update(s, j, "FAILURE", IF ins[i].life = "GONE" THEN 0 ELSE 1)
           /\ UNCHANGED wire
        \/ Update(s, j, "SUCCESS", 0) /\ UNCHANGED wire
        \/ Update(s, j, "FAILURE", 0) /\ UNCHANGED wire
        \/ \E node : \E t \in FindByDb(ent, "node", node) : Relay(s, j, t, node)
    BY Zenon DEF ControlInstanceSimple
  <2> HIDE DEF s
  <2> QED BY <2>1, <2>2
<1>2. ~ Spend(1) BY NotSpent
<1>3. ASSUME NEW st \in {"FAILURE", "SUCCESS"}, NEW c \in {0, 1},
             Update(s, j, st, c), UNCHANGED wire
      PROVE  Kept(j)
  <2>1. /\ StateOK(s) /\ Full(s) /\ Firm(Now, s, {j}) /\ SameIns(Now, s)
        /\ j \in Queued(s)
    BY RunningFirm
  <2>2. st \in Statuses \ {"STARTING_OSM"} /\ c \in Nat BY StatusFacts
  <2> HIDE DEF s
  <2> QED BY <1>3, <2>1, <2>2, ThenKept
<1>4. ASSUME NEW node, NEW t \in FindByDb(ent, "node", node), Relay(s, j, t, node)
      PROVE  Asked(j)
  <2>1. t \in Slots /\ node \in Nodes \cup {-1}
    BY NowParts DEF FindByDb, StateOK, NodeSlots
  <2> QED BY <1>4, <2>1, RelayFirm
<1> HIDE DEF s
<1> QED BY <1>1, <1>2, <1>3, <1>4

\* __job_query_node and __job_query_osm
LEMMA QueryPeerFirm ==
    ASSUME StateOK(Now), Full(Now), faults \in Nat, faults' = faults, NEW j \in Queue,
           mem[j].status \in {"INITIATED", "PENDING"},
           row[j].action \notin StartActions, QueryPeer(j)
    PROVE  Kept(j) \/ Asked(j)
<1> DEFINE s == JobUpdateStatus(Now, j, "no", "RUNNING")
           osm == row[j].action = "OSM_QUERY"
           found == FindByDb(ent, IF osm THEN "osm" ELSE "node", row[j].target)
           to == IF osm THEN -1 ELSE row[j].target
<1>1. \/ Spend(1)
      \/ Update(s, j, "SUCCESS", 0) /\ UNCHANGED wire
      \/ \E t \in found : Relay(s, j, t, to)
  BY Zenon DEF QueryPeer
<1>2. ~ Spend(1) BY NotSpent
<1>3. CASE Update(s, j, "SUCCESS", 0) /\ UNCHANGED wire
  <2>1. /\ StateOK(s) /\ Full(s) /\ Firm(Now, s, {j}) /\ SameIns(Now, s)
        /\ j \in Queued(s)
    BY RunningFirm
  <2>2. "SUCCESS" \in Statuses \ {"STARTING_OSM"} BY StatusFacts
  <2> HIDE DEF s
  <2> QED BY <1>3, <2>1, <2>2, ThenKept
<1>4. ASSUME NEW t \in found, Relay(s, j, t, to)
      PROVE  Asked(j)
  <2>1. t \in Slots /\ to \in Nodes \cup {-1}
    BY NowParts DEF FindByDb, StateOK, NodeSlots
  <2> HIDE DEF to, found
  <2> QED BY <1>4, <2>1, RelayFirm
<1> HIDE DEF s
<1> QED BY <1>1, <1>2, <1>3, <1>4

\* Fields of entities that say nothing of jobs change.
LEMMA RelabelFirm ==
    ASSUME NEW s, StateOK(s), Full(s), NEW e \in [Slots -> EntType],
           \A t \in Slots : /\ e[t].type = s.ent[t].type
                            /\ e[t].db = s.ent[t].db
                            /\ e[t].busy = s.ent[t].busy
    PROVE  LET v == [s EXCEPT !.ent = e]
           IN  StateOK(v) /\ Full(v) /\ Firm(s, v, {}) /\ SameIns(s, v) /\ v.pos = s.pos
<1> DEFINE v == [s EXCEPT !.ent = e]
<1>0. s \in StateType BY DEF StateOK
<1>1. /\ v \in StateType /\ v.ent = e
      /\ v.pos = s.pos /\ v.mem = s.mem /\ v.row = s.row /\ v.ins = s.ins
  BY <1>0 DEF StateType
<1>2. StateOK(v) BY RelabelOK
<1> HIDE DEF v
<1>3. Full(v) BY <1>0, <1>1, FullSame
<1>4. Firm(s, v, {}) /\ SameIns(s, v)
  BY <1>1 DEF Firm, FirmJob, SameNodes, SameIns
<1> QED BY <1>1, <1>2, <1>3, <1>4 DEF v

LEMMA FirmWide ==
    ASSUME NEW s, NEW u, NEW K, Firm(s, u, {})
    PROVE  Firm(s, u, K)
BY DEF Firm

\* __job_node_enable
LEMMA NodeEnableFirm ==
    ASSUME StateOK(Now), Full(Now), faults \in Nat, faults' = faults, NEW j \in Queue,
           NodeEnable(j), UNCHANGED wire
    PROVE  Kept(j)
<1> DEFINE n == row[j].target
           found == FindByDb(ent, "node", n)
           e == [t \in Slots |-> IF t \in found THEN [ent[t] EXCEPT !.join = TRUE]
                                 ELSE ent[t]]
           v == [Now EXCEPT !.ent = e]
<1>1. \/ \E c \in {0, 1} : Update(Now, j, "FAILURE", c)
      \/ Update(v, j, "SUCCESS", 0)
  BY DEF NodeEnable
<1>2. ent \in [Slots -> EntType] /\ Now.ent = ent BY NowParts, Parts DEF StateOK
<1>3. /\ e \in [Slots -> EntType]
      /\ \A t \in Slots : /\ e[t].type = ent[t].type
                          /\ e[t].db = ent[t].db
                          /\ e[t].busy = ent[t].busy
  BY <1>2 DEF EntType
<1> HIDE DEF e
<1>4. StateOK(v) /\ Full(v) /\ Firm(Now, v, {}) /\ SameIns(Now, v) /\ v.pos = pos
  BY <1>2, <1>3, RelabelFirm, NowParts
<1> HIDE DEF v
<1>5. Firm(Now, v, {j}) /\ j \in Queued(v) BY <1>4, FirmWide DEF Queued, Queue
<1>6. ASSUME NEW c \in {0, 1}, Update(Now, j, "FAILURE", c) PROVE Kept(j)
  <2>1. c \in Nat BY <1>6
  <2> QED BY <1>6, <2>1, FirmRefl, NowParts, StatusFacts, ThenKept
<1>7. ASSUME Update(v, j, "SUCCESS", 0) PROVE Kept(j)
  BY <1>4, <1>5, <1>7, StatusFacts, ThenKept
<1> QED BY <1>1, <1>6, <1>7

\* __job_node_config
LEMMA NodeConfigFirm ==
    ASSUME StateOK(Now), Full(Now), faults \in Nat, faults' = faults, NEW j \in Queue,
           NodeConfig(j), UNCHANGED wire
    PROVE  Kept(j)
<1> DEFINE found == FindByDb(ent, "node", row[j].target)
           e(room) == [t \in Slots |-> IF t \in found
                                       THEN [ent[t] EXCEPT !.room = room[t]]
                                       ELSE ent[t]]
           v(room) == [Now EXCEPT !.ent = e(room)]
<1>1. \/ \E room \in [found -> Rooms] : Update(v(room), j, "SUCCESS", 0)
      \/ Update(Now, j, "FAILURE", 1)
  BY DEF NodeConfig
<1>2. ent \in [Slots -> EntType] /\ Now.ent = ent BY NowParts, Parts DEF StateOK
<1>3. ASSUME NEW room \in [found -> Rooms], Update(v(room), j, "SUCCESS", 0)
      PROVE  Kept(j)
  <2> DEFINE ee == e(room)
             vv == [Now EXCEPT !.ent = ee]
  <2>1. /\ ee \in [Slots -> EntType]
        /\ \A t \in Slots : /\ ee[t].type = ent[t].type
                            /\ ee[t].db = ent[t].db
                            /\ ee[t].busy = ent[t].busy
    <3>1. \A t \in found : room[t] \in BOOLEAN BY ConstantsOK
    <3> QED BY <1>2, <3>1 DEF EntType
  <2>2. Update(vv, j, "SUCCESS", 0) BY <1>3
  <2> HIDE DEF ee, e, v
  <2>3. StateOK(vv) /\ Full(vv) /\ Firm(Now, vv, {}) /\ SameIns(Now, vv) /\ vv.pos = pos
    BY <1>2, <2>1, RelabelFirm, NowParts
  <2> HIDE DEF vv
  <2>4. Firm(Now, vv, {j}) /\ j \in Queued(vv) BY <2>3, FirmWide DEF Queued, Queue
  <2> QED BY <2>2, <2>3, <2>4, StatusFacts, ThenKept
<1>4. CASE Update(Now, j, "FAILURE", 1)
  BY <1>4, FirmRefl, NowParts, StatusFacts, ThenKept
<1> QED BY <1>1, <1>3, <1>4

\* __job_node_disable
LEMMA NodeDisableFirm ==
    ASSUME StateOK(Now), Full(Now), faults \in Nat, faults' = faults, NEW j \in Queue,
           mem[j].ent = 0, NodeDisable(j), UNCHANGED wire
    PROVE  Kept(j)
<1> DEFINE n == row[j].target
           found == FindByDb(ent, "node", n)
           regd == {t \in found : ent[t].status >= REGISTERED}
           R == UNION {JobsOn(t) : t \in regd}
           s(F) == JobUpdateAll(Now, R, F, "FAILURE")
           v(F) == [s(F) EXCEPT !.ent = [t \in Slots |->
                               IF t \in found
                               THEN [s(F).ent[t] EXCEPT !.enabled = FALSE]
                               ELSE s(F).ent[t]]]
<1>1. \/ Update(Now, j, "FAILURE", 1)
      \/ \E F \in SUBSET R : Update(v(F), j, "SUCCESS", Cardinality(F))
  BY DEF NodeDisable
<1>2. CASE Update(Now, j, "FAILURE", 1)
  BY <1>2, FirmRefl, NowParts, StatusFacts, ThenKept
<1>3. R \subseteq Queue /\ j \notin R
  BY ConstantsOK DEF JobsOn, FindByDb, Slots
<1>4. ASSUME NEW F \in SUBSET R, Update(v(F), j, "SUCCESS", Cardinality(F))
      PROVE  Kept(j)
  <2>0. F = {}
    <3>1. PICK fail \in {"no", "row", "ins"} :
             Spend(Cardinality(F) + IF fail = "no" THEN 0 ELSE 1)
      BY <1>4 DEF Update
    <3>2. F \subseteq Jobs BY <1>3 DEF Queue
    <3>3. IsFiniteSet(F) /\ Cardinality(F) \in Nat BY <3>2, JobsFinite
    <3>4. Cardinality(F) = 0 BY <3>1, <3>3 DEF Spend
    <3> QED BY <3>3, <3>4, FS_EmptySet
  <2> DEFINE ss == s({})
             e == [t \in Slots |-> IF t \in found
                                   THEN [ss.ent[t] EXCEPT !.enabled = FALSE]
                                   ELSE ss.ent[t]]
             vv == [ss EXCEPT !.ent = e]
  <2>1. Update(vv, j, "SUCCESS", 0)
    <3>1. Update(v({}), j, "SUCCESS", Cardinality({})) BY <1>4, <2>0
    <3> QED BY <3>1, FS_EmptySet
  <2> HIDE DEF R, found
  <2>2. /\ StateOK(ss) /\ Full(ss) /\ Firm(Now, ss, {}) /\ SameIns(Now, ss)
        /\ \A k \in Jobs \ R : ss.pos[k] = pos[k]
    <3>1. "FAILURE" \in Ended /\ R \subseteq Queued(Now) BY <1>3, NowParts DEF Ended
    <3>2. PICK st \in Ended : st = "FAILURE" BY <3>1
    <3>3. LET u == JobUpdateAll(Now, R, {}, st)
          IN  /\ StateOK(u)
              /\ \A k \in Jobs \ R : u.pos[k] = Now.pos[k]
      <4>1. PICK E : E = {} OBVIOUS
      <4>2. LET u == JobUpdateAll(Now, R, E, st)
            IN  /\ StateOK(u) /\ Tame(Now, u, None)
                /\ \A k \in Jobs \ R : u.pos[k] = Now.pos[k]
                /\ E = {} => Lag(u) \subseteq Lag(Now)
        BY <3>1, JobUpdateAllOK
      <4> QED BY <4>1, <4>2
    <3>4. LET u == JobUpdateAll(Now, R, {}, st)
          IN  Full(u) /\ Firm(Now, u, {}) /\ SameIns(Now, u)
      BY <3>1, JobUpdateAllFirm
    <3> QED BY <3>2, <3>3, <3>4, NowParts
  <2> HIDE DEF ss, s, v
  <2>3. /\ e \in [Slots -> EntType]
        /\ \A t \in Slots : /\ e[t].type = ss.ent[t].type
                            /\ e[t].db = ss.ent[t].db
                            /\ e[t].busy = ss.ent[t].busy
    <3>1. ss.ent \in [Slots -> EntType] BY <2>2, Parts DEF StateOK
    <3> QED BY <3>1 DEF EntType
  <2> HIDE DEF e
  <2>4. /\ StateOK(vv) /\ Full(vv) /\ Firm(ss, vv, {}) /\ SameIns(ss, vv)
        /\ vv.pos = ss.pos
    BY <2>2, <2>3, RelabelFirm
  <2> HIDE DEF vv
  <2>5. Firm(Now, vv, {}) /\ SameIns(Now, vv) BY <2>2, <2>4, FirmTrans, SameInsTrans
  <2>6. Firm(Now, vv, {j}) BY <2>5, FirmWide
  <2>7. j \in Queued(vv) BY <1>3, <2>2, <2>4 DEF Queued, Queue
  <2> QED BY <2>1, <2>4, <2>5, <2>6, <2>7, StatusFacts, ThenKept
<1> QED BY <1>1, <1>2, <1>4

\* node_schedule returns an entity below its limit; with NODE_SELECT_LAST_ONLY
\* that of the node the instance is on.
LEMMA ScheduleRoom ==
    ASSUME NEW e, NEW n, NEW o \in NodeSchedule(e, n), o \in Slots,
           \A t \in Slots : e[t].busy \in Nat
    PROVE  /\ e[o].type = "node" /\ e[o].busy < BusyLimit
           /\ NodeSelect = "LAST_ONLY" /\ n > 0 => e[o].db = n
<1>1. o \notin {UNAVAIL, BUSY, STROKE}
  BY ConstantsOK DEF Slots, UNAVAIL, BUSY, STROKE
<1>2. BusyLimit \in Nat BY ConstantsOK
<1>3. CASE NodeSelect = "LAST_ONLY" /\ n > 0
  <2> DEFINE S == FindByDb(e, "node", n) \cap Usable(e)
  <2>1. o \in S /\ ~ \E s \in S : e[s].busy >= BusyLimit
    BY <1>1, <1>3 DEF NodeSchedule
  <2> QED BY <2>1, <1>2, <1>3 DEF FindByDb
<1>4. CASE ~ (NodeSelect = "LAST_ONLY" /\ n > 0)
  BY <1>1, <1>4 DEF NodeSchedule, Usable
<1> QED BY <1>3, <1>4

\* __job_start_instance of a job that is new or pending.
LEMMA StartInstanceFirm ==
    ASSUME StateOK(Now), Full(Now), faults \in Nat, faults' = faults, NEW j \in Queue,
           mem[j].status \in {"INITIATED", "PENDING"},
           row[j].action \in StartActions, StartInstance(j)
    PROVE  Kept(j) \/ Begun(j)
<1> DEFINE i == row[j].target
           s0 == JobUpdateStatus(Now, j, "no", "RUNNING")
           s == [s0 EXCEPT !.mem[j].pend = 0]
           t(o) == [s EXCEPT !.mem[j].ent = o]
           u(o) == [t(o) EXCEPT !.ins = SetNode(ins, i, ent[o].db)]
           v(o, room) == [u(o) EXCEPT !.ent[o].busy = @ + 1, !.ent[o].room = room]
<1>0. j \in Jobs /\ 0 \notin Slots BY ConstantsOK DEF Queue, Slots
<1>1. /\ StateOK(s0) /\ Full(s0) /\ Firm(Now, s0, {j}) /\ SameIns(Now, s0)
      /\ j \in Queued(s0)
      /\ s0.pos = pos /\ s0.ent = ent /\ s0.ins = ins
      /\ s0.row[j].status = "RUNNING" /\ s0.row[j].action = row[j].action
      /\ s0.mem[j].status = "RUNNING" /\ s0.mem[j].pend # 0 /\ s0.mem[j].ent = 0
  BY RunningFirm
<1>2. \/ Spend(1)
      \/ \E c \in {0, 1} : Update(s, j, "FAILURE", c) /\ UNCHANGED wire
      \/ Update([s EXCEPT !.mem[j].pend = 1], j, "PENDING", 0) /\ UNCHANGED wire
      \/ \E o \in NodeSchedule(ent, ins[i].node) :
            /\ o \in Slots
            /\ \/ \E w \in {t(o), u(o)} : Update(w, j, "FAILURE", 1)
               \/ /\ \E room \in {ent[o].room} \cup (Rooms \ {TRUE}) :
                         Become(v(o, room))
                  /\ Send(j, ent[o].db)
  <2>1. (IF ins[i].life = "GONE" THEN 0 ELSE 1) \in {0, 1} OBVIOUS
  <2>2. \/ Spend(1)
        \/ /\ Update(s, j, "FAILURE", IF ins[i].life = "GONE" THEN 0 ELSE 1)
           /\ UNCHANGED wire
        \/ Update(s, j, "FAILURE", 0) /\ UNCHANGED wire
        \/ Update([s EXCEPT !.mem[j].pend = 1], j, "PENDING", 0) /\ UNCHANGED wire
        \/ \E o \in NodeSchedule(ent, ins[i].node) :
            /\ o \in Slots
            /\ \/ \E w \in {t(o), u(o)} : Update(w, j, "FAILURE", 1)
               \/ /\ \E room \in {ent[o].room} \cup (Rooms \ {TRUE}) :
                         Become(v(o, room))
                  /\ Send(j, ent[o].db)
    BY Zenon DEF StartInstance
  <2> HIDE DEF s0, s, t, u, v
  <2> QED BY <2>1, <2>2
<1> HIDE DEF s0
<1>3. s0 \in StateType /\ s0.mem[j] \in MemType /\ s0.mem \in [Jobs -> MemType]
  BY <1>0, <1>1, Parts DEF StateOK
<1>4. /\ s \in StateType /\ s.pos = s0.pos /\ s.row = s0.row /\ s.ent = s0.ent
      /\ s.ins = s0.ins
      /\ \A k \in Jobs \ {j} : s.mem[k] = s0.mem[k]
      /\ s.mem[j].status = "RUNNING" /\ s.mem[j].ent = 0 /\ s.mem[j].pend = 0
  BY <1>0, <1>1, <1>3 DEF StateType, MemType
<1>m. s.mem[j] \in MemType /\ s.mem \in [Jobs -> MemType] BY <1>0, <1>4, Parts
\* states that differ from s0 in the entry of j, which has no entity yet
<1>5. ASSUME NEW w \in StateType, w.pos = s0.pos, w.row = s0.row, w.ent = s0.ent,
             w.ins = s0.ins, \A k \in Jobs \ {j} : w.mem[k] = s0.mem[k],
             w.mem[j].status = "RUNNING", w.mem[j].ent = 0
      PROVE  /\ StateOK(w) /\ Full(w) /\ Firm(Now, w, {j}) /\ SameIns(Now, w)
             /\ j \in Queued(w)
  <2>1. StateOK(w)
    <3>1. \A x \in Instances : w.ins[x].life = s0.ins[x].life BY <1>5
    <3> QED BY <1>1, <1>5, <3>1, TouchOK
  <2>2. \A x \in Slots : HoldersIn(w, x) = HoldersIn(s0, x)
    BY <1>0, <1>1, <1>5 DEF HoldersIn, Holders, Queued
  <2>3. Full(w) BY <2>2, <1>1, <1>5 DEF Full
  <2>4. Firm(s0, w, {j}) /\ SameIns(s0, w)
    BY <1>5 DEF Firm, FirmJob, SameNodes, SameIns
  <2>5. j \in Queued(w) BY <1>1, <1>5 DEF Queued
  <2> QED BY <2>1, <2>3, <2>4, <2>5, <1>1, FirmTrans, SameInsTrans
<1>6. /\ StateOK(s) /\ Full(s) /\ Firm(Now, s, {j}) /\ SameIns(Now, s)
      /\ j \in Queued(s)
  BY <1>4, <1>5
<1> HIDE DEF s
<1>7. ~ Spend(1) BY NotSpent
<1>8. ASSUME NEW c \in {0, 1}, Update(s, j, "FAILURE", c), UNCHANGED wire
      PROVE  Kept(j)
  <2>1. c \in Nat BY <1>8
  <2> QED BY <1>6, <1>8, <2>1, StatusFacts, ThenKept
<1>9. ASSUME Update([s EXCEPT !.mem[j].pend = 1], j, "PENDING", 0), UNCHANGED wire
      PROVE  Kept(j)
  <2> DEFINE p == [s EXCEPT !.mem[j].pend = 1]
  <2>1. /\ p \in StateType /\ p.pos = s.pos /\ p.row = s.row /\ p.ent = s.ent
        /\ p.ins = s.ins
        /\ \A k \in Jobs \ {j} : p.mem[k] = s.mem[k]
        /\ p.mem[j].status = "RUNNING" /\ p.mem[j].ent = 0
    BY <1>0, <1>4, <1>m DEF StateType, MemType
  <2>2. Update(p, j, "PENDING", 0) BY <1>9
  <2> HIDE DEF p
  <2>3. /\ StateOK(p) /\ Full(p) /\ Firm(Now, p, {j}) /\ SameIns(Now, p)
        /\ j \in Queued(p)
    BY <2>1, <1>4, <1>5
  <2> QED BY <1>9, <2>2, <2>3, StatusFacts, ThenKept
<1>10. ASSUME NEW w PROVE ~ Update(w, j, "FAILURE", 1)
  <2>1. ASSUME NEW fail \in {"no", "row", "ins"},
               Spend(1 + IF fail = "no" THEN 0 ELSE 1)
        PROVE  FALSE
    BY <2>1 DEF Spend
  <2> QED BY <2>1 DEF Update
<1>11. ASSUME NEW o \in NodeSchedule(ent, ins[i].node), o \in Slots,
              NEW room \in {ent[o].room} \cup (Rooms \ {TRUE}),
              Become(v(o, room)), Send(j, ent[o].db)
       PROVE  Begun(j)
  <2> DEFINE tt == t(o)
             uu == u(o)
             vv == v(o, room)
             e == [ent EXCEPT ![o].busy = @ + 1, ![o].room = room]
  <2>0. /\ o \in 0 .. MaxSlot
        /\ ent \in [Slots -> EntType] /\ \A x \in Slots : ent[x].busy \in Nat
    BY <1>1, <1>3, <1>11, Parts DEF Slots
  <2>1. /\ ent[o].type = "node" /\ ent[o].busy < BusyLimit
        /\ NodeSelect = "LAST_ONLY" /\ ins[i].node > 0 => ent[o].db = ins[i].node
    BY <1>11, <2>0, ScheduleRoom
  <2>2. ent[o].db \in Nodes BY <2>1, <1>1, <1>11 DEF StateOK, NodeSlots
  <2>3. SetNode(ins, i, ent[o].db) \in [Instances -> InsType]
    <3>1. ent[o].db \in Nat \cup {-1} BY <2>2, ConstantsOK
    <3>2. ins \in [Instances -> InsType] BY <1>1, <1>3, Parts
    <3> QED BY <3>1, <3>2, SetNodeType
  <2>4. room \in BOOLEAN
    <3>1. ent[o] \in EntType BY <1>11, <2>0
    <3> QED BY <3>1, <1>11, ConstantsOK DEF EntType
  <2>5. /\ tt \in StateType /\ tt.pos = s.pos /\ tt.row = s.row /\ tt.ent = s.ent
        /\ tt.ins = s.ins
        /\ \A k \in Jobs \ {j} : tt.mem[k] = s.mem[k]
        /\ tt.mem[j].status = "RUNNING" /\ tt.mem[j].pend = 0 /\ tt.mem[j].ent = o
    BY <1>0, <1>4, <1>m, <2>0 DEF StateType, MemType
  <2>6. /\ uu = [tt EXCEPT !.ins = SetNode(ins, i, ent[o].db)]
        /\ vv = [uu EXCEPT !.ent[o].busy = @ + 1, !.ent[o].room = room]
    OBVIOUS
  <2> HIDE DEF tt, uu, vv, t, u, v
  <2>7. /\ uu \in StateType /\ uu.pos = tt.pos /\ uu.row = tt.row
        /\ uu.ent = tt.ent /\ uu.mem = tt.mem
        /\ uu.ins = SetNode(ins, i, ent[o].db)
    BY <2>3, <2>5, <2>6 DEF StateType
  <2>8. uu.ent = ent BY <2>5, <2>7, <1>1, <1>4
  <2>9. /\ e \in [Slots -> EntType]
        /\ \A x \in Slots \ {o} : e[x] = ent[x]
        /\ e[o].busy = ent[o].busy + 1
        /\ e[o].type = ent[o].type /\ e[o].db = ent[o].db
    <3>1. ent \in [Slots -> EntType] /\ o \in Slots /\ room \in BOOLEAN
      BY <2>0, <2>4, <1>11
    <3>2. e = [ent EXCEPT ![o] = [ent[o] EXCEPT !.busy = @ + 1, !.room = room]]
      BY <3>1 DEF EntType
    <3>3. ent[o] \in EntType BY <3>1
    <3> QED BY <3>1, <3>2, <3>3 DEF EntType
  <2>10. vv = [uu EXCEPT !.ent = e]
    BY <1>11, <2>0, <2>6, <2>7, <2>8 DEF StateType, EntType
  <2> HIDE DEF e
  <2>11. /\ vv \in StateType /\ vv.ent = e
         /\ vv.pos = uu.pos /\ vv.row = uu.row /\ vv.mem = uu.mem /\ vv.ins = uu.ins
    BY <2>7, <2>9, <2>10 DEF StateType
  <2>12. Now' = vv
    <3>1. Become(vv) BY <1>11 DEF vv
    <3> QED BY <3>1, <2>11, BecomeNow
  <2>13. Firm(Now, vv, {j})
    <3>1. Firm(s0, vv, {j})
      BY <1>1, <1>4, <2>5, <2>7, <2>9, <2>11 DEF Firm, FirmJob, SameNodes
    <3> QED BY <3>1, <1>1, FirmTrans
  <2>14. Full(vv)
    <3> SUFFICES ASSUME NEW x \in Slots
                 PROVE  /\ Cardinality(HoldersIn(vv, x)) <= vv.ent[x].busy
                        /\ vv.ent[x].busy <= BusyLimit
      BY DEF Full
    <3>1. /\ Cardinality(HoldersIn(s0, x)) <= ent[x].busy /\ ent[x].busy <= BusyLimit
      BY <1>1 DEF Full
    <3>2. CASE x # o
      <4>1. HoldersIn(vv, x) = HoldersIn(s0, x)
        BY <3>2, <1>0, <1>1, <1>4, <2>5, <2>7, <2>11 DEF HoldersIn, Holders, Queued
      <4> QED BY <3>1, <3>2, <4>1, <2>9, <2>11
    <3>3. CASE x = o
      <4>1. j \notin HoldersIn(s0, o) BY <1>1 DEF HoldersIn, Holders
      <4>2. HoldersIn(vv, o) = HoldersIn(s0, o) \cup {j}
        BY <1>0, <1>1, <1>4, <2>5, <2>7, <2>11 DEF HoldersIn, Holders, Queued
      <4>3. IsFiniteSet(HoldersIn(s0, o)) /\ Cardinality(HoldersIn(s0, o)) \in Nat
        BY <1>3, Parts, JobsFinite
      <4>4. Cardinality(HoldersIn(vv, o)) = Cardinality(HoldersIn(s0, o)) + 1
        BY <4>1, <4>2, <4>3, FS_AddElement
      <4>5. BusyLimit \in Nat BY ConstantsOK
      <4> QED BY <3>1, <3>3, <4>3, <4>4, <4>5, <2>0, <2>1, <2>9, <2>11
    <3> QED BY <3>2, <3>3
  <2>15. /\ row'[j].status = "RUNNING" /\ mem'[j].status = "RUNNING"
         /\ mem'[j].pend = 0 /\ mem'[j].ent = o
         /\ ins' = SetNode(ins, i, ent[o].db)
    BY <1>1, <1>4, <2>5, <2>7, <2>11, <2>12, NowPartsNext
  <2> QED BY <1>11, <2>1, <2>12, <2>13, <2>14, <2>15 DEF Begun
<1> HIDE DEF t, u, v
<1> QED BY <1>2, <1>7, <1>8, <1>9, <1>10, <1>11

\* __job_run
LEMMA JobRunFirm ==
    ASSUME StateOK(Now), Full(Now), faults \in Nat, faults' = faults, NEW j \in Queue,
           mem[j].status \in {"INITIATED", "PENDING"} \cup Waiting,
           mem[j].status # "INITIATED" => row[j].action \in StartActions,
           JobRun(j)
    PROVE  Kept(j) \/ Asked(j) \/ Begun(j)
<1>0. /\ j \in Jobs /\ pos[j] > 0
      /\ mem[j].status \in {"INITIATED", "PENDING"} => mem[j].ent = 0
  BY NowParts DEF Queue, StateOK, FreshIdle
<1>1. /\ SimpleActions \cap StartActions = {}
      /\ {"NODE_QUERY", "OSM_QUERY", "ENABLE", "DISABLE", "CONFIG", "SAVE"}
            \cap StartActions = {}
  BY DEF SimpleActions, StartActions
<1>2. CASE row[j].action \in StartActions /\ mem[j].status \in Waiting
           /\ WaitOsm(j) /\ UNCHANGED wire
  BY <1>2, WaitOsmFirm
<1>3. CASE row[j].action \in StartActions /\ mem[j].status \notin Waiting
           /\ StartInstance(j)
  BY <1>3, StartInstanceFirm
<1>4. CASE row[j].action \in SimpleActions /\ ControlInstanceSimple(j)
  BY <1>1, <1>4, ControlSimpleFirm
<1>5. CASE row[j].action \in {"NODE_QUERY", "OSM_QUERY"} /\ QueryPeer(j)
  <2>1. row[j].action \notin StartActions /\ mem[j].status = "INITIATED" BY <1>1, <1>5
  <2> QED BY <2>1, <1>5, QueryPeerFirm
<1>6. CASE row[j].action = "ENABLE" /\ NodeEnable(j) /\ UNCHANGED wire
  BY <1>6, NodeEnableFirm
<1>7. CASE row[j].action = "DISABLE" /\ NodeDisable(j) /\ UNCHANGED wire
  <2>1. mem[j].status = "INITIATED" BY <1>1, <1>7
  <2> QED BY <2>1, <1>0, <1>7, NodeDisableFirm
<1>8. CASE row[j].action = "CONFIG" /\ NodeConfig(j) /\ UNCHANGED wire
  BY <1>8, NodeConfigFirm
<1>9. CASE UNCHANGED <<clcVars, wire>>
  <2>1. Now' = Now BY <1>9 DEF Now, clcVars
  <2> QED BY <1>9, <2>1, FirmRefl DEF Kept
<1> QED BY <1>2, <1>3, <1>4, <1>5, <1>6, <1>7, <1>8, <1>9 DEF JobRun

---------------------------------------------------------------------------
(* The invariant behind both promises.                                     *)

\* A request to start an instance that lives is at the node of its row.
Tied ==
    \A j \in Jobs :
        row[j].action \in StartActions =>
            /\ row[j].target \in Instances
            /\ wire[j].node # 0 /\ ins[row[j].target].life = "LIVE"
                    => wire[j].node = ins[row[j].target].node

\* So is the machine of an instance that lives.
Home == \A i \in Instances : ins[i].life = "LIVE" => vm[i] \subseteq {ins[i].node}

Tidy == Tied /\ Home

\* A step keeps what StartLimit needs, and what OneVm needs besides.
Keeps == Good' /\ (NodeSelect = "LAST_ONLY" /\ Tidy => Tidy')

LEMMA PlacedFirm ==
    ASSUME NEW j \in Jobs, SameNodes(Now, Now'), FirmJob(Now, Now', j),
           Placed(Now, wire, j), wire'[j].node \in {0, wire[j].node}
    PROVE  Placed(Now', wire', j)
BY DEF Placed, FirmJob, SameNodes

LEMMA AloneFirm ==
    ASSUME Alone(Now), SameNodes(Now, Now')
    PROVE  Alone(Now')
BY DEF Alone, SameNodes

\* A request that is not there is accounted for.
LEMMA PlacedNone ==
    ASSUME NEW s, NEW w, NEW j, w[j].node = 0
    PROVE  Placed(s, w, j)
BY DEF Placed

LEMMA GoodNext ==
    ASSUME Alone(Now'), Full(Now'), \A j \in Jobs : Placed(Now', wire', j)
    PROVE  Good'
BY DEF Good, Alone, Full, Placed, HoldersIn, Queued, Now

\* A step that serves job k, when the request of k is accounted for.
LEMMA GoodStep ==
    ASSUME Good, NEW k, Full(Now'), Firm(Now, Now', {k}),
           \A j \in Jobs \ {k} : wire'[j].node \in {0, wire[j].node},
           k \in Jobs => Placed(Now', wire', k)
    PROVE  Good'
<1>1. Alone(Now') BY AloneFirm DEF Good, Firm
<1>2. ASSUME NEW j \in Jobs PROVE Placed(Now', wire', j)
  BY PlacedFirm DEF Good, Firm
<1> QED BY <1>1, <1>2, GoodNext

\* A step after which instances, machines and requests are where they were.
LEMMA TidyStep ==
    ASSUME Tidy, SameIns(Now, Now'), UNCHANGED vm,
           \A j \in Jobs : /\ row'[j].action = row[j].action
                           /\ row'[j].target = row[j].target
                           /\ row[j].action \in StartActions =>
                                wire'[j].node \in {0, wire[j].node}
    PROVE  Tidy'
<1>1. \A i \in Instances : /\ ins'[i].node = ins[i].node
                           /\ ins'[i].life = "LIVE" => ins[i].life = "LIVE"
  BY NowParts, NowPartsNext DEF SameIns
<1>2. Tied' BY <1>1 DEF Tidy, Tied
<1>3. Home' BY <1>1 DEF Tidy, Home
<1> QED BY <1>2, <1>3 DEF Tidy

LEMMA KeepsStep ==
    ASSUME Good, Full(Now'), Firm(Now, Now', {}), SameIns(Now, Now'), UNCHANGED vm,
           \A j \in Jobs : wire'[j].node \in {0, wire[j].node}
    PROVE  Keeps
<1>1. Firm(Now, Now', {None}) /\ None \notin Jobs BY FirmWide, ConstantsOK
<1>2. Good' BY <1>1, GoodStep
<1>3. \A j \in Jobs : row'[j].action = row[j].action /\ row'[j].target = row[j].target
  BY NowParts, NowPartsNext DEF Firm, FirmJob
<1> QED BY <1>2, <1>3, TidyStep DEF Keeps

\* A step of something else.
LEMMA KeepsIdle ==
    ASSUME Good, UNCHANGED <<clcVars, vm>>,
           \A j \in Jobs : wire'[j].node \in {0, wire[j].node}
    PROVE  Keeps
<1>1. Now' = Now BY DEF Now, clcVars
<1>2. Full(Now') BY <1>1 DEF Good
<1>3. Firm(Now, Now', {}) /\ SameIns(Now, Now') BY <1>1, FirmRefl
<1> QED BY <1>2, <1>3, KeepsStep

\* The dispatch of one job.
LEMMA DispatchKeeps ==
    ASSUME Inv, Good, faults' = faults, DispatchStep
    PROVE  Keeps
<1> DEFINE j == walk
<1>0. /\ j \in Queue /\ j \in Jobs /\ Dispatch(j) /\ UNCHANGED vm
      /\ StateOK(Now) /\ Full(Now) /\ faults \in Nat
      /\ wire \in [Jobs -> WireType] /\ Placed(Now, wire, j)
      /\ pos[j] > 0 /\ mem[j] \in MemType
  BY DEF DispatchStep, Queue, Inv, Good, TypeOK
<1>1. \A k \in Jobs : row'[k].action = row[k].action /\ row'[k].target = row[k].target
  <2>1. Calm BY DispatchStepInv
  <2>2. PICK k \in Jobs \cup {None} : Tame(Now, Now', k) BY <2>1 DEF Calm
  <2> QED BY <2>2, NowParts, NowPartsNext DEF Tame, TameJobs
<1>2. mem[j].status \in {"PENDING"} \cup Waiting => row[j].action \in StartActions
  BY <1>0, NowParts DEF StateOK, PendingStarts
<1>3. mem[j].status # "RUNNING" => wire[j].node = 0
  BY <1>0, NowParts DEF Placed
<1>x. "RUNNING" \notin {"INITIATED", "PENDING"} \cup Waiting /\ "RUNNING" \notin Early
  BY DEF Waiting, Early
<1> HIDE DEF j
<1>4. CASE /\ mem[j].status \in {"INITIATED", "PENDING"} \cup Waiting
           /\ JobRun(j)
  <2>1. Kept(j) \/ Asked(j) \/ Begun(j) BY <1>0, <1>2, <1>4, JobRunFirm
  <2>2. wire[j].node = 0 BY <1>3, <1>4, <1>x
  <2>3. CASE Kept(j)
    <3>1. Placed(Now', wire', j) BY <2>2, <2>3, PlacedNone DEF Kept
    <3>2. Good' BY <2>3, <3>1, GoodStep DEF Kept
    <3> QED BY <1>0, <1>1, <2>3, <3>2, TidyStep DEF Kept, Keeps
  <2>4. CASE Asked(j)
    <3>1. PICK n \in Nodes \cup {-1} : Send(j, n) BY <2>4 DEF Asked
    <3>2. \A k \in Jobs \ {j} : wire'[k] = wire[k] BY <1>0, <3>1, SendType
    <3>3. Placed(Now', wire', j)
      BY <1>1, <1>0, <1>x, <2>4, NowPartsNext DEF Asked, Placed
    <3>4. Good' BY <2>4, <3>2, <3>3, GoodStep DEF Asked
    <3>5. \A k \in Jobs : row[k].action \in StartActions => wire'[k] = wire[k]
      BY <2>4, <3>2 DEF Asked
    <3> QED BY <1>0, <1>1, <2>4, <3>4, <3>5, TidyStep DEF Asked, Keeps
  <2>5. CASE Begun(j)
    <3> DEFINE i == row[j].target
    <3>1. PICK o \in Slots :
                 /\ ent[o].type = "node" /\ mem'[j].ent = o
                 /\ Send(j, ent[o].db)
                 /\ ins' = SetNode(ins, i, ent[o].db)
                 /\ NodeSelect = "LAST_ONLY" /\ ins[i].node > 0
                        => ent[o].db = ins[i].node
      BY <2>5 DEF Begun
    <3>2. ent[o].db \in Nodes BY <1>0, <3>1, NowParts DEF StateOK, NodeSlots
    <3>3. wire'[j].node = ent[o].db /\ \A k \in Jobs \ {j} : wire'[k] = wire[k]
      BY <1>0, <3>1, <3>2, SendType
    <3>4. ent'[o].type = "node" /\ ent'[o].db = ent[o].db
      BY <2>5, <3>1, NowParts, NowPartsNext DEF Begun, Firm, SameNodes
    <3>5. Placed(Now', wire', j)
      BY <1>x, <2>5, <3>1, <3>3, <3>4, NowPartsNext DEF Begun, Placed
    <3>6. Good' BY <2>5, <3>3, <3>5, GoodStep DEF Begun
    <3>7. ASSUME NodeSelect = "LAST_ONLY", Tidy PROVE Tidy'
      <4>1. /\ ins \in [Instances -> InsType] /\ ent[o].db > 0 /\ ent[o].db # 0
            /\ vm \in [Instances -> SUBSET Nodes] /\ 0 \notin Nodes
        <5>1. ent[o].db \in Nat \ {0} /\ 0 \notin Nodes BY <3>2, ConstantsOK
        <5>2. ent[o].db > 0 /\ ent[o].db # 0 BY <5>1
        <5>3. ins \in [Instances -> InsType] /\ vm \in [Instances -> SUBSET Nodes]
          BY DEF Inv, TypeOK
        <5> QED BY <5>1, <5>2, <5>3
      <4>2. \A x \in Instances :
               /\ ins[x].node \in Nat
               /\ ins'[x].life = ins[x].life
               /\ ins'[x].node = IF x = i /\ ins[x].life = "LIVE"
                                 THEN ent[o].db ELSE ins[x].node
        BY <3>1, <4>1 DEF SetNode, InsType
      \* the first start of an instance meets no machine and no other request
      <4>3. \A x \in Instances :
               ins'[x].node = ins[x].node
                 \/ (x = i /\ ins[x].node = 0 /\ ins'[x].node = ent[o].db)
        BY <3>1, <3>7, <4>2
      <4>4. Home'
        <5> SUFFICES ASSUME NEW x \in Instances, ins'[x].life = "LIVE"
                     PROVE  vm'[x] \subseteq {ins'[x].node}
          BY DEF Home
        <5>1. vm'[x] = vm[x] /\ vm[x] \subseteq {ins[x].node} /\ vm[x] \subseteq Nodes
          BY <1>0, <3>7, <4>1, <4>2 DEF Tidy, Home
        <5> QED BY <4>1, <4>3, <5>1
      <4>5. Tied'
        <5> SUFFICES ASSUME NEW k \in Jobs, row'[k].action \in StartActions
                     PROVE  /\ row'[k].target \in Instances
                            /\ wire'[k].node # 0 /\ ins'[row'[k].target].life = "LIVE"
                                 => wire'[k].node = ins'[row'[k].target].node
          BY DEF Tied
        <5> DEFINE x == row[k].target
        <5>1. /\ row'[k].target = x /\ x \in Instances
              /\ wire[k].node # 0 /\ ins[x].life = "LIVE" => wire[k].node = ins[x].node
          BY <1>1, <3>7 DEF Tidy, Tied
        <5>2. CASE k = j
          <6>1. x = i BY <5>2
          <6> QED BY <3>3, <4>2, <5>1, <5>2, <6>1
        <5>3. CASE k # j
          <6>1. wire'[k] = wire[k] BY <3>3, <5>3
          <6>2. wire[k].node # 0 /\ ins[x].life = "LIVE" => ins'[x].node = ins[x].node
            BY <4>3, <5>1
          <6> QED BY <4>2, <5>1, <6>1, <6>2
        <5> QED BY <5>2, <5>3
      <4> QED BY <4>4, <4>5 DEF Tidy
    <3> QED BY <3>6, <3>7 DEF Keeps
  <2> QED BY <2>1, <2>3, <2>4, <2>5
<1>5. CASE UNCHANGED <<clcVars, wire>>
  BY <1>0, <1>5, KeepsIdle
<1>6. ASSUME NEW st \in {"TIMEOUT", "UNKNOWN"}, Update(Now, j, st, 0), UNCHANGED wire,
             st = "UNKNOWN" => mem[j].status # "RUNNING"
      PROVE  Keeps
  <2>1. st \in Statuses /\ st \notin Early /\ st # "STARTING_OSM" /\ j \in Queued(Now)
        /\ (st = "TIMEOUT" => st \in Ended)
    BY <1>0, NowParts, StatusFacts DEF Early, Ended
  <2>2. /\ Full(Now') /\ Firm(Now, Now', {j}) /\ SameIns(Now, Now')
        /\ Now'.row[j].status = st
        /\ st \in Ended => Now'.pos[j] = 0
    BY <1>0, <1>6, <2>1, UpdateFirm
  <2>3. Placed(Now', wire', j)
    <3>1. CASE st = "TIMEOUT" BY <2>1, <2>2, <3>1 DEF Placed
    <3>2. CASE st = "UNKNOWN" BY <1>3, <1>6, <3>2, PlacedNone
    <3> QED BY <3>1, <3>2
  <2>4. Good' BY <1>6, <2>2, <2>3, GoodStep
  <2> QED BY <1>0, <1>1, <1>6, <2>2, <2>4, TidyStep DEF Keeps
<1>7. "RUNNING" \notin Ended \cup {"UNKNOWN"} BY DEF Ended
<1> QED BY <1>0, <1>4, <1>5, <1>6, <1>7 DEF Dispatch

---------------------------------------------------------------------------
(* The other steps.                                                        *)

\* A thread of a node starts the machine of an instance where its row says.
LEMMA NodeStepKeeps ==
    ASSUME Inv, Good, NEW j \in Jobs, NodeStep(j)
    PROVE  Keeps
<1> DEFINE n == wire[j].node
           i == row[j].target
<1>0. /\ UNCHANGED clcVars /\ n # 0
      /\ wire \in [Jobs -> WireType] /\ vm \in [Instances -> SUBSET Nodes]
  BY DEF NodeStep, Inv, TypeOK
<1>1. \A k \in Jobs : wire'[k].node = wire[k].node
  BY <1>0 DEF NodeStep, Replied, WireType
<1>2. Now' = Now BY <1>0 DEF Now, clcVars
<1>3. Good'
  <2>1. Full(Now') /\ Firm(Now, Now', {None}) BY <1>2, FirmRefl DEF Good
  <2> QED BY <1>1, <2>1, GoodStep, ConstantsOK
<1>4. ASSUME Tidy PROVE Tidy'
  <2>1. row' = row /\ ins' = ins BY <1>0 DEF clcVars
  <2>2. Tied' BY <1>1, <1>4, <2>1 DEF Tidy, Tied
  <2>3. \/ vm' = vm
        \/ vm' = [vm EXCEPT ![i] = @ \ {n}]
        \/ row[j].action \in StartActions /\ vm' = [vm EXCEPT ![i] = @ \cup {n}]
    BY DEF NodeStep, VmUp, VmDown, StartActions
  <2>4. Home'
    <3> SUFFICES ASSUME NEW x \in Instances, ins[x].life = "LIVE"
                 PROVE  vm'[x] \subseteq {ins[x].node}
      BY <2>1 DEF Home
    <3>1. vm[x] \subseteq {ins[x].node} BY <1>4 DEF Tidy, Home
    <3>2. CASE vm' = vm BY <3>1, <3>2
    <3>3. CASE vm' = [vm EXCEPT ![i] = @ \ {n}] BY <1>0, <3>1, <3>3
    <3>4. CASE row[j].action \in StartActions /\ vm' = [vm EXCEPT ![i] = @ \cup {n}]
      <4>1. CASE x = i
        <5>1. n = ins[x].node BY <1>0, <1>4, <3>4, <4>1 DEF Tidy, Tied
        <5> QED BY <1>0, <3>1, <3>4, <4>1, <5>1
      <4>2. CASE x # i BY <1>0, <3>1, <3>4, <4>2
      <4> QED BY <4>1, <4>2
    <3> QED BY <2>3, <3>2, <3>3, <3>4
  <2> QED BY <2>2, <2>4 DEF Tidy
<1> QED BY <1>3, <1>4 DEF Keeps

\* The web application creates a job that nobody has seen.
LEMMA WebCreateKeeps ==
    ASSUME Inv, Good, NEW j \in Jobs, NEW a \in AllActions,
           NEW t \in (IF a \in NodeActions THEN Nodes ELSE Instances), WebCreate(j, a, t)
    PROVE  Keeps
<1>0. /\ pos' = pos /\ mem' = mem /\ ent' = ent /\ wire' = wire /\ vm' = vm
      /\ row \in [Jobs -> RowType] /\ ins \in [Instances -> InsType]
      /\ row[j].status = "NONE"
      /\ \A k \in Jobs \ {j} : row'[k] = row[k]
      /\ row'[j].action = a /\ row'[j].target = t
  BY DEF WebCreate, Inv, TypeOK
<1>1. wire[j].node = 0
  BY <1>0, NowParts DEF Good, Placed, Early
<1>2. Firm(Now, Now', {j})
  BY <1>0, NowParts, NowPartsNext DEF Firm, FirmJob, SameNodes
<1>3. Full(Now')
  <2>1. \A x : HoldersIn(Now', x) = HoldersIn(Now, x)
    BY <1>0, NowParts, NowPartsNext DEF HoldersIn, Queued
  <2> QED BY <1>0, <2>1, NowParts, NowPartsNext DEF Good, Full
<1>4. Good' BY <1>0, <1>1, <1>2, <1>3, GoodStep, PlacedNone
<1>5. \A x \in Instances : /\ ins'[x].node = ins[x].node
                           /\ ins'[x].life = "LIVE" => ins[x].life = "LIVE"
  <2>1. CASE ins' = ins BY <2>1
  <2>2. CASE ins' = [ins EXCEPT ![t].life = "DELETE"] BY <1>0, <2>2 DEF InsType
  <2> QED BY <2>1, <2>2 DEF WebCreate
<1>6. ASSUME Tidy PROVE Tidy'
  <2>1. Home' BY <1>0, <1>5, <1>6 DEF Tidy, Home
  <2>2. a \in StartActions => t \in Instances BY DEF StartActions, NodeActions
  <2>3. Tied'
    <3> SUFFICES ASSUME NEW k \in Jobs, row'[k].action \in StartActions
                 PROVE  /\ row'[k].target \in Instances
                        /\ wire'[k].node # 0 /\ ins'[row'[k].target].life = "LIVE"
                             => wire'[k].node = ins'[row'[k].target].node
      BY DEF Tied
    <3>1. CASE k = j BY <1>0, <1>1, <2>2, <3>1
    <3>2. CASE k # j BY <1>0, <1>5, <1>6, <3>2 DEF Tidy, Tied
    <3> QED BY <3>1, <3>2
  <2> QED BY <2>1, <2>3 DEF Tidy
<1> QED BY <1>4, <1>6 DEF Keeps

LEMMA WebDeleteKeeps ==
    ASSUME Inv, Good, NEW i \in Instances, WebDelete(i)
    PROVE  Keeps
<1>0. /\ pos' = pos /\ mem' = mem /\ ent' = ent /\ wire' = wire /\ vm' = vm /\ row' = row
      /\ ins' = [ins EXCEPT ![i].life = "DELETE"] /\ ins \in [Instances -> InsType]
  BY DEF WebDelete, Inv, TypeOK
<1>1. Firm(Now, Now', {})
  BY <1>0, NowParts, NowPartsNext DEF Firm, FirmJob, SameNodes
<1>2. Full(Now')
  <2>1. \A x : HoldersIn(Now', x) = HoldersIn(Now, x)
    BY <1>0, NowParts, NowPartsNext DEF HoldersIn, Queued
  <2> QED BY <1>0, <2>1, NowParts, NowPartsNext DEF Good, Full
<1>3. SameIns(Now, Now')
  <2>1. \A x \in Instances : /\ ins'[x].node = ins[x].node
                             /\ ins'[x].life = "LIVE" => ins[x].life = "LIVE"
    BY <1>0 DEF InsType
  <2> QED BY <2>1, NowParts, NowPartsNext DEF SameIns
<1> QED BY <1>0, <1>1, <1>2, <1>3, KeepsStep

\* __process_web_job
LEMMA WebJobKeeps ==
    ASSUME Inv, Good, faults' = faults, NEW j \in Jobs, WebJob(j)
    PROVE  Keeps
<1>0. /\ j \in note /\ pos[j] = 0 /\ row[j].status = "INITIATED"
      /\ faults \in Nat /\ vm' = vm /\ wire' = wire /\ StateOK(Now) /\ Full(Now)
  BY DEF WebJob, Inv, NoteOK, TypeOK, Good
<1>1. wire[j].node = 0 BY <1>0, NowParts DEF Good, Placed, Early
<1> DEFINE s == Checked(j, {})
<1>2. /\ s \in StateType /\ Full(s) /\ Firm(Now, s, {}) /\ SameIns(Now, s)
  <2>1. "CANCELLED" \in Ended /\ Replaced(j) \subseteq Queued(Now)
    BY ReplacedQueued, NowParts DEF Ended
  <2> QED BY <1>0, <2>1, JobUpdateAllFirm DEF Checked
<1>3. s.pos[j] = 0
  <2>1. Tame(Now, s, None) BY CheckedOK
  <2> QED BY <1>0, <2>1, NowParts DEF Tame, TameJobs
<1>4. \A F \in SUBSET Replaced(j) : F \subseteq Jobs BY ReplacedQueued DEF Queue
<1>5. CASE Refuse(j)
  <2>1. PICK F \in SUBSET Replaced(j), C \in SUBSET {j} :
           /\ Spend(Cardinality(F) + Cardinality(C))
           /\ Become(SetStatus(Checked(j, F), {}, {j} \ C, "CANCELLED"))
    BY <1>5 DEF Refuse
  <2>2. F = {} /\ C = {}
    <3>1. /\ IsFiniteSet(F) /\ Cardinality(F) \in Nat
          /\ IsFiniteSet(C) /\ Cardinality(C) \in Nat
      BY <1>4, JobsFinite
    <3>2. Cardinality(F) = 0 /\ Cardinality(C) = 0 BY <1>0, <2>1, <3>1 DEF Spend
    <3> QED BY <3>1, <3>2, FS_EmptySet
  <2> DEFINE v == SetStatus(s, {}, {j}, "CANCELLED")
  <2>3. Become(v)
    <3>1. {j} \ C = {j} BY <2>2
    <3> QED BY <2>1, <2>2, <3>1
  <2>x. "CANCELLED" \in Statuses /\ "CANCELLED" \notin Early
    BY DEF Statuses, Ended, Early
  <2> HIDE DEF s
  <2>4. /\ v \in StateType
        /\ v.pos = s.pos /\ v.ent = s.ent /\ v.ins = s.ins
        /\ \A k \in Jobs :
             /\ v.mem[k].status = s.mem[k].status
             /\ v.mem[k].pend = s.mem[k].pend
             /\ v.mem[k].ent = s.mem[k].ent
             /\ v.row[k].action = s.row[k].action
             /\ v.row[k].target = s.row[k].target
             /\ v.row[k].status = IF k \in {j} THEN "CANCELLED" ELSE s.row[k].status
    BY <1>2, <2>x, SetStatusParts
  <2> HIDE DEF v
  <2>5. Full(v) BY <1>2, <2>4, FullSame
  <2>6. Firm(s, v, {}) /\ SameIns(s, v)
    BY <2>x, <2>4 DEF Firm, FirmJob, SameNodes, SameIns
  <2>7. Now' = v BY <2>3, <2>4, BecomeNow
  <2>8. Firm(Now, Now', {}) /\ SameIns(Now, Now')
    BY <1>2, <2>6, <2>7, FirmTrans, SameInsTrans
  <2> QED BY <1>0, <2>5, <2>7, <2>8, KeepsStep
<1>6. CASE Insert(j)
  <2>1. PICK F \in SUBSET Replaced(j) :
           /\ Spend(Cardinality(F))
           /\ Become([Checked(j, F) EXCEPT !.pos[j] = Place, !.mem[j] = Blank])
    BY <1>6 DEF Insert
  <2>2. F = {} BY <1>0, <1>4, <2>1, FailsCounted
  <2> DEFINE v == [s EXCEPT !.pos[j] = Place, !.mem[j] = Blank]
  <2>3. Become(v) BY <2>1, <2>2
  <2> HIDE DEF s
  <2>4. /\ v.row = s.row /\ v.ent = s.ent /\ v.ins = s.ins
        /\ \A k \in Jobs \ {j} : v.pos[k] = s.pos[k] /\ v.mem[k] = s.mem[k]
        /\ v.mem[j] = Blank
    BY <1>2 DEF StateType
  <2>5. /\ Now'.pos = v.pos /\ Now'.mem = v.mem /\ Now'.row = v.row
        /\ Now'.ent = v.ent /\ Now'.ins = v.ins
    BY <2>3, NowPartsNext DEF Become
  <2> HIDE DEF v
  <2>6. Firm(s, Now', {j}) /\ SameIns(s, Now')
    BY <2>4, <2>5 DEF Firm, FirmJob, SameNodes, SameIns
  <2>7. Firm(Now, Now', {j}) /\ SameIns(Now, Now')
    BY <1>2, <2>6, FirmWide, FirmTrans, SameInsTrans
  <2>8. Full(Now')
    <3>1. \A x \in Slots : HoldersIn(Now', x) = HoldersIn(s, x)
      BY <1>3, <2>4, <2>5 DEF HoldersIn, Holders, Queued, Blank
    <3> QED BY <1>2, <2>4, <2>5, <3>1 DEF Full
  <2>9. Good' BY <1>0, <1>1, <2>7, <2>8, GoodStep, PlacedNone
  <2>10. \A k \in Jobs : row'[k].action = row[k].action /\ row'[k].target = row[k].target
    <3>1. Firm(Now, s, {}) BY <1>2
    <3> QED BY <3>1, <2>4, <2>5, NowParts, NowPartsNext DEF Firm, FirmJob
  <2> QED BY <1>0, <2>7, <2>9, <2>10, TidyStep DEF Keeps
<1>7. ~ Spend(1) BY <1>0, NotSpent
<1> QED BY <1>5, <1>6, <1>7 DEF WebJob

\* __process_node_xml_response: an answer that is not the last one leaves the
\* request where it is, and the node it names is the one of the row already.
LEMMA NodeResponseKeeps ==
    ASSUME Inv, Good, faults' = faults, NEW j \in Jobs, NodeResponse(j)
    PROVE  Keeps
<1> DEFINE rep == wire[j].rep
           st == IF rep = "STOPPED" THEN "RUNNING" ELSE rep
           osm == FindByDb(ent, "osm", row[j].target)
<1>0. /\ StateOK(Now) /\ Full(Now) /\ faults \in Nat /\ vm' = vm
      /\ wire \in [Jobs -> WireType] /\ Placed(Now, wire, j)
      /\ rep # "NONE" /\ Peers(j) # {}
      /\ wire' = [wire EXCEPT ![j] = IF st = "RUNNING" THEN [@ EXCEPT !.rep = "NONE"]
                                     ELSE NoRequest]
  BY DEF NodeResponse, Inv, Good, TypeOK
<1>1. /\ \A k \in Jobs \ {j} : wire'[k] = wire[k]
      /\ st = "RUNNING" => wire'[j].node = wire[j].node
      /\ st # "RUNNING" => wire'[j].node = 0
  BY <1>0 DEF WireType, NoRequest
<1>2. \A k \in Jobs : wire'[k].node \in {0, wire[k].node} BY <1>1
<1>3. wire[j].node # 0
  <2>1. CASE wire[j].node = -1 BY <2>1
  <2>2. CASE wire[j].node # -1
    <3>1. PICK t \in Slots : ent[t].type = "node" /\ ent[t].db = wire[j].node
      BY <1>0, <2>2 DEF Peers, FindByDb
    <3>2. ent[t].db \in Nodes BY <1>0, <3>1, NowParts DEF StateOK, NodeSlots
    <3>3. 0 \notin Nodes BY ConstantsOK
    <3> QED BY <3>1, <3>2, <3>3
  <2> QED BY <2>1, <2>2
<1>4. \A k \in Jobs : row'[k].action = row[k].action /\ row'[k].target = row[k].target
  <2>1. Calm BY NodeResponseInv
  <2>2. PICK k \in Jobs \cup {None} : Tame(Now, Now', k) BY <2>1 DEF Calm
  <2> QED BY <2>2, NowParts, NowPartsNext DEF Tame, TameJobs
<1>5. CASE j \notin Queue
  <2>1. UNCHANGED clcVars BY <1>5 DEF NodeResponse
  <2> QED BY <1>0, <1>2, <2>1, KeepsIdle
<1>6. ASSUME j \in Queue
      PROVE  /\ mem[j].status = "RUNNING" /\ j \in Queued(Now)
             /\ row[j].action \in StartActions =>
                  /\ mem[j].pend = 0 /\ mem[j].ent \in Slots
                  /\ ent[mem[j].ent].type = "node" /\ ent[mem[j].ent].db = wire[j].node
  BY <1>0, <1>3, <1>6, NowParts DEF Placed, Queue
\* the request stays with job j, which goes on running
<1>7. ASSUME j \in Queue, st = "RUNNING", Full(Now'), Firm(Now, Now', {j}),
             SameIns(Now, Now'), row'[j].status = "RUNNING", mem'[j].status = "RUNNING",
             mem'[j].pend = mem[j].pend, mem'[j].ent = mem[j].ent
      PROVE  Keeps
  <2>1. Placed(Now', wire', j)
    <3>1. \A t \in Slots : ent[t].type = "node" => /\ ent'[t].type = "node"
                                                   /\ ent'[t].db = ent[t].db
      BY <1>7, NowParts, NowPartsNext DEF Firm, SameNodes
    <3> QED BY <1>1, <1>4, <1>6, <1>7, <3>1, NowPartsNext DEF Placed, Early
  <2>2. Good' BY <1>1, <1>7, <2>1, GoodStep
  <2> QED BY <1>0, <1>2, <1>4, <1>7, <2>2, TidyStep DEF Keeps
<1>8. CASE j \in Queue /\ rep # "STOPPED"
  <2>1. Update(Now, j, st, 0) /\ st = rep BY <1>8 DEF NodeResponse
  <2>2. st \in Statuses /\ (st = "RUNNING" => st \notin Ended \cup {"STARTING_OSM"})
    <3>1. rep \in Ended \cup {"NONE", "RUNNING", "STOPPED", "STARTING_OSM"}
      BY <1>0 DEF WireType
    <3> QED BY <1>0, <1>8, <2>1, <3>1, StatusFacts DEF Ended, Statuses, Waiting
  <2>3. /\ Full(Now') /\ Firm(Now, Now', {j})
        /\ Now'.row[j].status = st
        /\ st \notin Ended => /\ Now'.mem[j].status = st
                              /\ Now'.mem[j].ent = Now.mem[j].ent
        /\ st \notin Ended \cup {"STARTING_OSM"} => Now'.mem[j].pend = Now.mem[j].pend
        /\ st # "STARTING_OSM" => SameIns(Now, Now')
        /\ st = "STARTING_OSM" =>
             Now'.ins = SetNode(Now.ins, Now.row[j].target, DbId(Now.ent, Now.mem[j].ent))
    <3>1. j \in Queued(Now) /\ 0 \in Nat BY <1>6, <1>8
    <3> HIDE DEF st
    <3> QED BY <1>0, <2>1, <2>2, <3>1, UpdateFirm
  <2> HIDE DEF st
  <2>4. CASE st = "RUNNING"
    BY <1>7, <1>8, <2>2, <2>3, <2>4, NowParts, NowPartsNext
  <2>5. CASE st # "RUNNING"
    <3>1. Good'
      <4>1. Placed(Now', wire', j) BY <1>1, <2>5, PlacedNone
      <4> QED BY <1>1, <2>3, <4>1, GoodStep
    <3>2. ASSUME Tidy PROVE SameIns(Now, Now')
      <4>1. CASE st # "STARTING_OSM" BY <2>3, <4>1
      <4>2. CASE st = "STARTING_OSM"
        <5> DEFINE i == row[j].target
                   d == DbId(ent, mem[j].ent)
        <5>1. row[j].action \in StartActions
          BY <2>1, <4>2 DEF Inv, WireOK
        <5>2. d = wire[j].node BY <1>6, <1>8, <5>1 DEF DbId
        <5>3. ins' = SetNode(ins, i, d) BY <2>3, <4>2, NowParts, NowPartsNext
        <5>4. ins[i].life = "LIVE" => d = ins[i].node
          BY <1>3, <3>2, <5>1, <5>2 DEF Tidy, Tied
        <5>5. ins \in [Instances -> InsType] BY DEF Inv, TypeOK
        <5> HIDE DEF d
        <5>6. \A x \in Instances : ins'[x].node = ins[x].node /\ ins'[x].life = ins[x].life
          BY <5>3, <5>4, <5>5 DEF SetNode, InsType
        <5> QED BY <5>6, NowParts, NowPartsNext DEF SameIns
      <4> QED BY <4>1, <4>2
    <3>3. Tidy => Tidy' BY <1>0, <1>2, <1>4, <3>2, TidyStep
    <3> QED BY <3>1, <3>3 DEF Keeps
  <2> QED BY <2>4, <2>5
<1>9. CASE j \in Queue /\ rep = "STOPPED"
  <2> DEFINE s == JobUpdateStatus(Now, j, "no", "RUNNING")
             v == [s EXCEPT !.ent = Release(s.ent, osm)]
  <2>1. Become(v)
    <3>1. Become(v) \/ Spend(1) BY <1>9 DEF NodeResponse
    <3> QED BY <3>1, <1>0, NotSpent
  <2>2. /\ s \in StateType /\ Full(s) /\ Firm(Now, s, {j}) /\ SameIns(Now, s)
        /\ s.row[j].status = "RUNNING" /\ s.mem[j].status = "RUNNING"
        /\ s.mem[j].pend = mem[j].pend /\ s.mem[j].ent = mem[j].ent
        /\ s.ent = ent
    <3>1. PICK x \in Statuses : x = "RUNNING" BY DEF Statuses
    <3>2. x \notin Ended \cup {"STARTING_OSM"} /\ j \in Queued(Now)
      BY <1>6, <1>9, <3>1 DEF Ended
    <3>3. LET u == JobUpdateStatus(Now, j, "no", x)
          IN  /\ u \in StateType /\ Full(u) /\ Firm(Now, u, {j})
              /\ u.row[j].status = x
              /\ x \notin Ended => /\ u.mem[j].status = x
                                   /\ u.mem[j].ent = Now.mem[j].ent
              /\ x \notin Ended \cup {"STARTING_OSM"}
                     => u.mem[j].pend = Now.mem[j].pend /\ u.ent = Now.ent
              /\ x # "STARTING_OSM" => SameIns(Now, u)
      BY <1>0, <3>2, JobUpdateStatusFirm
    <3> QED BY <3>1, <3>2, <3>3, NowParts
  <2> HIDE DEF s
  <2>3. /\ Release(s.ent, osm) \in [Slots -> EntType]
        /\ \A t \in Slots : Release(s.ent, osm)[t] = IF t \in osm THEN FreeSlot ELSE ent[t]
        /\ \A t \in osm : ent[t].type = "osm"
    BY <2>2, Parts, ReleaseParts DEF FindByDb
  <2>4. /\ v \in StateType /\ v.ent = Release(s.ent, osm)
        /\ v.pos = s.pos /\ v.mem = s.mem /\ v.row = s.row /\ v.ins = s.ins
    BY <2>2, <2>3 DEF StateType
  <2>5. Now' = v BY <2>1, <2>4, BecomeNow
  <2> HIDE DEF v
  <2>6. \A t \in Slots : v.ent[t].busy = s.ent[t].busy
    <3>1. \A t \in osm : t \in Slots => ent[t].busy = 0
      BY <1>0, <2>3, NowParts DEF StateOK, NodeSlots
    <3> QED BY <2>2, <2>3, <2>4, <3>1, FreeSlotType
  <2>7. Full(v) BY <2>2, <2>4, <2>6, FullSame
  <2>8. Firm(s, v, {j}) /\ SameIns(s, v)
    BY <2>2, <2>3, <2>4, FreeSlotType DEF Firm, FirmJob, SameNodes, SameIns
  <2>9. Firm(Now, v, {j}) /\ SameIns(Now, v) BY <2>2, <2>8, FirmTrans, SameInsTrans
  <2> QED BY <1>7, <1>9, <2>2, <2>4, <2>5, <2>7, <2>9, NowPartsNext
<1> QED BY <1>5, <1>8, <1>9

\* Entities change, but no entity of a node comes, goes or counts differently.
LEMMA EntitiesKeep ==
    ASSUME Inv, Good, UNCHANGED <<row, pos, mem, ins, wire, vm>>,
           \A t \in Slots :
              /\ ent'[t].type = "node" <=> ent[t].type = "node"
              /\ ent[t].type = "node" => ent'[t].db = ent[t].db
              /\ ent'[t].busy = ent[t].busy
    PROVE  Keeps
<1>1. Firm(Now, Now', {}) /\ SameIns(Now, Now')
  BY NowParts, NowPartsNext DEF Firm, FirmJob, SameNodes, SameIns
<1>2. Full(Now')
  <2>1. \A x : HoldersIn(Now', x) = HoldersIn(Now, x)
    BY NowParts, NowPartsNext DEF HoldersIn, Queued
  <2> QED BY <2>1, NowParts, NowPartsNext DEF Good, Full
<1> QED BY <1>1, <1>2, KeepsStep

\* The OS managers, and what a connected node says of itself.
LEMMA OthersKeep ==
    ASSUME Inv, Good, NEW t \in Slots,
           \/ \E i \in Instances : OsmAuth(i, t)
           \/ NodeReauth(t) \/ NodeRegister(t) \/ NodeReport(t)
           \/ OsmAdvance(t) \/ OsmClose(t)
    PROVE  Keeps
<1>0. /\ ent \in [Slots -> EntType]
      /\ \A x \in Slots : ent[x].type # "node" => ent[x].busy = 0
  BY SlotFacts
<1>1. UNCHANGED <<row, pos, mem, ins, wire, vm>>
  BY DEF OsmAuth, NodeReauth, NodeRegister, NodeReport, OsmAdvance, OsmClose, bounds
<1>2. CASE NodeReauth(t) \/ NodeRegister(t) \/ NodeReport(t) \/ OsmAdvance(t)
  <2>1. \A x \in Slots : /\ ent'[x].type = ent[x].type /\ ent'[x].db = ent[x].db
                         /\ ent'[x].busy = ent[x].busy
    <3>1. CASE NodeReauth(t) BY <1>0, <3>1 DEF NodeReauth, EntType
    <3>2. CASE NodeRegister(t)
      <4>1. PICK room, b : ent' = [ent EXCEPT ![t].status = REGISTERED, ![t].room = room,
                                              ![t].enabled = b]
        BY <3>2 DEF NodeRegister
      <4> QED BY <1>0, <4>1 DEF EntType
    <3>3. CASE NodeReport(t) BY <1>0, <3>3 DEF NodeReport, EntType
    <3>4. CASE OsmAdvance(t) BY <1>0, <3>4 DEF OsmAdvance, EntType
    <3> QED BY <1>2, <3>1, <3>2, <3>3, <3>4
  <2> QED BY <1>1, <2>1, EntitiesKeep
<1>3. CASE OsmClose(t)
  <2>1. /\ ent[t].type = "osm"
        /\ \A x \in Slots : ent'[x] = IF x \in {t} THEN FreeSlot ELSE ent[x]
    BY <1>0, <1>3, ReleaseParts DEF OsmClose
  <2> QED BY <1>0, <1>1, <2>1, FreeSlotType, EntitiesKeep
<1>4. ASSUME NEW i \in Instances, OsmAuth(i, t) PROVE Keeps
  <2> DEFINE S == FindByDb(ent, "osm", i)
             w == [FreeSlot EXCEPT !.type = "osm", !.db = i, !.status = ONLINE]
  <2>0. i \in Nat BY ConstantsOK
  <2>1. w.type = "osm" /\ w.busy = 0 BY <2>0, NewSlot
  <2>2. /\ ent[t].type = "free"
        /\ ent' = [Release(ent, S) EXCEPT ![t] = w]
    BY <1>4 DEF OsmAuth
  <2> HIDE DEF w
  <2>3. \A x \in Slots : ent'[x] = IF x = t THEN w ELSE IF x \in S THEN FreeSlot ELSE ent[x]
    BY <1>0, <2>2, ReleaseParts
  <2>4. \A x \in S : ent[x].type = "osm" BY DEF FindByDb
  <2> QED BY <1>0, <1>1, <2>1, <2>2, <2>3, <2>4, FreeSlotType, EntitiesKeep
<1> QED BY <1>2, <1>3, <1>4

\* Requests that are lost are not at a node any more.
LEMMA LoseShrinks ==
    ASSUME Inv, NEW n, NEW L, Lose(n, L)
    PROVE  \A j \in Jobs : wire'[j].node \in {0, wire[j].node}
<1>1. wire \in [Jobs -> WireType] BY DEF Inv, TypeOK
<1> QED BY <1>1 DEF Lose, NoRequest, WireType

\* A node connects that has no entity: it takes a slot on which no job counts.
LEMMA NodeAuthKeeps ==
    ASSUME Inv, Good, takeovers' = takeovers, NEW n \in Nodes, NEW t \in Slots,
           NodeAuth(n, t)
    PROVE  Keeps
<1> DEFINE w == [FreeSlot EXCEPT !.type = "node", !.db = n, !.status = ONLINE]
           old == FindByDb(ent, "node", n)
<1>0. /\ ent \in [Slots -> EntType]
      /\ \A x \in Slots : ent[x].type # "node" => ent[x].busy = 0
      /\ takeovers \in Nat
  BY SlotFacts
<1>1. old = {} BY <1>0 DEF NodeAuth
<1>2. /\ UNCHANGED <<row, pos, mem, ins, wire, vm>> /\ ent[t].type = "free"
      /\ ent' = [Release(ent, old) EXCEPT ![t] = w]
  BY <1>1 DEF NodeAuth
<1>3. n \in Nat BY ConstantsOK
<1>4. w.type = "node" /\ w.db = n /\ w.busy = 0 BY <1>3, NewSlot
<1> HIDE DEF w
<1>5. \A x \in Slots : ent'[x] = IF x = t THEN w ELSE ent[x]
  BY <1>0, <1>1, <1>2, ReleaseParts
<1>6. Alone(Now')
  <2>1. \A x \in Slots : ~ (ent[x].type = "node" /\ ent[x].db = n)
    BY <1>1 DEF FindByDb
  <2>2. \A x, y \in Slots :
           /\ ent[x].type = "node" /\ ent[y].type = "node" /\ ent[x].db = ent[y].db
           => x = y
    BY NowParts DEF Good, Alone
  <2> QED BY <1>4, <1>5, <2>1, <2>2, NowPartsNext DEF Alone
<1>7. Full(Now')
  <2>1. \A x : HoldersIn(Now', x) = HoldersIn(Now, x)
    BY <1>2, NowParts, NowPartsNext DEF HoldersIn, Queued
  <2>2. \A x \in Slots : ent'[x].busy = ent[x].busy BY <1>0, <1>2, <1>4, <1>5
  <2> QED BY <2>1, <2>2, NowParts, NowPartsNext DEF Good, Full
<1>8. ASSUME NEW j \in Jobs PROVE Placed(Now', wire', j)
  <2>1. Placed(Now, wire, j) BY DEF Good
  <2> QED BY <1>2, <1>5, <2>1, NowParts, NowPartsNext DEF Placed
<1>9. Good' BY <1>6, <1>7, <1>8, GoodNext
<1>10. Tidy => Tidy'
  <2>1. SameIns(Now, Now') BY <1>2, NowParts, NowPartsNext DEF SameIns
  <2> QED BY <1>2, <2>1, TidyStep
<1> QED BY <1>9, <1>10 DEF Keeps

\* The connection of a node is gone: the jobs that counted on it are over.
LEMMA NodeCloseKeeps ==
    ASSUME Inv, Good, faults' = faults, NEW t \in Slots, NodeClose(t)
    PROVE  Keeps
<1> DEFINE R == JobsOn(t)
           s == JobUpdateAll(Now, R, {}, "FAILURE")
           v == [s EXCEPT !.ent = Release(s.ent, {t})]
<1>0. StateOK(Now) /\ Full(Now) /\ faults \in Nat /\ vm' = vm /\ ent[t].type = "node"
  BY DEF NodeClose, Inv, Good, TypeOK
<1>1. PICK F \in SUBSET R :
         LET x == JobUpdateAll(Now, R, F, "FAILURE")
         IN  /\ Spend(Cardinality(F))
             /\ Become([x EXCEPT !.ent = Release(x.ent, {t})])
  BY DEF NodeClose
<1>2. R \subseteq Queue /\ R \subseteq Jobs BY DEF JobsOn, Queue
<1>3. F = {}
  <2>1. F \subseteq Jobs BY <1>2
  <2> QED BY <1>0, <1>1, <2>1, FailsCounted
<1>4. Become(v) BY <1>1, <1>3
<1>5. /\ s \in StateType /\ Full(s) /\ Firm(Now, s, {}) /\ SameIns(Now, s)
      /\ \A j \in R : s.pos[j] = 0
  <2>1. "FAILURE" \in Ended /\ R \subseteq Queued(Now) BY <1>2, NowParts DEF Ended
  <2> HIDE DEF R
  <2> QED BY <1>0, <2>1, JobUpdateAllFirm
<1> HIDE DEF s
<1>6. /\ Release(s.ent, {t}) \in [Slots -> EntType]
      /\ \A x \in Slots : Release(s.ent, {t})[x] = IF x = t THEN FreeSlot ELSE s.ent[x]
  BY <1>5, Parts, ReleaseParts
<1>7. /\ v \in StateType /\ v.ent = Release(s.ent, {t})
      /\ v.pos = s.pos /\ v.mem = s.mem /\ v.row = s.row /\ v.ins = s.ins
  BY <1>5, <1>6 DEF StateType
<1> HIDE DEF v
<1>8. Now' = v BY <1>4, <1>7, BecomeNow
<1>9. \A j \in Jobs : s.pos[j] > 0 => s.mem[j].ent # t
  <2> SUFFICES ASSUME NEW j \in Jobs, s.pos[j] > 0, s.mem[j].ent = t PROVE FALSE
    OBVIOUS
  <2>1. pos[j] > 0 /\ mem[j].ent = t BY <1>5, NowParts DEF Firm, FirmJob
  <2>2. j \in R BY <2>1 DEF JobsOn, Queue
  <2> QED BY <1>5, <2>2
<1>10. Alone(Now')
  <2>1. \A x \in Slots : v.ent[x].type = "node" =>
           ent[x].type = "node" /\ v.ent[x].db = ent[x].db
    BY <1>5, <1>6, <1>7, FreeSlotType, NowParts DEF Firm, SameNodes
  <2> QED BY <1>8, <2>1, NowParts DEF Good, Alone
<1>11. Full(Now')
  <2> SUFFICES ASSUME NEW x \in Slots
               PROVE  /\ Cardinality(HoldersIn(v, x)) <= v.ent[x].busy
                      /\ v.ent[x].busy <= BusyLimit
    BY <1>8 DEF Full
  <2>1. HoldersIn(v, x) = HoldersIn(s, x) BY <1>7 DEF HoldersIn, Queued
  <2>2. CASE x # t BY <1>5, <1>6, <1>7, <2>1, <2>2 DEF Full
  <2>3. CASE x = t
    <3>1. HoldersIn(v, x) = {} BY <1>9, <2>1, <2>3 DEF HoldersIn, Holders, Queued
    <3>2. Cardinality(HoldersIn(v, x)) = 0 BY <3>1, FS_EmptySet
    <3>3. v.ent[x].busy = 0 BY <1>6, <1>7, <2>3, FreeSlotType
    <3> QED BY <3>2, <3>3, ConstantsOK
  <2> QED BY <2>2, <2>3
<1>12. \A j \in Jobs : wire'[j].node \in {0, wire[j].node}
  <2>1. PICK L : Lose(ent[t].db, L) BY DEF NodeClose
  <2> QED BY <2>1, LoseShrinks
<1>13. ASSUME NEW j \in Jobs PROVE Placed(Now', wire', j)
  <2>1. Placed(Now, wire, j) /\ FirmJob(Now, s, j) /\ SameNodes(Now, s)
    BY <1>5 DEF Good, Firm
  <2>2. Placed(s, wire, j) BY <2>1 DEF Placed, FirmJob, SameNodes
  <2>3. Placed(v, wire, j) BY <1>6, <1>7, <1>9, <2>2 DEF Placed
  <2>4. wire'[j].node \in {0, wire[j].node} BY <1>12
  <2> QED BY <1>8, <2>3, <2>4 DEF Placed
<1>14. Good' BY <1>10, <1>11, <1>13, GoodNext
<1>15. SameIns(Now, Now') BY <1>5, <1>7, <1>8 DEF SameIns
<1>16. \A j \in Jobs : row'[j].action = row[j].action /\ row'[j].target = row[j].target
  BY <1>5, <1>7, <1>8, NowParts, NowPartsNext DEF Firm, FirmJob
<1> QED BY <1>0, <1>12, <1>14, <1>15, <1>16, TidyStep DEF Keeps

\* lyclc starts again: it loads jobs that were never sent.
LEMMA RestartKeeps ==
    ASSUME Inv, Good, Restart
    PROVE  Keeps
<1> DEFINE P == {j \in Jobs : row[j].status = "PENDING"}
<1>0. /\ UNCHANGED <<row, ins, vm>>
      /\ ent' = [t \in Slots |-> FreeSlot]
      /\ wire \in [Jobs -> WireType]
      /\ \A j \in Jobs : pos'[j] > 0 => j \in P
      /\ \A j \in Jobs : mem'[j].pend = -1
  <2>1. PICK f \in [P -> 1 .. Cardinality(P)] :
           pos' = [j \in Jobs |-> IF j \in P THEN f[j] ELSE 0]
    BY DEF Restart
  <2>2. mem' = [j \in Jobs |-> IF j \in P THEN [Blank EXCEPT !.status = "PENDING"]
                               ELSE Blank]
    BY DEF Restart
  <2>3. \A j \in Jobs : mem'[j].pend = -1 BY <2>2 DEF Blank
  <2>4. \A j \in Jobs : pos'[j] > 0 => j \in P BY <2>1
  <2>5. UNCHANGED <<row, ins, vm>> /\ ent' = [t \in Slots |-> FreeSlot] BY DEF Restart
  <2>6. wire \in [Jobs -> WireType] BY DEF Inv, TypeOK
  <2> QED BY <2>3, <2>4, <2>5, <2>6
<1>1. \A j \in Jobs : wire'[j].node \in {0, wire[j].node}
  <2>1. PICK L : wire' = [j \in Jobs |->
                IF \/ j \in L \/ wire[j].node = -1
                   \/ wire[j].rep \notin {"NONE", "RUNNING", "STOPPED"}
                THEN NoRequest ELSE [wire[j] EXCEPT !.rep = "NONE"]]
    BY DEF Restart
  <2> QED BY <1>0, <2>1 DEF NoRequest, WireType
<1>2. Alone(Now') BY <1>0, FreeSlotType, NowPartsNext DEF Alone
<1>3. Full(Now')
  <2> SUFFICES ASSUME NEW t \in Slots
               PROVE  /\ Cardinality(HoldersIn(Now', t)) <= Now'.ent[t].busy
                      /\ Now'.ent[t].busy <= BusyLimit
    BY DEF Full
  <2>1. HoldersIn(Now', t) = {}
    BY <1>0, NowPartsNext DEF HoldersIn, Holders, Queued
  <2>2. Cardinality(HoldersIn(Now', t)) = 0 BY <2>1, FS_EmptySet
  <2>3. Now'.ent[t].busy = 0 BY <1>0, FreeSlotType, NowPartsNext
  <2> QED BY <2>2, <2>3, ConstantsOK
<1>4. ASSUME NEW j \in Jobs PROVE Placed(Now', wire', j)
  <2>1. row[j].status \in Early => wire'[j].node = 0
    BY <1>1, NowParts DEF Good, Placed
  <2>2. pos'[j] > 0 => row[j].status \in Early BY <1>0 DEF Early
  <2> QED BY <1>0, <2>1, <2>2, NowPartsNext DEF Placed
<1>5. Good' BY <1>2, <1>3, <1>4, GoodNext
<1>6. Tidy => Tidy'
  <2>1. SameIns(Now, Now') BY <1>0, NowParts, NowPartsNext DEF SameIns
  <2> QED BY <1>0, <1>1, <2>1, TidyStep
<1> QED BY <1>5, <1>6 DEF Keeps

---------------------------------------------------------------------------
(* The theorems.                                                           *)

\* Neither counter goes down.
LEMMA BoundsGrow ==
    ASSUME Inv, [Next]_vars
    PROVE  /\ faults' \in Nat /\ faults <= faults' /\ takeovers' \in Nat
           /\ takeovers <= takeovers'
<1>0. faults \in Nat /\ takeovers \in Nat BY DEF Inv, TypeOK
<1>1. faults' \in Nat /\ takeovers' \in Nat
  <2>1. Inv' BY NextInv
  <2> QED BY <2>1 DEF Inv, TypeOK
<1>2. takeovers <= takeovers'
  <2>1. takeovers' = takeovers \/ takeovers' = takeovers + 1
    BY DEF Next, vars, Web, Clc, Connections, WebCreate, WebDelete, WebJob, NodeResponse,
           DispatchBegin, DispatchStep, NodeAuth, OsmAuth, NodeReauth, NodeRegister,
           NodeReport, NodeClose, OsmAdvance, OsmClose, Restart, NodeStep, Elapse, bounds
  <2> QED BY <1>0, <2>1
<1>3. faults <= faults'
  <2>1. CASE Calm BY <2>1 DEF Calm, Counted
  <2>2. CASE Web
    <3>1. faults' = faults \/ Spend(1) BY <2>2 DEF Web, WebCreate, WebDelete, bounds
    <3> QED BY <1>0, <3>1 DEF Spend
  <2>3. CASE Restart BY <1>0, <2>3 DEF Restart
  <2>4. ASSUME NEW j \in Jobs, WebJob(j) PROVE faults <= faults'
    <3>1. j \in note BY <2>4 DEF WebJob
    <3>2. \A F \in SUBSET Replaced(j), C \in SUBSET {j} :
             Cardinality(F) \in Nat /\ Cardinality(C) \in Nat
      <4>1. Replaced(j) \subseteq Jobs BY ReplacedQueued DEF Queue
      <4> QED BY <4>1, JobsFinite
    <3>3. CASE Spend(1) BY <1>0, <3>3 DEF Spend
    <3>4. CASE Refuse(j)
      <4>1. PICK F \in SUBSET Replaced(j), C \in SUBSET {j} :
               Spend(Cardinality(F) + Cardinality(C))
        BY <3>4 DEF Refuse
      <4>2. Cardinality(F) \in Nat /\ Cardinality(C) \in Nat BY <3>2
      <4> QED BY <1>0, <4>1, <4>2 DEF Spend
    <3>5. CASE Insert(j)
      <4>1. PICK F \in SUBSET Replaced(j) : Spend(Cardinality(F)) BY <3>5 DEF Insert
      <4>2. Cardinality(F) \in Nat
        <5>1. {} \in SUBSET {j} OBVIOUS
        <5> QED BY <3>2, <5>1
      <4> QED BY <1>0, <4>1, <4>2 DEF Spend
    <3> QED BY <2>4, <3>3, <3>4, <3>5 DEF WebJob
  <2> QED BY <2>1, <2>2, <2>3, <2>4, NextCalm
<1> QED BY <1>1, <1>2, <1>3

LEMMA NextKeeps ==
    ASSUME Inv, Good, [Next]_vars, faults' = faults, takeovers' = takeovers
    PROVE  Keeps
<1>1. CASE Web
  <2>1. ASSUME NEW j \in Jobs, NEW a \in Actions,
               NEW t \in (IF a \in NodeActions THEN Nodes ELSE Instances),
               WebCreate(j, a, t)
        PROVE  Keeps
    <3>1. a \in AllActions BY ConstantsOK
    <3> QED BY <2>1, <3>1, WebCreateKeeps
  <2>2. ASSUME NEW i \in Instances, WebDelete(i) PROVE Keeps
    BY <2>2, WebDeleteKeeps
  <2> QED BY <1>1, <2>1, <2>2 DEF Web
<1>2. CASE Clc
  <2>1. CASE DispatchBegin
    <3>1. UNCHANGED <<clcVars, vm>> /\ wire' = wire BY <2>1 DEF DispatchBegin
    <3> QED BY <3>1, KeepsIdle
  <2> QED BY <1>2, <2>1, WebJobKeeps, NodeResponseKeeps, DispatchKeeps DEF Clc
<1>3. CASE Connections
  <2>1. PICK t \in Slots :
            \/ \E n \in Nodes : NodeAuth(n, t)
            \/ NodeClose(t)
            \/ \/ \E i \in Instances : OsmAuth(i, t)
               \/ NodeReauth(t) \/ NodeRegister(t) \/ NodeReport(t)
               \/ OsmAdvance(t) \/ OsmClose(t)
    BY <1>3 DEF Connections
  <2> QED BY <2>1, NodeAuthKeeps, NodeCloseKeeps, OthersKeep
<1>4. CASE Restart BY <1>4, RestartKeeps
<1>5. ASSUME NEW j \in Jobs, NodeStep(j) PROVE Keeps BY <1>5, NodeStepKeeps
<1>6. ASSUME NEW j \in Jobs, Elapse(j) PROVE Keeps
  <2>1. UNCHANGED <<clcVars, vm>> /\ wire' = wire BY <1>6 DEF Elapse
  <2> QED BY <2>1, KeepsIdle
<1>7. CASE UNCHANGED vars
  <2>1. UNCHANGED <<clcVars, vm>> /\ wire' = wire BY <1>7 DEF vars, clcVars
  <2> QED BY <2>1, KeepsIdle
<1> QED BY <1>1, <1>2, <1>3, <1>4, <1>5, <1>6, <1>7 DEF Next

LEMMA InitGood == ASSUME Init PROVE Good /\ Tidy
<1>1. Alone(Now) BY FreeSlotType, NowParts DEF Init, Alone
<1>2. Full(Now)
  <2> SUFFICES ASSUME NEW t \in Slots
               PROVE  /\ Cardinality(HoldersIn(Now, t)) <= ent[t].busy
                      /\ ent[t].busy <= BusyLimit
    BY NowParts DEF Full
  <2>1. HoldersIn(Now, t) = {} BY NowParts DEF Init, HoldersIn, Holders, Queued
  <2>2. Cardinality(HoldersIn(Now, t)) = 0 BY <2>1, FS_EmptySet
  <2>3. ent[t].busy = 0 BY FreeSlotType DEF Init
  <2> QED BY <2>2, <2>3, ConstantsOK
<1>3. ASSUME NEW j \in Jobs PROVE Placed(Now, wire, j)
  <2>1. wire[j].node = 0 BY DEF Init, NoRequest
  <2> QED BY <2>1, PlacedNone
<1>4. Tied BY DEF Init, Tied, StartActions
<1>5. Home BY DEF Init, Home
<1> QED BY <1>1, <1>2, <1>3, <1>4, <1>5 DEF Good, Tidy

\* As long as nothing failed, each step keeps the invariant.
LEMMA HealthyStep ==
    ASSUME Inv, Healthy => Good, [Next]_vars, Healthy'
    PROVE  Healthy /\ Good /\ Keeps
<1>1. faults \in Nat /\ takeovers \in Nat BY DEF Inv, TypeOK
<1>2. faults' = 0 /\ takeovers' = 0 BY DEF Healthy
<1>3. faults = 0 /\ takeovers = 0 BY <1>1, <1>2, BoundsGrow
<1>4. Healthy BY <1>3 DEF Healthy
<1> QED BY <1>2, <1>3, <1>4, NextKeeps

\* Until then every request of a queued start job is accounted for: its job runs
\* and holds the one entity of that node, whose counter (ins_job_busy_nr) counts
\* every job that holds it and is within the limit; a job whose row still says
\* that it waits has no request, so a restart loads none that was sent.
THEOREM RequestsAreHeld == Spec => [](Healthy => Good)
<1>1. Init => (Healthy => Good) BY InitGood
<1>2. Inv /\ (Healthy => Good) /\ [Next]_vars => (Healthy => Good)'
  BY HealthyStep DEF Keeps
<1> QED BY <1>1, <1>2, Invariance, PTL DEF Spec

\* The start jobs that a node works on hold the one entity of the node.
LEMMA StartsHold ==
    ASSUME Inv, Good
    PROVE  StartLimit
<1> SUFFICES ASSUME NEW n \in Nodes PROVE Cardinality(StartsOn(n)) <= BusyLimit
  BY DEF StartLimit
<1>0. n # 0 /\ Now \in StateType /\ BusyLimit \in Nat
  BY ConstantsOK DEF Inv, StateOK
<1>1. \A j \in StartsOn(n) :
         /\ j \in Queued(Now) /\ mem[j].pend = 0 /\ mem[j].ent \in Slots
         /\ ent[mem[j].ent].type = "node" /\ ent[mem[j].ent].db = n
  BY <1>0, NowParts DEF StartsOn, Good, Placed, Queue
<1>2. CASE StartsOn(n) = {}
  <2>1. Cardinality(StartsOn(n)) = 0 BY <1>2, FS_EmptySet
  <2> QED BY <1>0, <2>1
<1>3. CASE StartsOn(n) # {}
  <2>1. PICK k \in StartsOn(n) : TRUE BY <1>3
  <2> DEFINE t == mem[k].ent
  <2>2. t \in Slots BY <1>1
  <2>3. \A j \in StartsOn(n) : mem[j].ent = t
    BY <1>1, NowParts DEF Good, Alone
  <2>4. StartsOn(n) \subseteq HoldersIn(Now, t)
    BY <1>1, <2>3, NowParts DEF HoldersIn, Holders
  <2> HIDE DEF t
  <2>5. /\ IsFiniteSet(HoldersIn(Now, t)) /\ Cardinality(HoldersIn(Now, t)) \in Nat
    BY <1>0, Parts, JobsFinite
  <2>6. /\ Cardinality(StartsOn(n)) <= Cardinality(HoldersIn(Now, t))
        /\ Cardinality(StartsOn(n)) \in Nat
    <3>1. IsFiniteSet(StartsOn(n)) BY <2>4, <2>5, FS_Subset
    <3> QED BY <2>4, <2>5, <3>1, FS_Subset, FS_CardinalityType
  <2>7. /\ Cardinality(HoldersIn(Now, t)) <= ent[t].busy /\ ent[t].busy <= BusyLimit
        /\ ent[t].busy \in Nat
    BY <1>0, <2>2, Parts, NowParts DEF Good, Full
  <2> QED BY <1>0, <2>5, <2>6, <2>7
<1> QED BY <1>2, <1>3

\* However jobs, answers, timeouts, cancellations, lost connections and restarts
\* of lyclc interleave, no node is given more start jobs at a time than
\* LYCLC_JOB_INSTANCE_BUSY_LIMIT, until a statement or send fails or a node
\* connects again while lyclc still has its older entity (node_schedule,
\* job_busy_remove).
THEOREM StartsAreLimited == Spec => [](faults = 0 /\ takeovers = 0 => StartLimit)
<1>1. Inv /\ (Healthy => Good) => (faults = 0 /\ takeovers = 0 => StartLimit)
  BY StartsHold DEF Healthy
<1> QED BY <1>1, Invariance, RequestsAreHeld, PTL

\* With NODE_SELECT_LAST_ONLY an instance that is not deleted has its machine and
\* every request to start it on the node of its row, so never on two nodes,
\* until a statement or send fails or a node connects again while lyclc still has
\* its older entity.  Either leaves a job in the queue with the number of a
\* released entity, which the next node may get; the answer to that job then
\* writes the wrong node into the row (job_update_status).
THEOREM MachinesAreSingle ==
    ASSUME NodeSelect = "LAST_ONLY"
    PROVE  Spec => [](faults = 0 /\ takeovers = 0 => OneVm)
<1> DEFINE TidyInv == Healthy => Good /\ Tidy
<1>1. Init => TidyInv BY InitGood
<1>2. Inv /\ TidyInv /\ [Next]_vars => TidyInv'
  <2> SUFFICES ASSUME Inv, TidyInv, [Next]_vars, Healthy'
               PROVE  Good' /\ Tidy'
    OBVIOUS
  <2>1. Healthy /\ Good /\ Keeps BY HealthyStep
  <2> QED BY <2>1 DEF Keeps
<1>3. Inv /\ TidyInv => (faults = 0 /\ takeovers = 0 => OneVm)
  <2> SUFFICES ASSUME Home, NEW i \in Instances, ins[i].life = "LIVE"
               PROVE  Cardinality(vm[i]) <= 1
    BY DEF Healthy, Tidy, OneVm
  <2>1. vm[i] = {} \/ vm[i] = {ins[i].node} BY DEF Home
  <2>2. Cardinality({}) = 0 /\ Cardinality({ins[i].node}) = 1 BY FS_EmptySet, FS_Singleton
  <2> QED BY <2>1, <2>2
<1> QED BY <1>1, <1>2, <1>3, Invariance, PTL DEF Spec

===============================================================================
