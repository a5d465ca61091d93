--------------------------- MODULE ClcTablesProofs ---------------------------
(***************************************************************************)
(* What the tables and the queue of lyclc promise over several steps: no   *)
(* job is forgotten, the jobs of a target stand in an order job_check      *)
(* allows, and the job and instance tables change only as JobTable says.   *)
(* A step is calm (ClcJobsProofs), or it is one of the web application, of *)
(* a notification, or a restart: each proof goes through these four.       *)
(***************************************************************************)
EXTENDS ClcJobsProofs

---------------------------------------------------------------------------
(* __process_web_job, as far as the proofs below look at it.               *)

\* The queue as job_check leaves it, when the rows of F cannot be written, is
\* what the step finds for every job but j.
Around(j, F) ==
    LET s == Checked(j, F)
    IN  /\ StateOK(s) /\ Tame(Now, s, None)
        /\ F \subseteq Replaced(j)
        /\ faults' \in Nat /\ faults <= faults'
        /\ faults' = faults => F = {}
        /\ ins' = s.ins
        /\ \A k \in Jobs \ {j} : /\ pos'[k] = s.pos[k] /\ row'[k] = s.row[k]
                                 /\ mem'[k].status = s.mem[k].status

\* A refused job: only a failed write keeps its row from being cancelled.
LEMMA RefuseAround ==
    ASSUME Inv, NEW j \in note, Refuse(j)
    PROVE  \E F : /\ Around(j, F)
                  /\ pos'[j] = 0
                  /\ row'[j].action = row[j].action /\ row'[j].target = row[j].target
                  /\ row'[j].status \in {"INITIATED", "CANCELLED"}
                  /\ faults' = faults => row'[j].status = "CANCELLED"
<1>1. PICK F \in SUBSET Replaced(j), C \in SUBSET {j} :
         /\ Spend(Cardinality(F) + Cardinality(C))
         /\ Become(SetStatus(Checked(j, F), {}, {j} \ C, "CANCELLED"))
  BY DEF Refuse
<1> DEFINE s == Checked(j, F)
           v == SetStatus(s, {}, {j} \ C, "CANCELLED")
<1>2. /\ StateOK(s) /\ Tame(Now, s, None) BY CheckedOK
<1>3. j \in Jobs /\ pos[j] = 0 /\ row[j].status = "INITIATED"
  BY DEF Inv, NoteOK, TypeOK
<1>4. s \in StateType /\ "CANCELLED" \in Statuses
  BY <1>2 DEF StateOK, Statuses, Ended
<1>5. s.pos[j] = 0 /\ s.row[j] = row[j] BY <1>2, <1>3, NowParts DEF Tame, TameJobs
<1>6. /\ faults' \in Nat /\ faults <= faults'
      /\ faults' = faults => F = {} /\ C = {}
  <2>1. F \subseteq Jobs /\ C \subseteq Jobs BY <1>3, ReplacedQueued DEF Queue
  <2>2. /\ Cardinality(F) \in Nat /\ IsFiniteSet(F)
        /\ Cardinality(C) \in Nat /\ IsFiniteSet(C)
    BY <2>1, JobsFinite
  <2>3. /\ Cardinality(F) = 0 => F = {}
        /\ Cardinality(C) = 0 => C = {}
    BY <2>2, FS_EmptySet
  <2>4. faults \in Nat BY DEF Inv, TypeOK
  <2> QED BY <1>1, <2>2, <2>3, <2>4 DEF Spend
<1> HIDE DEF s
<1>7. /\ v \in StateType
      /\ v.pos = s.pos /\ v.ent = s.ent /\ v.ins = s.ins
      /\ \A k \in Jobs :
           /\ v.mem[k].status = s.mem[k].status
           /\ v.row[k].action = s.row[k].action
           /\ v.row[k].target = s.row[k].target
           /\ v.row[k].status = IF k \in {j} \ C THEN "CANCELLED" ELSE s.row[k].status
           /\ k \notin {j} \ C => v.row[k] = s.row[k]
  BY <1>4, SetStatusParts
<1>8. Now' = v BY <1>1, <1>7, BecomeNow DEF s
<1> HIDE DEF v
<1>9. /\ Now'.pos = pos' /\ Now'.mem = mem' /\ Now'.row = row' /\ Now'.ins = ins'
  BY DEF Now
<1>10. Around(j, F)
  BY <1>2, <1>6, <1>7, <1>8, <1>9 DEF Around, s
<1>11. /\ pos'[j] = 0
       /\ row'[j].action = row[j].action /\ row'[j].target = row[j].target
       /\ row'[j].status = IF j \in C THEN "INITIATED" ELSE "CANCELLED"
  BY <1>3, <1>5, <1>7, <1>8, <1>9
<1> QED BY <1>6, <1>10, <1>11

\* A job that nothing in the queue blocks is appended as the web wrote it.
LEMMA InsertAround ==
    ASSUME Inv, NEW j \in note, Insert(j)
    PROVE  \E F : /\ Around(j, F) /\ Blockers(j) = {}
                  /\ pos'[j] = Place /\ row'[j] = row[j] /\ mem'[j] = Blank
<1>1. PICK F \in SUBSET Replaced(j) :
         /\ Spend(Cardinality(F))
         /\ Become([Checked(j, F) EXCEPT !.pos[j] = Place, !.mem[j] = Blank])
  BY DEF Insert
<1> DEFINE s == Checked(j, F)
           v == [s EXCEPT !.pos[j] = Place, !.mem[j] = Blank]
<1>2. /\ StateOK(s) /\ Tame(Now, s, None) BY CheckedOK
<1>3. j \in Jobs BY DEF Inv, TypeOK
<1>4. s \in StateType /\ Place \in Nat \ {0}
  BY <1>2 DEF StateOK, Place, Inv, TypeOK
<1>5. /\ faults' \in Nat /\ faults <= faults'
      /\ faults' = faults => F = {}
  <2>1. F \subseteq Jobs /\ faults \in Nat BY ReplacedQueued DEF Queue, Inv, TypeOK
  <2> QED BY <1>1, <2>1, FailsCounted
<1> HIDE DEF s
<1>6. /\ v \in StateType
      /\ v.pos = [s.pos EXCEPT ![j] = Place] /\ v.mem = [s.mem EXCEPT ![j] = Blank]
      /\ v.row = s.row /\ v.ins = s.ins
  BY <1>3, <1>4, BlankType DEF StateType
<1>7. Now' = v BY <1>1, <1>6, BecomeNow DEF s
<1> HIDE DEF v
<1>8. \A k \in Jobs \ {j} : v.pos[k] = s.pos[k] /\ v.mem[k] = s.mem[k]
  BY <1>3, <1>4, <1>6, Parts
<1>9. /\ Now'.pos = pos' /\ Now'.mem = mem' /\ Now'.row = row' /\ Now'.ins = ins'
  BY DEF Now
<1>10. Around(j, F)
  BY <1>2, <1>5, <1>6, <1>7, <1>8, <1>9 DEF Around, s
<1> QED BY <1>10, InsertOK DEF Insert

---------------------------------------------------------------------------
(* No job is forgotten.                                                    *)

\* Without a failure a handler leaves no job behind.
LEMMA CalmForgets ==
    ASSUME Inv, NoJobForgotten, Calm
    PROVE  NoJobForgotten'
<1> SUFFICES ASSUME faults' = 0, restarts' = 0, NEW j \in Jobs
             PROVE  /\ row'[j].status \notin Ended \cup {"NONE"} => j \in note' \cup Queue'
                    /\ j \in Queue' => row'[j].status = mem'[j].status
  BY DEF NoJobForgotten
<1>1. faults = 0 /\ restarts = 0 /\ note' = note /\ Lag(Now') \subseteq Lag(Now)
  BY DEF Calm, Counted, Inv, TypeOK
<1>2. /\ row[j].status \notin Ended \cup {"NONE"} => j \in note \cup Queue
      /\ \A k \in Queue : row[k].status = mem[k].status
  BY <1>1 DEF NoJobForgotten, Queue
<1>3. PICK k \in Jobs \cup {None} : Tame(Now, Now', k) BY DEF Calm
<1>4. /\ Now'.pos = pos' /\ Now'.mem = mem' /\ Now'.row = row' BY DEF Now
<1>5. /\ pos'[j] \in {0, pos[j]}
      /\ pos[j] = 0 => row'[j] = row[j]
      /\ pos[j] > 0 /\ pos'[j] = 0 => row'[j].status \in Ended
  BY <1>3, <1>4, NowParts DEF Tame, TameJobs
<1>6. Lag(Now) = {} BY <1>2, NowParts DEF Lag, Queue
<1>7. j \in Queue' => row'[j].status = mem'[j].status
  BY <1>1, <1>4, <1>6 DEF Lag, Queue
<1>8. pos[j] \in Nat BY DEF Inv, TypeOK
<1> QED BY <1>1, <1>2, <1>5, <1>7, <1>8 DEF Queue

\* The job of a notification is refused or queued, and what job_check cancels
\* for it is over.
LEMMA WebJobForgets ==
    ASSUME Inv, NoJobForgotten, NEW j \in Jobs, WebJob(j)
    PROVE  NoJobForgotten'
<1> SUFFICES ASSUME faults' = 0, restarts' = 0, NEW k \in Jobs
             PROVE  /\ row'[k].status \notin Ended \cup {"NONE"} => k \in note' \cup Queue'
                    /\ k \in Queue' => row'[k].status = mem'[k].status
  BY DEF NoJobForgotten
<1>0. /\ j \in note /\ note' = note \ {j} /\ restarts = 0 /\ faults \in Nat
  BY DEF WebJob, Inv, TypeOK
\* jobs other than j
<1>1. ASSUME NEW F, Around(j, F), k # j
      PROVE  /\ row'[k].status \notin Ended \cup {"NONE"} => k \in note' \cup Queue'
             /\ k \in Queue' => row'[k].status = mem'[k].status
  <2> DEFINE s == Checked(j, F)
  <2>1. /\ faults = 0 /\ F = {} /\ Tame(Now, s, None)
        /\ pos'[k] = s.pos[k] /\ row'[k] = s.row[k] /\ mem'[k].status = s.mem[k].status
    BY <1>0, <1>1 DEF Around
  <2>2. Lag(s) \subseteq Lag(Now)
    <3>1. Replaced(j) \subseteq Queued(Now) BY ReplacedQueued, NowParts
    <3>2. "CANCELLED" \in Ended BY DEF Ended
    <3> QED BY <2>1, <3>1, <3>2, JobUpdateAllOK DEF Inv, Checked
  <2> HIDE DEF s
  <2>3. /\ row[k].status \notin Ended \cup {"NONE"} => k \in note \cup Queue
        /\ \A x \in Queue : row[x].status = mem[x].status
    BY <2>1, <1>0 DEF NoJobForgotten, Queue
  <2>4. /\ s.pos[k] \in {0, pos[k]}
        /\ pos[k] = 0 => s.row[k] = row[k]
        /\ pos[k] > 0 /\ s.pos[k] = 0 => s.row[k].status \in Ended
    BY <2>1, NowParts DEF Tame, TameJobs
  <2>5. Lag(Now) = {} BY <2>3, NowParts DEF Lag, Queue
  <2>6. s.pos[k] > 0 => s.row[k].status = s.mem[k].status
    BY <2>2, <2>5 DEF Lag
  <2>7. pos[k] \in Nat BY DEF Inv, TypeOK
  <2> QED BY <1>0, <1>1, <2>1, <2>3, <2>4, <2>6, <2>7 DEF Queue
<1>2. CASE Spend(1) BY <1>2, <1>0 DEF Spend
<1>3. CASE Refuse(j)
  <2>1. PICK F : /\ Around(j, F)
                 /\ pos'[j] = 0
                 /\ faults' = faults => row'[j].status = "CANCELLED"
    BY <1>0, <1>3, RefuseAround
  <2>2. faults' = faults BY <2>1, <1>0 DEF Around
  <2> QED BY <1>1, <2>1, <2>2 DEF Queue, Ended
<1>4. CASE Insert(j)
  <2>1. PICK F : /\ Around(j, F)
                 /\ pos'[j] = Place /\ row'[j] = row[j] /\ mem'[j] = Blank
    BY <1>0, <1>4, InsertAround
  <2>2. row[j].status = "INITIATED" /\ Blank.status = "INITIATED"
    BY <1>0 DEF Inv, NoteOK, Blank
  <2>3. Place > 0 BY DEF Place, Inv, TypeOK
  <2> QED BY <1>1, <2>1, <2>2, <2>3 DEF Queue
<1> QED BY <1>2, <1>3, <1>4 DEF WebJob

\* A new row comes with its notification, or says that there was none.
LEMMA WebForgets ==
    ASSUME Inv, NoJobForgotten, Web
    PROVE  NoJobForgotten'
<1>1. ASSUME NEW j \in Jobs, NEW a, NEW t, WebCreate(j, a, t)
      PROVE  NoJobForgotten'
  <2>1. /\ row[j].status = "NONE" /\ row \in [Jobs -> RowType]
        /\ UNCHANGED <<pos, mem, restarts>> /\ faults \in Nat
    BY <1>1 DEF WebCreate, Inv, TypeOK
  <2>2. /\ \A k \in Jobs \ {j} : row'[k] = row[k]
        /\ note \subseteq note'
        /\ \/ row'[j].status = "INITIATED" /\ j \in note' /\ faults' = faults
           \/ row'[j].status = "FAILURE" /\ faults' = faults + 1
    BY <1>1, <2>1 DEF WebCreate, Spend
  <2>3. pos[j] = 0 BY <2>1, NowParts DEF Inv, StateOK, OverIsOut
  <2> QED BY <2>1, <2>2, <2>3 DEF NoJobForgotten, Queue
<1>2. ASSUME NEW i \in Instances, WebDelete(i)
      PROVE  NoJobForgotten'
  BY <1>2 DEF WebDelete, bounds, NoJobForgotten, Queue
<1> QED BY <1>1, <1>2 DEF Web

\* Without a restart and a failed statement every job that is not over is on its
\* way to lyclc or in g_job_list, and the status in memory is the one of its row.
THEOREM NoneForgotten == Spec => []NoJobForgotten
<1>1. Init => NoJobForgotten BY DEF Init, NoJobForgotten, Queue
<1>2. Inv /\ NoJobForgotten /\ [Next]_vars => NoJobForgotten'
  <2> SUFFICES ASSUME Inv, NoJobForgotten, [Next]_vars PROVE NoJobForgotten'
    OBVIOUS
  <2>1. CASE Restart BY <2>1 DEF Restart, Inv, TypeOK, NoJobForgotten
  <2> QED BY <2>1, NextCalm, CalmForgets, WebForgets, WebJobForgets
<1> QED BY <1>1, <1>2, Invariance, PTL DEF Spec
---------------------------------------------------------------------------
(* The jobs of a target stand in an order that job_check allows.           *)

\* A row that a user created names an action.
Named == \A j \in Jobs : row[j].status # "NONE" => row[j].action \in AllActions

\* job_check: what it lets stay before the new job j may precede it.
LEMMA CheckAllows ==
    ASSUME NEW j, row[j].action \in AllActions, Blockers(j) = {},
           NEW k \in OnTarget(j) \ Replaced(j), row[k].action \in AllActions
    PROVE  row[k].action \in MayPrecede(row[j].action)
<1> DEFINE a == row[j].action
           b == row[k].action
           K == OnTarget(j)
<1>0. k \in K /\ (b \in NodeActions <=> a \in NodeActions) BY DEF OnTarget
<1>1. CASE a \in Queries \cup {"CONFIG"}
  BY <1>1 DEF MayPrecede, Queries
<1>2. CASE a \notin Queries
  <2>1. With({"DESTROY"}, K) = {} /\ b # "DESTROY"
    BY <1>0, <1>2 DEF Blockers, With
  <2>2. CASE a = "RUN"
    <3>1. K \ With({"QUERY"}, K) = {}
      BY <2>2, <1>2 DEF Blockers
    <3>2. b = "QUERY" BY <3>1, <1>0 DEF With
    <3> QED BY <2>2, <3>2 DEF MayPrecede, Queries
  <2>3. CASE a \in {"STOP", "SUSPEND", "ACPIREBOOT", "SAVE"}
    <3>1. Replaced(j) = {x \in K \ With({"QUERY"}, K) : \A c \in Blockers(j) : pos[x] < pos[c]}
      BY <2>1, <2>3 DEF Replaced
    <3>2. b = "QUERY" BY <3>1, <1>0 DEF With
    <3> QED BY <2>3, <3>2 DEF MayPrecede, Queries
  <2>4. CASE a = "DESTROY"
    <3>1. Replaced(j) = K \ With({"STOP"}, K) BY <2>1, <2>4 DEF Replaced
    <3>2. b = "STOP" BY <3>1, <1>0 DEF With
    <3> QED BY <2>4, <3>2 DEF MayPrecede, Queries
  <2>5. CASE a = "FULLREBOOT"
    <3>1. With({"FULLREBOOT"}, K) = {} BY <2>5, <1>2 DEF Blockers
    <3>2. b # "FULLREBOOT" BY <3>1, <1>0 DEF With
    <3> QED BY <2>1, <2>5, <3>2 DEF MayPrecede, Queries
  <2>6. CASE a \in {"ENABLE", "DISABLE"}
    <3>1. With({"ENABLE", "DISABLE"}, K) = {} BY <2>6, <1>2 DEF Blockers
    <3>2. b \notin {"ENABLE", "DISABLE"} BY <3>1, <1>0 DEF With
    <3>3. b \in NodeActions BY <2>6, <1>0 DEF NodeActions
    <3> QED BY <2>6, <3>2, <3>3 DEF MayPrecede, Queries, NodeActions
  <2> QED BY <1>1, <1>2, <2>2, <2>3, <2>4, <2>5, <2>6
     DEF AllActions, StartActions, SimpleActions, NodeActions, Queries
<1> QED BY <1>1, <1>2

\* A step after which the queue holds jobs it held before, in their places, keeps
\* the discipline.
LEMMA FewerJobs ==
    ASSUME TargetDiscipline, faults' = 0 => faults = 0, restarts' = 0 => restarts = 0,
           NEW Q, Q \subseteq Queue,
           \A k \in Q : /\ pos'[k] = pos[k]
                        /\ row'[k].action = row[k].action /\ row'[k].target = row[k].target
    PROVE  faults' = 0 /\ restarts' = 0 =>
             \A j, k \in Q :
                /\ row'[k].target = row'[j].target
                /\ row'[k].action \in NodeActions <=> row'[j].action \in NodeActions
                /\ pos'[k] < pos'[j]
                => row'[k].action \in MayPrecede(row'[j].action)
BY DEF TargetDiscipline, OnTarget

\* The discipline, written out.
LEMMA DisciplineOf ==
    ASSUME faults' = 0 /\ restarts' = 0 =>
             \A j, k \in Queue' :
                /\ row'[k].target = row'[j].target
                /\ row'[k].action \in NodeActions <=> row'[j].action \in NodeActions
                /\ pos'[k] < pos'[j]
                => row'[k].action \in MayPrecede(row'[j].action)
    PROVE  TargetDiscipline'
BY DEF TargetDiscipline, OnTarget

\* Handlers only take jobs off the queue.
LEMMA CalmDiscipline ==
    ASSUME Inv, Named, TargetDiscipline, Calm
    PROVE  Named' /\ TargetDiscipline'
<1>1. PICK x \in Jobs \cup {None} : Tame(Now, Now', x) BY DEF Calm
<1>2. /\ Now'.pos = pos' /\ Now'.mem = mem' /\ Now'.row = row' BY DEF Now
<1>3. \A k \in Jobs : /\ pos'[k] \in {0, pos[k]}
                      /\ row'[k].action = row[k].action
                      /\ row'[k].target = row[k].target
                      /\ pos[k] = 0 => row'[k] = row[k]
  BY <1>1, <1>2, NowParts DEF Tame, TameJobs
<1>4. \A k \in Jobs : row[k].status = "NONE" => pos[k] = 0
  BY NowParts DEF Inv, StateOK, OverIsOut
<1>5. Named' BY <1>3, <1>4 DEF Named
<1>6. Queue' \subseteq Queue /\ \A k \in Queue' : pos'[k] = pos[k]
  BY <1>3 DEF Queue, Inv, TypeOK
<1>7. faults' = 0 => faults = 0 BY DEF Calm, Counted, Inv, TypeOK
<1>8. restarts' = restarts BY DEF Calm
<1>9. \A k \in Queue' : row'[k].action = row[k].action /\ row'[k].target = row[k].target
  BY <1>3 DEF Queue
<1> QED BY <1>5, <1>6, <1>7, <1>8, <1>9, FewerJobs, DisciplineOf

\* The web application touches no row of a queued job.
LEMMA WebDiscipline ==
    ASSUME Inv, Named, TargetDiscipline, Web
    PROVE  Named' /\ TargetDiscipline'
<1>1. ASSUME NEW j \in Jobs, NEW a \in Actions, NEW t, WebCreate(j, a, t)
      PROVE  Named' /\ TargetDiscipline'
  <2>1. /\ row[j].status = "NONE" /\ row \in [Jobs -> RowType] /\ a \in AllActions
        /\ UNCHANGED <<pos, restarts>> /\ faults \in Nat
    BY <1>1, ConstantsOK DEF WebCreate, Inv, TypeOK
  <2>2. /\ \A k \in Jobs \ {j} : row'[k] = row[k]
        /\ row'[j].action = a
        /\ faults' = 0 => faults = 0
    BY <1>1, <2>1 DEF WebCreate, Spend
  <2>3. pos[j] = 0 BY <2>1, NowParts DEF Inv, StateOK, OverIsOut
  <2>4. Named' BY <2>1, <2>2 DEF Named
  <2>5. Queue' = Queue /\ \A k \in Queue : pos'[k] = pos[k] /\ row'[k] = row[k]
    BY <2>1, <2>2, <2>3 DEF Queue
  <2> QED BY <2>1, <2>2, <2>4, <2>5, FewerJobs, DisciplineOf
<1>2. ASSUME NEW i \in Instances, WebDelete(i)
      PROVE  Named' /\ TargetDiscipline'
  BY <1>2 DEF WebDelete, bounds, Named, TargetDiscipline, OnTarget, Queue
<1> QED BY <1>1, <1>2 DEF Web

\* A new job goes behind jobs that may precede it.
LEMMA WebJobDiscipline ==
    ASSUME Inv, Named, TargetDiscipline, NEW j \in Jobs, WebJob(j)
    PROVE  Named' /\ TargetDiscipline'
<1>0. /\ j \in note /\ pos[j] = 0 /\ row[j].status = "INITIATED" /\ restarts' = restarts
      /\ faults \in Nat /\ pos \in [Jobs -> Nat]
  BY DEF WebJob, Inv, NoteOK, TypeOK
<1>1. \A k \in Jobs : row[k].status = "NONE" => pos[k] = 0
  BY NowParts DEF Inv, StateOK, OverIsOut
\* jobs other than j
<1>2. ASSUME NEW F, Around(j, F)
      PROVE  /\ faults' = 0 => faults = 0 /\ F = {}
             /\ \A k \in Jobs \ {j} :
                  /\ row'[k].action = row[k].action /\ row'[k].target = row[k].target
                  /\ row'[k].status # "NONE" => row[k].status # "NONE"
                  /\ pos'[k] \in {0, pos[k]}
                  /\ F = {} /\ k \in Replaced(j) => pos'[k] = 0
  <2> DEFINE s == Checked(j, F)
  <2>1. /\ Tame(Now, s, None) /\ (faults' = 0 => faults = 0 /\ F = {})
        /\ \A k \in Jobs \ {j} : pos'[k] = s.pos[k] /\ row'[k] = s.row[k]
    BY <1>0, <1>2 DEF Around
  <2>2. F = {} => \A k \in Jobs : k \in Replaced(j) => s.pos[k] = 0
    BY DEF Checked, JobUpdateAll, JobsOver
  <2> HIDE DEF s
  <2> QED BY <2>1, <2>2, <1>1, NowParts DEF Tame, TameJobs
<1>3. CASE Spend(1) /\ UNCHANGED <<clcVars, tail>>
  <2>1. Named' BY <1>3 DEF Named, clcVars
  <2>2. faults' # 0 BY <1>3, <1>0 DEF Spend
  <2> QED BY <2>1, <2>2 DEF TargetDiscipline
<1>4. CASE Refuse(j)
  <2>1. PICK F : /\ Around(j, F) /\ pos'[j] = 0
                 /\ row'[j].action = row[j].action
    BY <1>0, <1>4, RefuseAround
  <2>2. Named' BY <2>1, <1>0, <1>2 DEF Named
  <2>3. Queue' \subseteq Queue /\ j \notin Queue'
        /\ \A k \in Queue' : /\ pos'[k] = pos[k]
                             /\ row'[k].action = row[k].action
                             /\ row'[k].target = row[k].target
    BY <2>1, <1>0, <1>2 DEF Queue
  <2> QED BY <1>0, <1>2, <2>1, <2>2, <2>3, FewerJobs, DisciplineOf
<1>5. CASE Insert(j)
  <2>1. PICK F : /\ Around(j, F) /\ Blockers(j) = {}
                 /\ pos'[j] = Place /\ row'[j] = row[j]
    BY <1>0, <1>5, InsertAround
  <2>2. Named' BY <2>1, <1>0, <1>2 DEF Named
  <2> DEFINE Q == Queue' \ {j}
  <2>3. /\ Q \subseteq Queue
        /\ \A k \in Q : /\ pos'[k] = pos[k]
                        /\ row'[k].action = row[k].action
                        /\ row'[k].target = row[k].target
    BY <2>1, <1>0, <1>2 DEF Queue
  <2>4. \A k \in Queue : pos[k] < Place
    BY <1>0 DEF Place, Inv, TypeOK, OrderOK, Queue
  <2> SUFFICES ASSUME faults' = 0, restarts' = 0, NEW x \in Queue', NEW k \in Queue',
                      row'[k].target = row'[x].target,
                      row'[k].action \in NodeActions <=> row'[x].action \in NodeActions,
                      pos'[k] < pos'[x]
               PROVE  row'[k].action \in MayPrecede(row'[x].action)
    BY <2>2, DisciplineOf
  <2>5. CASE x # j /\ k # j
    <3>1. faults = 0 BY <2>1, <1>2
    <3> HIDE DEF Q
    <3>2. x \in Q /\ k \in Q BY <2>5 DEF Q
    <3> QED BY <1>0, <2>3, <3>1, <3>2, FewerJobs
  <2>6. CASE k = j /\ x # j
    <3>1. pos'[x] < Place BY <2>3, <2>4, <2>6
    <3>2. pos'[x] \in Nat /\ Place \in Nat
      BY <2>3, <2>6, <1>0 DEF Queue, Place, Inv, TypeOK
    <3> QED BY <2>1, <2>6, <3>1, <3>2
  <2>7. CASE x = j /\ k # j
    <3>1. k \in Queue /\ k \in Jobs /\ k \notin Replaced(j)
      BY <2>1, <2>3, <2>7, <1>2 DEF Queue
    <3>2. k \in OnTarget(j) \ Replaced(j)
      BY <2>1, <2>3, <2>7, <3>1 DEF OnTarget
    <3>3. row[k].action \in AllActions /\ row[j].action \in AllActions
      BY <3>1, <1>0, <1>1 DEF Named, Queue
    <3>4. row[k].action \in MayPrecede(row[j].action)
      BY <2>1, <3>2, <3>3, CheckAllows
    <3> QED BY <2>1, <2>3, <2>7, <3>4
  <2>8. CASE x = j /\ k = j BY <2>8, <2>1, <1>0 DEF Place, Inv, TypeOK
  <2> QED BY <2>5, <2>6, <2>7, <2>8
<1> QED BY <1>3, <1>4, <1>5 DEF WebJob

\* Without a restart and a failed statement no job stands in the queue before
\* one that job_check would not have let follow it.
THEOREM QueueIsDisciplined == Spec => []TargetDiscipline
<1>1. Init => Named /\ TargetDiscipline BY DEF Init, Named, TargetDiscipline, Queue
<1>2. Inv /\ Named /\ TargetDiscipline /\ [Next]_vars => Named' /\ TargetDiscipline'
  <2> SUFFICES ASSUME Inv, Named, TargetDiscipline, [Next]_vars
               PROVE  Named' /\ TargetDiscipline'
    OBVIOUS
  <2>1. CASE Restart
    BY <2>1 DEF Restart, Inv, TypeOK, Named, TargetDiscipline
  <2> QED BY <2>1, NextCalm, CalmDiscipline, WebDiscipline, WebJobDiscipline
<1> QED BY <1>1, <1>2, Invariance, PTL DEF Spec
---------------------------------------------------------------------------
(* lyclc and the web application implement JobTable.                       *)

\* Rows that change only by ending, and instances that go only with the job that
\* destroys them, are a step of the tables.
LEMMA EndStep ==
    ASSUME \A j \in Jobs :
              /\ row'[j].action = row[j].action /\ row'[j].target = row[j].target
              /\ row'[j].status = "NONE" <=> row[j].status = "NONE"
              /\ row[j].status \in Ended => row'[j].status = row[j].status,
           \A i \in Instances :
              \/ ins'[i].life = ins[i].life
              \/ /\ ins[i].life = "DELETE" /\ ins'[i].life = "GONE"
                 /\ \E j \in Jobs : /\ row[j].status \notin Ended \cup {"NONE"}
                                    /\ row[j].action = "DESTROY" /\ row[j].target = i
                                    /\ row'[j].status = "SUCCESS"
    PROVE  Table!TableNext
<1> DEFINE Job == [j \in Jobs |->
                     [action |-> row[j].action, target |-> row[j].target,
                      state |-> IF row[j].status = "NONE" THEN "none"
                                ELSE IF row[j].status \in Ended THEN row[j].status
                                ELSE "open"]]
<1>0. PICK S, G, status :
         /\ S = {j \in Jobs : /\ row[j].status \notin Ended \cup {"NONE"}
                              /\ row'[j].status \in Ended}
         /\ G = {i \in Instances : ins'[i].life # ins[i].life}
         /\ status = [j \in S |-> row'[j].status]
  OBVIOUS
<1> DEFINE After == [j \in Jobs |->
                       IF j \in S THEN [Job[j] EXCEPT !.state = status[j]]
                       ELSE Job[j]]
<1>1. S \in SUBSET Table!Opened
  <2> SUFFICES ASSUME NEW j \in S PROVE j \in Table!Opened OBVIOUS
  <2> QED BY <1>0 DEF Table!Opened
<1>2. G \in SUBSET Instances /\ status \in [S -> Ended] BY <1>0
<1>3. ASSUME NEW i \in G
      PROVE  /\ ins[i].life = "DELETE"
             /\ \E j \in S \cap Table!On(i) : /\ row[j].action = "DESTROY"
                                              /\ status[j] = "SUCCESS"
  <2>1. ins[i].life = "DELETE" BY <1>0, <1>3
  <2>2. PICK j \in Jobs : /\ row[j].status \notin Ended \cup {"NONE"}
                          /\ row[j].action = "DESTROY" /\ row[j].target = i
                          /\ row'[j].status = "SUCCESS"
    BY <1>0, <1>3
  <2>3. j \in S BY <1>0, <2>2 DEF Ended
  <2>4. j \in Table!On(i) BY <2>2 DEF Table!On, NodeActions
  <2> QED BY <1>0, <2>1, <2>2, <2>3, <2>4
<1>4. Job' = After
  <2>1. ASSUME NEW j \in Jobs PROVE Job'[j] = After[j]
    <3>1. CASE j \in S
      <4>1. /\ row'[j].status # "NONE" /\ row'[j].status \in Ended
            /\ status[j] = row'[j].status
        BY <1>0, <3>1 DEF Ended
      <4>2. Job'[j] = [action |-> row[j].action, target |-> row[j].target,
                       state |-> row'[j].status]
        BY <4>1
      <4>3. After[j] = [action |-> row[j].action, target |-> row[j].target,
                        state |-> row'[j].status]
        BY <3>1, <4>1
      <4> QED BY <4>2, <4>3
    <3>2. CASE j \notin S BY <1>0, <3>2
    <3> QED BY <3>1, <3>2
  <2>2. Job' = [j \in Jobs |-> Job'[j]] /\ After = [j \in Jobs |-> After[j]]
    OBVIOUS
  <2> HIDE DEF Job, After
  <2> QED BY <2>1, <2>2
<1>5. [i \in Instances |-> ins'[i].life]
        = [i \in Instances |-> IF i \in G THEN "GONE"
                               ELSE [k \in Instances |-> ins[k].life][i]]
  BY <1>0
<1>6. \A i \in G : /\ [k \in Instances |-> ins[k].life][i] = "DELETE"
                   /\ \E j \in S \cap Table!On(i) : /\ Job[j].action = "DESTROY"
                                                    /\ status[j] = "SUCCESS"
  BY <1>0, <1>3
<1>7. Table!End(S, status, G) BY <1>4, <1>5, <1>6 DEF Table!End
<1> QED BY <1>1, <1>2, <1>7 DEF Table!TableNext

\* A calm step ends the jobs it takes off the queue, and may end more rows of
\* jobs that stay.
LEMMA CalmTable == ASSUME Inv, Keep, Calm PROVE Table!TableNext
<1>1. PICK x \in Jobs \cup {None} : Tame(Now, Now', x) BY DEF Calm
<1>2. /\ Now'.pos = pos' /\ Now'.row = row' /\ Now'.ins = ins' BY DEF Now
<1>3. \A j \in Jobs : row[j].status \in Ended \cup {"NONE"} => pos[j] = 0
  BY NowParts DEF Inv, StateOK, OverIsOut
<1>4. \A j \in Jobs :
         /\ row'[j].action = row[j].action /\ row'[j].target = row[j].target
         /\ row'[j].status = "NONE" <=> row[j].status = "NONE"
         /\ row[j].status \in Ended => row'[j].status = row[j].status
  BY <1>1, <1>2, <1>3, NowParts DEF Tame, TameJobs, Keep
<1>5. \A i \in Instances :
         \/ ins'[i].life = ins[i].life
         \/ /\ ins[i].life = "DELETE" /\ ins'[i].life = "GONE"
            /\ Destroyed(Now, Now', i)
  BY <1>1, <1>2, NowParts DEF Tame, Lives
<1>6. ASSUME NEW i, Destroyed(Now, Now', i)
      PROVE  \E j \in Jobs : /\ row[j].status \notin Ended \cup {"NONE"}
                             /\ row[j].action = "DESTROY" /\ row[j].target = i
                             /\ row'[j].status = "SUCCESS"
  BY <1>2, <1>3, <1>6, NowParts DEF Destroyed
<1> QED BY <1>4, <1>5, <1>6, EndStep

\* A notification ends the jobs that job_check cancels, and the new one when it
\* is refused.
LEMMA WebJobTable ==
    ASSUME Inv, Keep, NEW j \in Jobs, WebJob(j)
    PROVE  Table!TableNext
<1>0. j \in note /\ row[j].status = "INITIATED" /\ pos[j] = 0
  BY DEF WebJob, Inv, NoteOK
<1>1. \A k \in Jobs : row[k].status \in Ended \cup {"NONE"} => pos[k] = 0
  BY NowParts DEF Inv, StateOK, OverIsOut
<1>2. ASSUME NEW F, Around(j, F), row'[j].action = row[j].action,
             row'[j].target = row[j].target, row'[j].status # "NONE"
      PROVE  Table!TableNext
  <2> DEFINE s == Checked(j, F)
  <2>1. /\ Tame(Now, s, None) /\ ins' = s.ins
        /\ \A k \in Jobs \ {j} : pos'[k] = s.pos[k] /\ row'[k] = s.row[k]
    BY <1>2 DEF Around
  <2> HIDE DEF s
  <2>2. \A k \in Jobs \ {j} :
           /\ row'[k].action = row[k].action /\ row'[k].target = row[k].target
           /\ row'[k].status = "NONE" <=> row[k].status = "NONE"
    BY <2>1, <1>1, NowParts DEF Tame, TameJobs
  <2>3. \A k \in Jobs :
           /\ row'[k].action = row[k].action /\ row'[k].target = row[k].target
           /\ row'[k].status = "NONE" <=> row[k].status = "NONE"
           /\ row[k].status \in Ended => row'[k].status = row[k].status
    BY <2>2, <1>0, <1>2 DEF Keep
  <2>4. \A i \in Instances :
           \/ ins'[i].life = ins[i].life
           \/ /\ ins[i].life = "DELETE" /\ ins'[i].life = "GONE"
              /\ Destroyed(Now, s, i)
    BY <2>1, NowParts DEF Tame, Lives
  <2>5. ASSUME NEW i, Destroyed(Now, s, i)
        PROVE  \E k \in Jobs : /\ row[k].status \notin Ended \cup {"NONE"}
                               /\ row[k].action = "DESTROY" /\ row[k].target = i
                               /\ row'[k].status = "SUCCESS"
    BY <2>1, <2>5, <1>0, <1>1, NowParts DEF Destroyed
  <2> QED BY <2>3, <2>4, <2>5, EndStep
<1>3. CASE Spend(1) /\ UNCHANGED <<clcVars, tail>>
  <2>1. row' = row /\ ins' = ins BY <1>3 DEF clcVars
  <2> QED BY <2>1, EndStep
<1>4. CASE Refuse(j) BY <1>0, <1>2, <1>4, RefuseAround
<1>5. CASE Insert(j) BY <1>0, <1>2, <1>5, InsertAround
<1> QED BY <1>3, <1>4, <1>5 DEF WebJob

\* A new row, and the mark of an instance.
LEMMA WebTable == ASSUME Inv, Web PROVE Table!TableNext
<1> DEFINE Job == [j \in Jobs |->
                     [action |-> row[j].action, target |-> row[j].target,
                      state |-> IF row[j].status = "NONE" THEN "none"
                                ELSE IF row[j].status \in Ended THEN row[j].status
                                ELSE "open"]]
           Life == [i \in Instances |-> ins[i].life]
<1>1. ASSUME NEW j \in Jobs, NEW a \in Actions,
             NEW t \in IF a \in NodeActions THEN Nodes ELSE Instances,
             WebCreate(j, a, t)
      PROVE  Table!TableNext
  <2>1. /\ row[j].status = "NONE" /\ row \in [Jobs -> RowType]
        /\ a \notin NodeActions => t \in Instances /\ ins[t].life = "LIVE"
        /\ ins \in [Instances -> InsType]
        /\ ins' = IF a = "DESTROY" THEN [ins EXCEPT ![t].life = "DELETE"] ELSE ins
    BY <1>1 DEF WebCreate, Inv, TypeOK
  <2>2. PICK st \in {"INITIATED", "FAILURE"} :
           row' = [row EXCEPT ![j] = [action |-> a, target |-> t, status |-> st]]
    BY <1>1 DEF WebCreate
  <2>3. PICK s \in {"open", "FAILURE"} :
           Job' = [Job EXCEPT ![j] = [action |-> a, target |-> t, state |-> s]]
    <3> DEFINE s == IF st = "FAILURE" THEN "FAILURE" ELSE "open"
               After == [Job EXCEPT ![j] = [action |-> a, target |-> t, state |-> s]]
    <3>1. row'[j] = [action |-> a, target |-> t, status |-> st]
          /\ \A k \in Jobs \ {j} : row'[k] = row[k]
      BY <2>1, <2>2
    <3>2. Job'[j] = [action |-> a, target |-> t, state |-> s]
      BY <3>1 DEF Ended
    <3>3. \A k \in Jobs \ {j} : Job'[k] = Job[k] BY <3>1
    <3>4. \A k \in Jobs : Job'[k] = After[k] BY <3>2, <3>3
    <3>5. Job' = [k \in Jobs |-> Job'[k]] /\ After = [k \in Jobs |-> After[k]]
      OBVIOUS
    <3> HIDE DEF Job, After
    <3>6. Job' = After BY <3>4, <3>5
    <3> QED BY <3>6 DEF After
  <2>4. Life' = IF a = "DESTROY" THEN [Life EXCEPT ![t] = "DELETE"] ELSE Life
    <3>1. CASE a = "DESTROY"
      <4>1. t \in Instances BY <2>1, <3>1 DEF NodeActions
      <4>2. \A i \in Instances : ins'[i].life = IF i = t THEN "DELETE" ELSE ins[i].life
        BY <2>1, <3>1, <4>1 DEF InsType
      <4> QED BY <3>1, <4>1, <4>2
    <3>2. CASE a # "DESTROY" BY <2>1, <3>2
    <3> QED BY <3>1, <3>2
  <2>5. /\ Job[j].state = "none"
        /\ a \notin NodeActions => Life[t] = "LIVE"
    BY <2>1
  <2>6. Table!Create(j, a, t) BY <2>3, <2>4, <2>5 DEF Table!Create
  <2> QED BY <2>6 DEF Table!TableNext
<1>2. ASSUME NEW i \in Instances, WebDelete(i)
      PROVE  Table!TableNext
  <2>1. /\ ins[i].life = "LIVE" /\ ins \in [Instances -> InsType] /\ row' = row
        /\ ins' = [ins EXCEPT ![i].life = "DELETE"]
    BY <1>2 DEF WebDelete, Inv, TypeOK
  <2>2. PICK j \in Jobs : /\ row[j].action \notin NodeActions /\ row[j].target = i
                          /\ row[j].status \notin Ended \ {"FAILURE"}
    BY <1>2 DEF WebDelete
  <2>3. \E k \in Table!On(i) : Job[k].state \in {"open", "FAILURE"}
    <3>1. j \in Table!On(i) BY <2>2 DEF Table!On
    <3>2. row[j].status # "NONE"
      BY <2>2, ConstantsOK DEF Inv, RowOK
    <3> QED BY <2>2, <3>1, <3>2
  <2>4. \A k \in Instances : ins'[k].life = IF k = i THEN "DELETE" ELSE ins[k].life
    BY <2>1 DEF InsType
  <2>5. Life[i] = "LIVE" /\ Life' = [Life EXCEPT ![i] = "DELETE"] /\ Job' = Job
    BY <2>1, <2>4
  <2>6. Table!Mark(i) BY <2>3, <2>5 DEF Table!Mark
  <2> QED BY <2>6 DEF Table!TableNext
<1> QED BY <1>1, <1>2 DEF Web

\* Through failed writes, restarts, late answers and nodes that come and go, a job
\* is created once and ended once, and the row of an instance goes only in the
\* step in which its DESTROY succeeds.
THEOREM TablesAreKept == Spec => KeepsTables
<1>1. Init => Table!TableInit BY DEF Init, Table!TableInit, Table!NoJob
<1>2. Inv /\ [Next]_vars => [Table!TableNext]_(Table!tableVars)
  <2> SUFFICES ASSUME Inv, [Next]_vars PROVE Table!TableNext
    OBVIOUS
  <2>1. Keep BY NextInv
  <2>2. CASE Restart BY <2>2, EndStep DEF Restart
  <2> QED BY <2>1, <2>2, NextCalm, CalmTable, WebTable, WebJobTable
<1> QED BY <1>1, <1>2, Invariance, PTL DEF Spec, KeepsTables, Table!TableSpec
==============================================================================
