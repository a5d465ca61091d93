------------------------------- MODULE ClcJobs -------------------------------
(***************************************************************************)
(* The job queue of the cloud controller (platform/src/clc): jobs the web  *)
(* application writes to the job table, the queue g_job_list that lyclc    *)
(* keeps of them, the periodic dispatch of the queue, and the node and OSM *)
(* connections (entities) the jobs are sent to and answered from.          *)
(*                                                                         *)
(* What the abstraction keeps and drops:                                   *)
(*  - lyclc is one thread: a handler is one action, and no handler runs    *)
(*    while a dispatch walk is under way (walk # None).                    *)
(*  - A job status is a name; every LY_S_FINISHED_FAILURE* is "FAILURE",   *)
(*    every LY_S_RUNNING* is "RUNNING", every LY_S_CANCEL* "CANCELLED".    *)
(*  - The three timers of a job (j_started, j_last_run, the timeout) are   *)
(*    one set, elapsed: the jobs whose current wait has run out.           *)
(*  - The run state, ip and key of an instance row are left out: of the    *)
(*    row only its existence, the DELETE mark and node_id steer jobs.      *)
(*    Internal queries (lyjob2.c) only refresh what is left out.           *)
(*  - What a node reports of cpu, memory and storage is one bit, room.     *)
(*  - A connection takes any free slot: web connections, not modelled,     *)
(*    come and go in the slots below.                                      *)
(***************************************************************************)
EXTENDS Integers, FiniteSets

CONSTANTS
    Jobs,           \* ids of rows of the job table
    None,           \* no job (the dispatch walk is not running)
    Actions,        \* the actions users ask for in this instance of the model
    Instances,      \* ids of rows of the instance table
    Nodes,          \* ids of rows of the node table (the two id ranges overlap)
    MaxSlot,        \* entity slots 1..MaxSlot; slot 0 is the listening socket
    NodeSelect,     \* LYCLC_NODE_SELECT: "ANY" or "LAST_ONLY"
    BusyLimit,      \* LYCLC_JOB_INSTANCE_BUSY_LIMIT
    Rooms,          \* what a node may report: {TRUE} or {TRUE, FALSE}
    MaxConns,       \* bound: connections opened by nodes
    MaxOsm,         \* bound: connections opened by OS managers
    MaxTakeovers,   \* bound: connections opened while an older one is half-open
    MaxFaults,      \* bound: failed database statements and sends
    MaxRestarts     \* bound: restarts of lyclc

Slots == 1 .. MaxSlot

\* __job_start_instance serves these two.
StartActions == {"RUN", "FULLREBOOT"}
\* __job_control_instance_simple serves these five.
SimpleActions == {"STOP", "SUSPEND", "ACPIREBOOT", "DESTROY", "QUERY"}
\* Actions with j_target_type = JOB_TARGET_NODE.
NodeActions == {"ENABLE", "DISABLE", "CONFIG", "NODE_QUERY"}
\* job_check lets these pass unseen.
Queries == {"QUERY", "NODE_QUERY", "OSM_QUERY"}

AllActions == StartActions \cup SimpleActions \cup NodeActions
                \cup {"OSM_QUERY", "SAVE"}

ASSUME ConstantsOK ==
    /\ IsFiniteSet(Jobs) /\ None \notin Jobs
    /\ Actions \subseteq AllActions
    /\ Instances \subseteq Nat \ {0} /\ Nodes \subseteq Nat \ {0}
    /\ MaxSlot \in Nat /\ BusyLimit \in Nat
    /\ NodeSelect \in {"ANY", "LAST_ONLY"}
    /\ Rooms \subseteq BOOLEAN /\ TRUE \in Rooms
    /\ {MaxConns, MaxOsm, MaxTakeovers, MaxFaults, MaxRestarts} \subseteq Nat

Waiting == {"STARTING_OSM", "SYCING_OSM", "STARTING_SERVICE"}
\* JOB_IS_FINISHED, JOB_IS_TIMEOUT or JOB_IS_CANCELLED: the job is over.
Ended == {"SUCCESS", "NOT_RUNNING", "INS_RUNNING", "FAILURE", "TIMEOUT",
          "CANCELLED"}
Statuses == {"INITIATED", "RUNNING", "PENDING", "UNKNOWN"}
              \cup Waiting \cup Ended

VARIABLES
    row,        \* job table: [action, target, status] per job id
    note,       \* jobs whose notification is on its way to lyclc
    pos,        \* place of a job in g_job_list, 0 when it is not in it
    tail,       \* place of the last job that was appended
    mem,        \* LYJobInfo of a queued job: [status, pend, ent]
    elapsed,    \* queued jobs whose current wait has run out
    walk,       \* next job of the running dispatch walk, or None
    ent,        \* entity store: [type, db, status, enabled, busy, room, join]
    ins,        \* instance table: [life, node]
    en,         \* node table: is the node enabled
    wire,       \* [node, stopped, rep]: where the request of a job is served
    vm,         \* nodes an instance's virtual machine is active on
    ran,        \* history: nodes an instance was ever started on
    conns, osms, takeovers, faults, restarts    \* counters of the bounds

clcVars == <<row, pos, mem, ent, ins>>
bounds == <<conns, osms, takeovers, faults, restarts>>
vars == <<row, note, pos, tail, mem, elapsed, walk, ent, ins, en, wire, vm,
          ran, conns, osms, takeovers, faults, restarts>>

---------------------------------------------------------------------------
(* Entities (entity.c), as far as jobs use them.                           *)

FreeSlot == [type |-> "free", db |-> -1, status |-> 0, enabled |-> FALSE,
             busy |-> 0, room |-> TRUE, join |-> FALSE]

ONLINE == 1
REGISTERED == 3
RUNNING == 4

\* ly_entity_find_by_db: the entities of that type with that row id.
FindByDb(e, type, id) == {s \in Slots : e[s].type = type /\ e[s].db = id}

\* ly_entity_is_online, ly_entity_is_registered, ... of what was found.
AtLeast(e, found, status) == \E s \in found : e[s].status >= status

\* ly_entity_release of a set of slots.
Release(e, S) == [s \in Slots |-> IF s \in S THEN FreeSlot ELSE e[s]]

---------------------------------------------------------------------------
(* The queue (lyjob.c).                                                    *)

Queue == {j \in Jobs : pos[j] > 0}

\* A LYJobInfo just read from its row: bzero, then job_insert.
Blank == [status |-> "INITIATED", pend |-> -1, ent |-> 0]

\* The place a job gets: list_add_tail.
Place == IF Queue = {} THEN 1 ELSE tail + 1

\* The head of the part L of the queue.
FirstOf(L) == IF L = {} THEN None
           ELSE CHOOSE j \in L : \A k \in L : pos[j] <= pos[k]

\* Jobs of H that count on entity s as being processed there.
Holders(m, H, s) == {j \in H : m[j].pend = 0 /\ m[j].ent = s}

\* Variant with a fault: the counter is taken down without looking at it.
MinusUnchecked(a, b) == a - b

Minus(a, b) == IF a > b THEN a - b ELSE 0

\* Variant with a fault: the end of a job gives nothing back.
JobBusyRemoveForgotten(e, m, H) == e

\* job_busy_remove for each job of H: the counter of the entity that j_ent_id
\* names now goes down, never below 0. (If an OS manager has the slot by then the
\* code writes into its OSMInfo, of which nothing is modelled.)
JobBusyRemove(e, m, H) ==
    [s \in Slots |->
        IF e[s].type = "node"
        THEN [e[s] EXCEPT !.busy = Minus(@, Cardinality(Holders(m, H, s)))]
        ELSE e[s]]

\* OSM entities that the end of the jobs D releases: of a timed out job on an
\* instance, and of an instance that a STOP found or left not running.
Dropped(e, r, D, st) ==
    {s \in Slots :
        /\ e[s].type = "osm"
        /\ \E j \in D :
            /\ r[j].action \notin NodeActions /\ r[j].target = e[s].db
            /\ \/ st = "TIMEOUT"
               \/ r[j].action = "STOP" /\ st \in {"SUCCESS", "NOT_RUNNING"}}

\* The queue, the tables and the store together, as job_update_status sees them.
Now == [pos |-> pos, mem |-> mem, row |-> row, ent |-> ent, ins |-> ins]

Become(s) ==
    /\ pos' = s.pos
    /\ mem' = s.mem
    /\ row' = s.row
    /\ ent' = s.ent
    /\ ins' = s.ins

\* Variant with a fault: the node of an instance is never recorded.
SetNodeForgotten(t, i, node) == t

\* db_instance_update_status(i, .., node): a row marked DELETE is not touched,
\* a negative node id leaves node_id alone.
SetNode(t, i, node) ==
    [t EXCEPT ![i].node = IF t[i].life = "LIVE" /\ node > 0 THEN node ELSE @]

\* ly_entity_db_id
DbId(e, s) == IF s \in Slots THEN e[s].db ELSE -1

\* The first lines of job_update_status for the jobs R: the status in memory,
\* and in the row of those in D, whose UPDATE the database carried out.
SetStatus(s, R, D, st) ==
    [s EXCEPT
        !.mem = [j \in Jobs |-> IF j \in R THEN [s.mem[j] EXCEPT !.status = st]
                                ELSE s.mem[j]],
        !.row = [j \in Jobs |-> IF j \in D THEN [s.row[j] EXCEPT !.status = st]
                                ELSE s.row[j]]]

\* Variant with a fault: a DESTROY deletes the row however it ended.
JobsOverAlwaysDeletes(s, D, X, st) ==
    [s EXCEPT
        !.pos = [j \in Jobs |-> IF j \in D THEN 0 ELSE s.pos[j]],
        !.mem = [j \in Jobs |-> IF j \in D THEN Blank ELSE s.mem[j]],
        !.ent = JobBusyRemove(Release(s.ent, Dropped(s.ent, s.row, D, st)),
                              s.mem, D),
        !.ins = [i \in Instances |->
                    IF /\ s.ins[i].life = "DELETE" /\ i \notin X
                       /\ \E j \in D : s.row[j].action = "DESTROY"
                                       /\ s.row[j].target = i
                    THEN [s.ins[i] EXCEPT !.life = "GONE"]
                    ELSE s.ins[i]]]

\* The last lines of job_update_status for jobs D that are over (job_remove
\* included); X are the instances whose row the database fails to write.
JobsOver(s, D, X, st) ==
    [s EXCEPT
        !.pos = [j \in Jobs |-> IF j \in D THEN 0 ELSE s.pos[j]],
        !.mem = [j \in Jobs |-> IF j \in D THEN Blank ELSE s.mem[j]],
        !.ent = JobBusyRemove(Release(s.ent, Dropped(s.ent, s.row, D, st)),
                              s.mem, D),
        !.ins = [i \in Instances |->
                    IF /\ s.ins[i].life = "DELETE" /\ i \notin X
                       /\ st = "SUCCESS"
                       /\ \E j \in D : s.row[j].action = "DESTROY"
                                       /\ s.row[j].target = i
                    THEN [s.ins[i] EXCEPT !.life = "GONE"]
                    ELSE s.ins[i]]]

\* The LY_S_WAITING_STARTING_OSM branch of job_update_status: the node of the
\* entity that j_ent_id names now is recorded, and the job is no longer busy.
InstanceStarted(s, j) ==
    [s EXCEPT
        !.ins = SetNode(s.ins, s.row[j].target, DbId(s.ent, s.mem[j].ent)),
        !.ent = JobBusyRemove(s.ent, s.mem, {j}),
        !.mem[j].pend = IF @ = 0 THEN -1 ELSE @]

\* job_update_status(j, st). fail is the statement that fails: "row" the UPDATE
\* of the job, "ins" the one of the instance, "no" none.
JobUpdateStatus(s, j, fail, st) ==
    LET t == SetStatus(s, {j}, IF fail = "row" THEN {} ELSE {j}, st)
    IN  IF fail = "row" THEN t
        ELSE IF st \in Ended
        THEN JobsOver(t, {j},
                      IF fail = "ins" THEN {s.row[j].target} ELSE {}, st)
        ELSE IF st = "STARTING_OSM" /\ fail = "no" THEN InstanceStarted(t, j)
        ELSE t

\* job_update_status(j, st) for every job of R, an ending status; for those in
\* F the UPDATE fails, so they stay in the queue.
JobUpdateAll(s, R, F, st) == JobsOver(SetStatus(s, R, R \ F, st), R \ F, {}, st)

\* c statements or sends fail.
Spend(c) == faults + c <= MaxFaults /\ faults' = faults + c

\* The action of job_update_status(j, st) on state s, after c failures.
Update(s, j, st, c) ==
    \E fail \in {"no", "row", "ins"} :
        /\ fail = "ins" => st \in {"STARTING_OSM", "SUCCESS"}
        /\ Spend(c + IF fail = "no" THEN 0 ELSE 1)
        /\ Become(JobUpdateStatus(s, j, fail, st))

---------------------------------------------------------------------------
(* The web application: a row is committed, then lyclc is told its id.     *)

\* run_job and, for DESTROY, the delete handler that marks the instance first.
\* When the controller cannot be reached the row is marked failed.
WebCreate(j, a, t) ==
    /\ row[j].status = "NONE"
    /\ a \notin NodeActions => ins[t].life = "LIVE"
    /\ ins' = IF a = "DESTROY" THEN [ins EXCEPT ![t].life = "DELETE"] ELSE ins
    /\ \/ /\ row' = [row EXCEPT ![j] = [action |-> a, target |-> t,
                                        status |-> "INITIATED"]]
          /\ note' = note \cup {j}
          /\ UNCHANGED faults
       \/ /\ row' = [row EXCEPT ![j] = [action |-> a, target |-> t,
                                        status |-> "FAILURE"]]
          /\ Spend(1)
          /\ UNCHANGED note
    /\ UNCHANGED <<pos, mem, elapsed, walk, ent, en, wire, tail, vm, ran, conns,
                   osms, takeovers, restarts>>

\* The delete handler when run_job returns early, because a job of the instance is
\* not completed or has failed less than 60s ago: marked, and no job to destroy it.
WebDelete(i) ==
    /\ ins[i].life = "LIVE"
    /\ \E j \in Jobs : /\ row[j].action \notin NodeActions /\ row[j].target = i
                      /\ row[j].status \notin Ended \ {"FAILURE"}
    /\ ins' = [ins EXCEPT ![i].life = "DELETE"]
    /\ UNCHANGED <<row, pos, mem, ent, note, elapsed, walk, en, wire, tail, vm, ran,
                   bounds>>

\* Queued jobs on the target of j.
OnTarget(j) == {k \in Queue : /\ row[k].target = row[j].target
                              /\ row[k].action \in NodeActions
                                    <=> row[j].action \in NodeActions}

With(A, K) == {k \in K : row[k].action \in A}

\* Variant with a fault: only an earlier job of the same kind is in the way.
BlockersSameAction(j) ==
    IF row[j].action \in Queries THEN {}
    ELSE With({"DESTROY", row[j].action}, OnTarget(j))

\* job_check: the queued jobs that make the new job j cancel itself as busy.
Blockers(j) ==
    LET a == row[j].action
        K == OnTarget(j)
    IN  IF a \in Queries THEN {}
        ELSE With({"DESTROY"}, K) \cup
             CASE a \in {"ENABLE", "DISABLE"} -> With({"ENABLE", "DISABLE"}, K)
               [] a = "RUN"                   -> K \ With({"QUERY"}, K)
               [] a \in {"FULLREBOOT", "DESTROY"} -> With({a}, K)
               [] a = "CONFIG"                -> {}
               [] OTHER -> {k \in K \ With({"QUERY"}, K) :
                              row[k].action = a \/ mem[k].status = "RUNNING"}

\* job_check: the queued jobs it cancels for the new job j. The walk over the
\* queue stops at the first blocker; what it cancelled before stays cancelled.
Replaced(j) ==
    LET a == row[j].action
        K == OnTarget(j)
    IN  CASE With({"DESTROY"}, K) # {} -> {}
          [] a = "DESTROY" -> K \ With({"STOP"}, K)
          [] a \in {"STOP", "SUSPEND", "ACPIREBOOT", "SAVE"} ->
                {k \in K \ With({"QUERY"}, K) :
                    \A b \in Blockers(j) : pos[k] < pos[b]}
          [] OTHER -> {}

\* job_check on the queue: R replaced, and of them F whose row cannot be written.
Checked(j, F) == JobUpdateAll(Now, Replaced(j), F, "CANCELLED")

\* Variant with a fault: a job that is refused is dropped without a word.
RefuseSilently(j) ==
    /\ Blockers(j) # {}
    /\ Spend(0)
    /\ Become(Checked(j, {}))
    /\ UNCHANGED tail

\* The target is busy: the row becomes cancelled (or, for C = {j}, cannot be
\* written) and the job never enters the queue.
Refuse(j) ==
    /\ Blockers(j) # {}
    /\ \E F \in SUBSET Replaced(j), C \in SUBSET {j} :
         /\ Spend(Cardinality(F) + Cardinality(C))
         /\ Become(SetStatus(Checked(j, F), {}, {j} \ C, "CANCELLED"))
    /\ UNCHANGED tail

\* job_insert
Insert(j) ==
    /\ Blockers(j) = {}
    /\ \E F \in SUBSET Replaced(j) :
         /\ Spend(Cardinality(F))
         /\ Become([Checked(j, F) EXCEPT !.pos[j] = Place, !.mem[j] = Blank])
    /\ tail' = Place

\* __process_web_job: read the row, refuse it or append it to the queue. When the
\* row cannot be read the notification is spent and nothing else happens.
WebJob(j) ==
    /\ walk = None /\ j \in note
    /\ note' = note \ {j}
    /\ \/ Spend(1) /\ UNCHANGED <<clcVars, tail>>
       \/ Refuse(j)
       \/ Insert(j)
    /\ elapsed' = elapsed \cap Queue'
    /\ UNCHANGED <<walk, en, wire, vm, ran, conns, osms, takeovers, restarts>>

---------------------------------------------------------------------------
(* __job_run: one job of the dispatch walk.                                *)

UNAVAIL == -1
BUSY == -2
STROKE == -3

Usable(e) == {s \in Slots : /\ e[s].type = "node"
                            /\ e[s].status >= REGISTERED /\ e[s].enabled}

\* Variant with a fault: a node at its limit still gets one job more.
NodeScheduleOneMore(e, node) ==
    LET K == IF NodeSelect = "LAST_ONLY" /\ node > 0
             THEN FindByDb(e, "node", node) \cap Usable(e)
             ELSE Usable(e)
        R == {s \in K : e[s].room}
        S == {s \in R : e[s].busy <= BusyLimit}
    IN  IF K = {} THEN {UNAVAIL}
        ELSE IF R = {} THEN {BUSY}
        ELSE IF S = {} THEN {STROKE}
        ELSE S

\* node_schedule(node): entities it may return, or the reason it has none.
NodeSchedule(e, node) ==
    IF NodeSelect = "LAST_ONLY" /\ node > 0
    THEN LET S == FindByDb(e, "node", node) \cap Usable(e)
         IN  IF S = {} THEN {UNAVAIL}
             ELSE IF \E s \in S : e[s].busy >= BusyLimit THEN {STROKE}
             ELSE IF \E s \in S : ~ e[s].room THEN {BUSY}
             ELSE S
    ELSE LET R == {s \in Usable(e) : e[s].room}
             S == {s \in R : e[s].busy < BusyLimit}
         IN  IF Usable(e) = {} THEN {UNAVAIL}
             ELSE IF R = {} THEN {BUSY}
             ELSE IF S = {} THEN {STROKE}
             ELSE S

\* A request of job j is on its way to node n.
Send(j, n) == wire' = [wire EXCEPT ![j] = [node |-> n, stopped |-> FALSE,
                                           rep |-> "NONE"]]

\* __job_start_instance of a job that is not waiting for its OS manager.
StartInstance(j) ==
    LET i == row[j].target
        s0 == JobUpdateStatus(Now, j, "no", "RUNNING")
        s == [s0 EXCEPT !.mem[j].pend = 0]
        node == ins[i].node
    IN  \/ /\ Spend(1)                      \* the job row cannot be written
           /\ Become(JobUpdateStatus(Now, j, "row", "RUNNING"))
           /\ UNCHANGED wire
        \/ /\ Update(s, j, "FAILURE", IF ins[i].life = "GONE" THEN 0 ELSE 1)
           /\ UNCHANGED wire                \* the instance cannot be read
        \/ /\ ins[i].life # "GONE"
           /\ \E o \in NodeSchedule(ent, node) :
                \/ /\ o \in {UNAVAIL, BUSY}
                   /\ Update(s, j, "FAILURE", 0)
                   /\ UNCHANGED wire
                \/ /\ o = STROKE
                   /\ Update([s EXCEPT !.mem[j].pend = 1], j, "PENDING", 0)
                   /\ UNCHANGED wire
                \/ /\ o \in Slots
                   /\ LET t == [s EXCEPT !.mem[j].ent = o]
                          u == [t EXCEPT !.ins = SetNode(ins, i, ent[o].db)]
                      IN  \/ /\ \E v \in {t, u} : Update(v, j, "FAILURE", 1)
                             /\ UNCHANGED wire      \* secret, row or send
                          \/ /\ \E room \in {ent[o].room} \cup (Rooms \ {TRUE}) :
                                  Become([u EXCEPT !.ent[o].busy = @ + 1,
                                                   !.ent[o].room = room])
                             /\ Send(j, ent[o].db)
                             /\ UNCHANGED faults

\* __job_start_instance of a job that waits for its OS manager.
StillWaiting(j) == UNCHANGED <<clcVars, faults>>

WaitOsm(j) ==
    LET osm == FindByDb(ent, "osm", row[j].target)
    IN  CASE mem[j].status = "STARTING_OSM" ->
                IF AtLeast(ent, osm, ONLINE)
                THEN Update(Now, j, "SYCING_OSM", 0) ELSE StillWaiting(j)
          [] mem[j].status = "SYCING_OSM" ->
                IF AtLeast(ent, osm, REGISTERED)
                THEN Update(Now, j, "STARTING_SERVICE", 0)
                ELSE IF ~ AtLeast(ent, osm, ONLINE)
                THEN Update(Now, j, "FAILURE", 0) ELSE StillWaiting(j)
          [] mem[j].status = "STARTING_SERVICE" ->
                IF AtLeast(ent, osm, RUNNING)
                THEN Update(Now, j, "SUCCESS", 0)
                ELSE IF ~ AtLeast(ent, osm, ONLINE)
                THEN Update(Now, j, "FAILURE", 0) ELSE StillWaiting(j)

\* A request sent to entity t, or failing: the rest of the three functions below.
Relay(s, j, t, to) ==
    \/ /\ Become([s EXCEPT !.mem[j].ent = t])
       /\ Send(j, to)
       /\ UNCHANGED faults
    \/ /\ Update([s EXCEPT !.mem[j].ent = t], j, "FAILURE", 1)
       /\ UNCHANGED wire

\* __job_control_instance_simple. With NODE_SELECT_ANY a DESTROY or QUERY whose
\* node is unknown or away takes ly_entity_head, an entity id, for a node id.
ControlInstanceSimple(j) ==
    LET i == row[j].target
        s == JobUpdateStatus(Now, j, "no", "RUNNING")
        any == NodeSelect = "ANY" /\ row[j].action \in {"DESTROY", "QUERY"}
        heads == {t \in Slots : ent[t].type = "node" /\ ent[t].db > 0}
        away == ~ AtLeast(ent, FindByDb(ent, "node", ins[i].node), REGISTERED)
    IN  \/ /\ Spend(1)
           /\ Become(JobUpdateStatus(Now, j, "row", "RUNNING"))
           /\ UNCHANGED wire
        \/ /\ Update(s, j, "FAILURE", IF ins[i].life = "GONE" THEN 0 ELSE 1)
           /\ UNCHANGED wire
        \/ /\ ins[i].life # "GONE"
           /\ \E node \in IF ~ (any /\ away) THEN {ins[i].node}
                          ELSE IF heads = {} THEN {-1} ELSE heads :
                LET found == FindByDb(ent, "node", node)
                IN  \/ /\ node <= 0
                       /\ Update(s, j, "SUCCESS", 0) /\ UNCHANGED wire
                    \/ /\ node > 0 /\ ~ AtLeast(ent, found, REGISTERED)
                       /\ Update(s, j, "FAILURE", 0) /\ UNCHANGED wire
                    \/ /\ node > 0
                       /\ \E t \in found : /\ ent[t].status >= REGISTERED
                                           /\ Relay(s, j, t, node)

\* __job_query_node and __job_query_osm: a peer that is away ends the job well.
QueryPeer(j) ==
    LET osm == row[j].action = "OSM_QUERY"
        found == FindByDb(ent, IF osm THEN "osm" ELSE "node", row[j].target)
        s == JobUpdateStatus(Now, j, "no", "RUNNING")
    IN  \/ /\ Spend(1)
           /\ Become(JobUpdateStatus(Now, j, "row", "RUNNING"))
           /\ UNCHANGED wire
        \/ /\ ~ AtLeast(ent, found, REGISTERED)
           /\ Update(s, j, "SUCCESS", 0) /\ UNCHANGED wire
        \/ \E t \in found : /\ ent[t].status >= REGISTERED
                            /\ Relay(s, j, t, IF osm THEN -1 ELSE row[j].target)

\* __job_node_enable: the node must be online; it is asked to register again.
NodeEnable(j) ==
    LET n == row[j].target
        found == FindByDb(ent, "node", n)
    IN  \/ /\ ~ AtLeast(ent, found, ONLINE)
           /\ Update(Now, j, "FAILURE", 0)
           /\ UNCHANGED en
        \/ /\ AtLeast(ent, found, ONLINE)
           /\ \/ Update(Now, j, "FAILURE", 1) /\ en' \in {en, [en EXCEPT ![n] = TRUE]}
              \/ /\ en' = [en EXCEPT ![n] = TRUE]
                 /\ Update([Now EXCEPT !.ent = [t \in Slots |->
                                IF t \in found THEN [ent[t] EXCEPT !.join = TRUE]
                                ELSE ent[t]]],
                           j, "SUCCESS", 0)

\* Variant with a fault: jobs that have no entity yet are ended as well.
JobsOnOrNowhere(t) == {k \in Queue : mem[k].ent \in {0, t}}

\* job_clean_on_entity: the queued jobs it ends.
JobsOn(t) == {k \in Queue : mem[k].ent = t}

\* __job_node_disable: the jobs on the node's entity are ended first.
NodeDisable(j) ==
    LET n == row[j].target
        found == FindByDb(ent, "node", n)
        regd == {t \in found : ent[t].status >= REGISTERED}
        R == UNION {JobsOn(t) : t \in regd}
    IN  \/ Update(Now, j, "FAILURE", 1) /\ UNCHANGED en
        \/ /\ en' = [en EXCEPT ![n] = FALSE]
           /\ \E F \in SUBSET R :
                LET s == JobUpdateAll(Now, R, F, "FAILURE")
                IN  Update([s EXCEPT !.ent = [t \in Slots |->
                               IF t \in found THEN [s.ent[t] EXCEPT !.enabled = FALSE]
                               ELSE s.ent[t]]],
                           j, "SUCCESS", Cardinality(F))

\* __job_node_config: new limits for the node, if it is online.
NodeConfig(j) ==
    LET found == FindByDb(ent, "node", row[j].target)
    IN  \/ \E room \in [found -> Rooms] :
             Update([Now EXCEPT !.ent = [t \in Slots |->
                        IF t \in found THEN [ent[t] EXCEPT !.room = room[t]]
                        ELSE ent[t]]],
                    j, "SUCCESS", 0)
        \/ found # {} /\ Update(Now, j, "FAILURE", 1)

\* __job_run
JobRun(j) ==
    LET a == row[j].action
    IN  \/ /\ a \in StartActions /\ mem[j].status \in Waiting
           /\ WaitOsm(j) /\ UNCHANGED <<en, wire>>
        \/ /\ a \in StartActions /\ mem[j].status \notin Waiting
           /\ StartInstance(j) /\ UNCHANGED en
        \/ a \in SimpleActions /\ ControlInstanceSimple(j) /\ UNCHANGED en
        \/ a \in {"NODE_QUERY", "OSM_QUERY"} /\ QueryPeer(j) /\ UNCHANGED en
        \/ a = "ENABLE" /\ NodeEnable(j) /\ UNCHANGED wire
        \/ a = "DISABLE" /\ NodeDisable(j) /\ UNCHANGED wire
        \/ a = "CONFIG" /\ NodeConfig(j) /\ UNCHANGED <<en, wire>>
        \/ a = "SAVE" /\ UNCHANGED <<clcVars, faults, en, wire>>

---------------------------------------------------------------------------
(* job_dispatch: a walk of the queue that keeps the next job at hand.      *)

DispatchBegin ==
    /\ walk = None /\ Queue # {}
    /\ walk' = FirstOf(Queue)
    /\ UNCHANGED <<clcVars, note, elapsed, en, wire, tail, vm, ran, bounds>>

\* The job after j, fetched before j is looked at (list_for_each_entry_safe).
NextJob(j) == FirstOf({k \in Queue : pos[k] > pos[j]})

\* Variant with a fault: a job that runs on a node never times out.
DispatchWithoutTimeout(j) ==
    LET st == mem[j].status
        due == j \in elapsed
    IN  \/ st \in {"INITIATED"} \cup Waiting /\ JobRun(j)
        \/ st = "PENDING" /\ due /\ JobRun(j)
        \/ st = "PENDING" /\ ~ due /\ UNCHANGED <<clcVars, faults, en, wire>>
        \/ st = "RUNNING" /\ UNCHANGED <<clcVars, faults, en, wire>>
        \/ st \in Ended \cup {"UNKNOWN"}
           /\ Update(Now, j, "UNKNOWN", 0) /\ UNCHANGED <<en, wire>>

\* What job_dispatch does with one job.
Dispatch(j) ==
    LET st == mem[j].status
        due == j \in elapsed
    IN  \/ st = "INITIATED" /\ JobRun(j)
        \/ st = "PENDING" /\ due /\ JobRun(j)
        \/ st \in {"RUNNING"} \cup Waiting /\ due
           /\ Update(Now, j, "TIMEOUT", 0) /\ UNCHANGED <<en, wire>>
        \/ st \in Waiting /\ ~ due /\ JobRun(j)
        \/ st \in {"RUNNING", "PENDING"} /\ ~ due
           /\ UNCHANGED <<clcVars, faults, en, wire>>
        \/ st \in Ended \cup {"UNKNOWN"}
           /\ Update(Now, j, "UNKNOWN", 0) /\ UNCHANGED <<en, wire>>

DispatchStep ==
    /\ walk \in Queue
    /\ Dispatch(walk)
    /\ walk' = NextJob(walk)
    \* a timer starts again when the job is run
    /\ elapsed' = IF mem[walk].status \in {"INITIATED", "PENDING"}
                  THEN (elapsed \ {walk}) \cap Queue' ELSE elapsed \cap Queue'
    /\ UNCHANGED <<note, tail, vm, ran, conns, osms, takeovers, restarts>>

\* The wait of a job's current state runs out.
Elapse(j) ==
    /\ j \in Queue \ elapsed
    /\ mem[j].status \in {"RUNNING", "PENDING"} \cup Waiting
    /\ elapsed' = elapsed \cup {j}
    /\ UNCHANGED <<clcVars, note, walk, en, wire, tail, vm, ran, bounds>>

---------------------------------------------------------------------------
(* Nodes: requests are served by threads of lynode (compute/handler.c).    *)

Replied(j, rep, stopped) == wire' = [wire EXCEPT ![j].rep = rep,
                                                 ![j].stopped = stopped]

\* The VM of i on node n is started, or stopped.
VmUp(i, n) == /\ vm' = [vm EXCEPT ![i] = @ \cup {n}]
              /\ ran' = [ran EXCEPT ![i] = @ \cup {n}]
VmDown(i, n) == vm' = [vm EXCEPT ![i] = @ \ {n}] /\ UNCHANGED ran

\* One response of the thread that serves job j (__instance_control_func, or
\* the query handlers of lynode and the OS manager).
NodeStep(j) ==
    LET n == wire[j].node
        a == row[j].action
        i == row[j].target
        up == a \notin NodeActions /\ n \in vm[i]
        Say(rep) == Replied(j, rep, wire[j].stopped) /\ UNCHANGED <<vm, ran>>
    IN  /\ n # 0 /\ wire[j].rep = "NONE"
        /\ \/ a \in StartActions /\ Say("RUNNING")
           \/ a \notin Queries /\ Say("FAILURE")
           \/ a = "NODE_QUERY" /\ Say("FAILURE")
           \/ a \in Queries /\ Say("SUCCESS")
           \/ a = "FULLREBOOT" /\ ~ wire[j].stopped
              /\ Replied(j, "STOPPED", TRUE) /\ VmDown(i, n)
           \/ /\ a = "RUN" \/ (a = "FULLREBOOT" /\ wire[j].stopped)
              /\ IF up THEN Say("INS_RUNNING")
                 ELSE Replied(j, "STARTING_OSM", wire[j].stopped) /\ VmUp(i, n)
           \/ /\ a = "STOP"
              /\ IF up THEN Replied(j, "SUCCESS", FALSE) /\ VmDown(i, n)
                 ELSE Say("NOT_RUNNING")
           \/ a = "ACPIREBOOT" /\ Say(IF up THEN "SUCCESS" ELSE "NOT_RUNNING")
           \/ a = "DESTROY" /\ Say(IF up THEN "INS_RUNNING" ELSE "SUCCESS")
        /\ UNCHANGED <<clcVars, tail, note, elapsed, walk, en, bounds>>

\* Connections over which the answer to job j arrives now.
Peers(j) == IF wire[j].node = -1 THEN FindByDb(ent, "osm", row[j].target)
            ELSE FindByDb(ent, "node", wire[j].node)

NoRequest == [node |-> 0, stopped |-> FALSE, rep |-> "NONE"]

\* __process_node_xml_response (and eh_process_osm_query): a response for a job
\* that is no longer queued is dropped; RUNNING_STOPPED also releases the OSM
\* entity of an instance that is being rebooted.
NodeResponse(j) ==
    LET rep == wire[j].rep
        st == IF rep = "STOPPED" THEN "RUNNING" ELSE rep
        osm == FindByDb(ent, "osm", row[j].target)
    IN  /\ walk = None /\ rep # "NONE" /\ Peers(j) # {}
        /\ wire' = [wire EXCEPT ![j] = IF st = "RUNNING"
                                       THEN [@ EXCEPT !.rep = "NONE"]
                                       ELSE NoRequest]
        /\ IF j \notin Queue THEN UNCHANGED <<clcVars, faults>>
           ELSE IF rep # "STOPPED" THEN Update(Now, j, st, 0)
           ELSE \/ /\ Spend(0)
                   /\ LET s == JobUpdateStatus(Now, j, "no", st)
                      IN  Become([s EXCEPT !.ent = Release(s.ent, osm)])
                \/ Spend(1) /\ Become(JobUpdateStatus(Now, j, "row", st))
        /\ elapsed' = elapsed \cap Queue'
        /\ UNCHANGED <<note, walk, en, tail, vm, ran, conns, osms, takeovers, restarts>>

---------------------------------------------------------------------------
(* Connections.                                                            *)

\* The connection of node n is gone. Responses on it are lost; of the requests
\* served by n some set L is lost too (not yet delivered, or lynode restarted).
Lose(n, L) ==
    wire' = [j \in Jobs |->
                IF wire[j].node # n THEN wire[j]
                ELSE IF j \in L \/ wire[j].rep \notin {"NONE", "RUNNING", "STOPPED"}
                THEN NoRequest
                ELSE [wire[j] EXCEPT !.rep = "NONE"]]

\* eh_process_node_auth, auth request on a new connection: the entity takes the
\* node's row id and an older entity of the node is released, jobs and all.
NodeAuth(n, t) ==
    LET old == FindByDb(ent, "node", n)
    IN  /\ walk = None /\ ent[t].type = "free" /\ conns < MaxConns
        /\ conns' = conns + 1
        /\ takeovers' = IF old = {} THEN takeovers ELSE takeovers + 1
        /\ takeovers' <= MaxTakeovers
        /\ \E L \in SUBSET {j \in Jobs : wire[j].node = n} :
             IF old = {} THEN L = {} /\ UNCHANGED wire ELSE Lose(n, L)
        /\ ent' = [Release(ent, old) EXCEPT
                      ![t] = [FreeSlot EXCEPT !.type = "node", !.db = n,
                                              !.status = ONLINE]]
        /\ UNCHANGED <<row, pos, mem, ins, note, elapsed, walk, en, tail, vm, ran,
                       osms, faults, restarts>>

\* The same on the connection the node has, after a join request.
NodeReauth(t) ==
    /\ walk = None /\ ent[t].type = "node" /\ ent[t].join
    /\ ent' = [ent EXCEPT ![t].status = ONLINE, ![t].join = FALSE]
    /\ UNCHANGED <<row, pos, mem, ins, note, elapsed, walk, en, wire, tail, vm, ran,
                   bounds>>

\* The auth reply and the register request of a tagged node; both failures of
\* the latter leave the entity online only.
NodeRegister(t) ==
    /\ walk = None /\ ent[t].type = "node" /\ ent[t].status < REGISTERED
    /\ \E room \in Rooms :
         ent' = [ent EXCEPT ![t].status = REGISTERED, ![t].room = room,
                            ![t].enabled = en[ent[t].db]]
    /\ UNCHANGED <<row, pos, mem, ins, note, elapsed, walk, en, wire, tail, vm, ran,
                   bounds>>

\* __node_resource_update: what was committed for starting jobs is overwritten.
NodeReport(t) ==
    /\ walk = None /\ ent[t].type = "node" /\ ent[t].status >= REGISTERED
    /\ \E room \in Rooms \ {ent[t].room} : ent' = [ent EXCEPT ![t].room = room]
    /\ UNCHANGED <<row, pos, mem, ins, note, elapsed, walk, en, wire, tail, vm, ran,
                   bounds>>

\* ly_epoll_entity_recv finds the node's socket closed: the jobs on the entity
\* end with NODE_NOT_ONLINE and the entity is released.
NodeClose(t) ==
    /\ walk = None /\ ent[t].type = "node"
    /\ \E F \in SUBSET JobsOn(t) :
         LET s == JobUpdateAll(Now, JobsOn(t), F, "FAILURE")
         IN  /\ Spend(Cardinality(F))
             /\ Become([s EXCEPT !.ent = Release(s.ent, {t})])
    /\ \E L \in SUBSET {j \in Jobs : wire[j].node = ent[t].db} :
         Lose(ent[t].db, L)
    /\ elapsed' = elapsed \cap Queue'
    /\ UNCHANGED <<note, walk, en, tail, vm, ran, conns, osms, takeovers, restarts>>

\* eh_process_osm_auth: the OS manager of a running instance is online.
OsmAuth(i, t) ==
    /\ walk = None /\ ent[t].type = "free" /\ osms < MaxOsm /\ vm[i] # {}
    /\ osms' = osms + 1
    /\ ent' = [Release(ent, FindByDb(ent, "osm", i)) EXCEPT
                  ![t] = [FreeSlot EXCEPT !.type = "osm", !.db = i,
                                          !.status = ONLINE]]
    /\ UNCHANGED <<row, pos, mem, ins, note, elapsed, walk, en, wire, tail, vm, ran,
                   conns, takeovers, faults, restarts>>

\* eh_process_osm_register, then eh_process_osm_report of the application.
OsmAdvance(t) ==
    /\ walk = None /\ ent[t].type = "osm" /\ ent[t].status < RUNNING
    /\ ent' = [ent EXCEPT ![t].status = IF @ = ONLINE THEN REGISTERED
                                        ELSE RUNNING]
    /\ UNCHANGED <<row, pos, mem, ins, note, elapsed, walk, en, wire, tail, vm, ran,
                   bounds>>

\* ly_epoll_entity_recv finds the OS manager's socket closed.
OsmClose(t) ==
    /\ walk = None /\ ent[t].type = "osm"
    /\ ent' = Release(ent, {t})
    /\ UNCHANGED <<row, pos, mem, ins, note, elapsed, walk, en, wire, tail, vm, ran,
                   bounds>>

---------------------------------------------------------------------------
(* lyclc stops and starts again.                                           *)

\* job_init: the rows that are PENDING are loaded, in no particular order; other
\* jobs, notifications and connections are lost, and so are responses under way
\* and some set L of the requests.
Restart ==
    LET P == {j \in Jobs : row[j].status = "PENDING"}
    IN  /\ restarts < MaxRestarts
        /\ restarts' = restarts + 1
        /\ \E f \in [P -> 1 .. Cardinality(P)] :
             /\ \A j, k \in P : f[j] = f[k] => j = k
             /\ pos' = [j \in Jobs |-> IF j \in P THEN f[j] ELSE 0]
        /\ mem' = [j \in Jobs |-> IF j \in P THEN [Blank EXCEPT !.status = "PENDING"]
                                  ELSE Blank]
        /\ elapsed' = P
        /\ ent' = [t \in Slots |-> FreeSlot]
        /\ note' = {} /\ walk' = None
        /\ \E L \in SUBSET {j \in Jobs : wire[j].node # 0} :
             wire' = [j \in Jobs |->
                IF \/ j \in L \/ wire[j].node = -1
                   \/ wire[j].rep \notin {"NONE", "RUNNING", "STOPPED"}
                THEN NoRequest ELSE [wire[j] EXCEPT !.rep = "NONE"]]
        /\ tail' = Cardinality(P)
        /\ UNCHANGED <<row, ins, en, vm, ran, conns, osms, takeovers, faults>>

---------------------------------------------------------------------------

Init ==
    /\ row = [j \in Jobs |-> [action |-> "NONE", target |-> 0, status |-> "NONE"]]
    /\ note = {} /\ elapsed = {} /\ walk = None
    /\ pos = [j \in Jobs |-> 0] /\ tail = 0
    /\ mem = [j \in Jobs |-> Blank]
    /\ ent = [t \in Slots |-> FreeSlot]
    /\ ins = [i \in Instances |-> [life |-> "LIVE", node |-> 0]]
    /\ en = [n \in Nodes |-> TRUE]
    /\ wire = [j \in Jobs |-> NoRequest]
    /\ vm = [i \in Instances |-> {}] /\ ran = [i \in Instances |-> {}]
    /\ conns = 0 /\ osms = 0 /\ takeovers = 0 /\ faults = 0 /\ restarts = 0

Web == \/ \E j \in Jobs, a \in Actions :
            \E t \in IF a \in NodeActions THEN Nodes ELSE Instances :
                WebCreate(j, a, t)
       \/ "DESTROY" \in Actions /\ \E i \in Instances : WebDelete(i)

Clc == \/ \E j \in Jobs : WebJob(j) \/ NodeResponse(j)
       \/ DispatchBegin \/ DispatchStep

Connections ==
    \E t \in Slots :
        \/ \E n \in Nodes : NodeAuth(n, t)
        \/ \E i \in Instances : OsmAuth(i, t)
        \/ NodeReauth(t) \/ NodeRegister(t) \/ NodeReport(t) \/ NodeClose(t)
        \/ OsmAdvance(t) \/ OsmClose(t)

Next == \/ Web \/ Clc \/ Connections \/ Restart
        \/ \E j \in Jobs : NodeStep(j) \/ Elapse(j)

Spec == Init /\ [][Next]_vars

\* The main loop of lyclc dispatches every CLC_JOB_DISPATCH_INTERVAL and serves
\* every readable socket between two dispatches; time passes.
FairSpec == /\ Spec
            /\ WF_vars(DispatchBegin) /\ WF_vars(DispatchStep)
            /\ \A j \in Jobs : SF_vars(WebJob(j)) /\ WF_vars(Elapse(j))

---------------------------------------------------------------------------
(* Properties.                                                             *)

RowType == [action : AllActions \cup {"NONE"}, target : Nat,
            status : Statuses \cup {"NONE"}]
MemType == [status : Statuses, pend : {-1, 0, 1}, ent : 0 .. MaxSlot]
EntType == [type : {"free", "node", "osm"}, db : Nat \cup {-1},
            status : 0 .. RUNNING, enabled : BOOLEAN, busy : Nat,
            room : BOOLEAN, join : BOOLEAN]
InsType == [life : {"LIVE", "DELETE", "GONE"}, node : Nat]
WireType == [node : Nodes \cup {-1, 0}, stopped : BOOLEAN,
             rep : Ended \cup {"NONE", "RUNNING", "STOPPED", "STARTING_OSM"}]

\* Every variable has the shape its comment gives; no counter is negative.
TypeOK ==
    /\ row \in [Jobs -> RowType]
    /\ note \subseteq Jobs /\ elapsed \subseteq Jobs /\ walk \in Jobs \cup {None}
    /\ pos \in [Jobs -> Nat] /\ tail \in Nat
    /\ mem \in [Jobs -> MemType]
    /\ ent \in [Slots -> EntType]
    /\ ins \in [Instances -> InsType]
    /\ en \in [Nodes -> BOOLEAN]
    /\ wire \in [Jobs -> WireType]
    /\ vm \in [Instances -> SUBSET Nodes] /\ ran \in [Instances -> SUBSET Nodes]
    /\ conns \in Nat /\ osms \in Nat /\ takeovers \in Nat /\ faults \in Nat
    /\ restarts \in Nat

\* ins_job_busy_nr of a node never exceeds the queued start jobs that
\* will still take it down (job_busy_remove): whatever fails, no leaked count
\* can keep node_schedule answering NODE_SCHEDULE_NODE_STROKE for ever.
BusyNoLeak == \A t \in Slots : ent[t].busy <= Cardinality(Holders(mem, Queue, t))

\* The job that list_for_each_entry_safe of job_dispatch fetched ahead is never
\* freed under the walk, although dispatching a DISABLE ends other jobs of the
\* queue: jobs behind a DISABLE that has not run have no entity yet.
WalkSafe == walk \in Queue \cup {None}

\* Which actions may stand before an action in the queue, on the same target.
MayPrecede(a) ==
    CASE a \in Queries \cup {"CONFIG"} -> AllActions
      [] a \in {"RUN", "STOP", "SUSPEND", "ACPIREBOOT", "SAVE"} -> {"QUERY"}
      [] a = "DESTROY"    -> {"STOP"}
      [] a = "FULLREBOOT" -> AllActions \ {"FULLREBOOT", "DESTROY"}
      [] a \in {"ENABLE", "DISABLE"} -> {"CONFIG", "NODE_QUERY"}

\* What job_check keeps apart in the queue, on one target: a RUN, a STOP and the
\* like have only queries before them, a DESTROY only a STOP, nothing but queries
\* follows a DESTROY, and no second FULLREBOOT, ENABLE or DISABLE waits. A
\* FULLREBOOT is let in behind any other action, in spite of the comment there
\* (RebootAlone below); queries and CONFIG are never held back. (A cancellation
\* that could not be written, or a restart, which loads jobs in any order, may
\* break it.)
TargetDiscipline ==
    faults = 0 /\ restarts = 0 =>
        \A j \in Queue : \A k \in OnTarget(j) :
            pos[k] < pos[j] => row[k].action \in MayPrecede(row[j].action)

\* Start jobs that node n is working on and lyclc waits for. One that timed out
\* or was cancelled goes on at the node, but lyclc counts it no more.
StartsOn(n) == {j \in Queue : /\ row[j].action \in StartActions
                              /\ mem[j].status = "RUNNING" /\ wire[j].node = n}

\* "Determine the number of batch jobs to node": of the starts that lyclc waits
\* for, no more than the configured limit are at one node, whatever connection
\* they were sent over (node_schedule with job_busy_add and job_busy_remove).
StartLimit == \A n \in Nodes : Cardinality(StartsOn(n)) <= BusyLimit

\* With NODE_SELECT_LAST_ONLY an instance that is not deleted never has a
\* virtual machine on two nodes, however its start jobs end, time out or are
\* cancelled while the node still works on them.
OneVm == \A i \in Instances : ins[i].life = "LIVE" => Cardinality(vm[i]) <= 1

\* A job that is not over is on its way to lyclc or in its queue, where memory
\* and row agree: without a restart or a database failure none is forgotten.
NoJobForgotten ==
    faults = 0 /\ restarts = 0 =>
        \A j \in Jobs :
            /\ row[j].status \notin Ended \cup {"NONE"} => j \in note \cup Queue
            /\ j \in Queue => row[j].status = mem[j].status

\* Every job a user creates ends: node silence by the timeouts, a busy node by
\* the retries of PENDING jobs.
JobsEnd == \A j \in Jobs : (row[j].status # "NONE") ~> (row[j].status \in Ended)

\* The tables as the web application reads them: a job that is not over is open.
Table == INSTANCE JobTable WITH
    job <- [j \in Jobs |->
                [action |-> row[j].action, target |-> row[j].target,
                 state |-> IF row[j].status = "NONE" THEN "none"
                           ELSE IF row[j].status \in Ended THEN row[j].status
                           ELSE "open"]],
    life <- [i \in Instances |-> ins[i].life]

\* lyclc keeps what the tables promise: through failed writes, restarts, late
\* answers and nodes that come and go, a job is created once and ended once, and
\* the row of an instance goes only in the step in which its DESTROY succeeds.
KeepsTables == Table!TableSpec

---------------------------------------------------------------------------
(* What comments of the repository say, and the code does not keep.        *)

\* lyclc.conf: the node an instance is tied to is one it "was successfully run"
\* on, once no start job of it is queued.
PinnedToRan ==
    \A i \in Instances :
        \/ ins[i].node \in {0} \cup ran[i]
        \/ \E j \in Queue : row[j].action \in StartActions /\ row[j].target = i

\* lyjob.c, FULLREBOOT: "no any control action actvie before running instance",
\* so one that was sent to the node finds no control job before it in the queue.
RebootAlone ==
    \A j \in Queue :
        row[j].action = "FULLREBOOT" /\ mem[j].status = "RUNNING" =>
            \A k \in OnTarget(j) : pos[k] < pos[j] => row[k].action \in Queries

\* lyjob.c, DESTROY: "any active action except stop should be cancelled", so
\* an instance that was destroyed and deleted has no machine started later.
NoOrphan == \A i \in Instances : ins[i].life = "GONE" => vm[i] = {}

==============================================================================
