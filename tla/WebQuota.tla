---------------------------- MODULE WebQuota ----------------------------
(* What the requests of one user may add to the database of the web        *)
(* application (src/lyweb/app/myun/instance, app/storage, app/domain,      *)
(* app/account): instances, storages and domains, each under a limit.      *)
(*                                                                         *)
(* site.py forks one server process per CPU and a handler runs in one of   *)
(* them from its first query to its answer, so two handlers interleave     *)
(* wherever one of them has read and not yet committed.  A request is a    *)
(* record req[p] of process p that moves through three steps:              *)
(*   prepare   the queries of initialize() and prepare(),                  *)
(*   validate  the queries of form.validate() and of post(),               *)
(*   commit    the transaction, after which the handler ends.              *)
(* Steps that only read are steps of their own because the answer they got *)
(* can be stale when the commit comes.                                     *)
(*                                                                         *)
(* Left out: the text of names and pages, the traces, the CPU and memory   *)
(* of an instance, and the config column (WebNetwork has it).  A row id    *)
(* is a sequence number that is never given twice: an id is taken again    *)
(* here only when no request holds it.                                     *)
EXTENDS Integers, FiniteSets

CONSTANTS
  Procs,           \* the server processes
  Instances,       \* ids of instance rows
  Storages,        \* ids of storage rows
  Domains,         \* ids of user_domain rows
  Names,           \* domain names
  Sizes,           \* storage sizes a form may hold, in GB
  Pools,           \* storage pools
  PoolTotal,       \* column total of a pool
  QuotaStorage, QuotaInstance, QuotaDomain,  \* the limits of the profile
  Grant,           \* what a Resource row of the user adds to a limit
  None             \* no row, no value

ASSUME ProcsAssumption ==
  IsFiniteSet(Procs) /\ Procs # {}
ASSUME RowsAssumption ==
  IsFiniteSet(Instances) /\ IsFiniteSet(Storages) /\ IsFiniteSet(Domains)
ASSUME LimitsAssumption ==
  /\ Sizes \subseteq Nat \ {0} /\ PoolTotal \in Nat
  /\ QuotaStorage \in Nat /\ QuotaInstance \in Nat /\ QuotaDomain \in Nat
  /\ Grant \in Nat
ASSUME NoneAssumption ==
  None \notin Instances \cup Storages \cup Domains \cup Names \cup Sizes \cup Pools

VARIABLES
  inst,      \* instance rows: "none", "live", "deleted" (status DELETED) or
             \* "destroy" (DELETED, and a DESTROY_INSTANCE job was created)
  stor,      \* storage rows
  dom,       \* user_domain rows
  poolUsed,  \* column used of each pool
  granted,   \* is a Resource row of the user in effect?
  req        \* the request each process is serving

qvars == <<inst, stor, dom, poolUsed, granted, req>>

Idle == [op |-> "idle", i |-> None, row |-> None, name |-> None,
         size |-> None, old |-> None, pool |-> None]

Ops == {"idle", "storageAdd", "storageAddOk", "storageEdit", "storageEditOk",
        "domainAdd", "domainAddOk", "domainEditOk",
        "instanceCreate", "instanceDelete", "instanceFree", "instanceJob"}

Requests == [op : Ops, i : Instances \cup {None},
             row : Storages \cup Domains \cup {None},
             name : Names \cup {None}, size : Sizes \cup {None},
             old : Sizes \cup {None}, pool : Pools \cup {None}]

NoStorage == [i |-> None, size |-> 0, pool |-> None]
NoDomain == [i |-> None, name |-> None]
StorageRow == [i : Instances, size : Sizes, pool : Pools] \cup {NoStorage}
DomainRow == [i : Instances, name : Names] \cup {NoDomain}

(* Rows and requests have the shape of their tables and forms; the size of *)
(* a storage is one that a form may hold, also where Storage.__init__ cuts *)
(* it down to what the pool has left.                                      *)
QTypeOK ==
  /\ inst \in [Instances -> {"none", "live", "deleted", "destroy"}]
  /\ stor \in [Storages -> StorageRow]
  /\ dom \in [Domains -> DomainRow]
  /\ poolUsed \in [Pools -> Nat]
  /\ granted \in BOOLEAN
  /\ req \in [Procs -> Requests]

QInit ==
  /\ inst = [i \in Instances |-> "none"]
  /\ stor = [s \in Storages |-> NoStorage]
  /\ dom = [d \in Domains |-> NoDomain]
  /\ poolUsed = [k \in Pools |-> 0]
  /\ granted \in BOOLEAN
  /\ req = [p \in Procs |-> Idle]

-----------------------------------------------------------------------------
(* What the handlers read.                                                 *)

Rows == {i \in Instances : inst[i] # "none"}
StoragesOf(i) == {s \in Storages : stor[s].i = i}
DomainRows == {d \in Domains : dom[d].i # None}

(* The sizes of some rows added up, as the number of their gigabytes: a    *)
(* sum that is a cardinality needs no induction to reason about.           *)
SizeSum(rows, S) == Cardinality(UNION {{s} \X (1 .. rows[s].size) : s \in S})

(* The properties storage_remain and instance_remain of a profile: the     *)
(* limit, plus what the resources in effect add, less what is used; the    *)
(* rows of deleted instances count as long as they exist.                  *)
Granted == IF granted THEN Grant ELSE 0
Left(total, used) == IF total > used THEN total - used ELSE 0

storage_remain == Left(QuotaStorage + Granted, SizeSum(stor, Storages))

instance_remainLiveOnly ==
  Left(QuotaInstance + Granted, Cardinality({i \in Instances : inst[i] = "live"}))
instance_remain == Left(QuotaInstance + Granted, Cardinality(Rows))

remain(k) == PoolTotal - poolUsed[k]

(* StoragePool.update_used adds up the storages of the pool...             *)
update_used(rows, k) == SizeSum(rows, {s \in Storages : rows[s].pool = k})

(* ...in the session of the handler, after its last commit.  on_finish     *)
(* removes the session, which rolls the assignment back.                   *)
on_finish(column, session) == column

Finish(p) == req' = [req EXCEPT ![p] = Idle]

(* A new row takes an id that no row has and no request still holds.       *)
FreshStorages == {s \in Storages : stor[s].i = None /\ \A p \in Procs : req[p].row # s}
FreshDomains == {d \in Domains : dom[d].i = None /\ \A p \in Procs : req[p].row # d}
FreshInstances == {i \in Instances : inst[i] = "none" /\ \A p \in Procs : req[p].i # i}

(* set_myinstance: the instance of a request must exist and not be deleted.*)
set_myinstanceAnyStatus(i) == inst[i] # "none"
set_myinstance(i) == inst[i] = "live"

(* A process is killed, or its request fails before its next commit: what  *)
(* it had not committed is rolled back.                                    *)
Fail(p) ==
  /\ req[p].op # "idle"
  /\ Finish(p)
  /\ UNCHANGED <<inst, stor, dom, poolUsed, granted>>

-----------------------------------------------------------------------------
(* Storages.  max_storage is 1 for every instance.                         *)

max_storage == 1

StorageAddPrepareOneMore(p, i) ==
  /\ req[p] = Idle
  /\ set_myinstance(i)
  /\ Cardinality(StoragesOf(i)) <= max_storage
  /\ req' = [req EXCEPT ![p] = [Idle EXCEPT !.op = "storageAdd", !.i = i]]
  /\ UNCHANGED <<inst, stor, dom, poolUsed, granted>>

(* StorageAdd.prepare: the instance, and how many storages it has.         *)
StorageAddPrepare(p, i) ==
  /\ req[p] = Idle
  /\ set_myinstance(i)
  /\ Cardinality(StoragesOf(i)) < max_storage
  /\ req' = [req EXCEPT ![p] = [Idle EXCEPT !.op = "storageAdd", !.i = i]]
  /\ UNCHANGED <<inst, stor, dom, poolUsed, granted>>

(* StorageForm: validate_pool and validate_size.                           *)
StorageFormPoolOnly(size, k) == size <= remain(k)
StorageForm(size, k) == size <= remain(k) /\ size <= storage_remain

StorageAddValidate(p) ==
  /\ req[p].op = "storageAdd"
  /\ \E size \in Sizes, k \in Pools :
       /\ StorageForm(size, k)
       /\ req' = [req EXCEPT ![p].op = "storageAddOk", ![p].size = size, ![p].pool = k]
  /\ UNCHANGED <<inst, stor, dom, poolUsed, granted>>

(* Storage.__init__ takes no more than the pool has left; the insert fails *)
(* on the foreign key when clc has deleted the row of the instance.        *)
StorageSizeLeft(size, k) == IF remain(k) > size THEN size ELSE remain(k) - size
StorageSize(size, k) == IF remain(k) > size THEN size ELSE remain(k)

StorageAddCommit(p) ==
  /\ req[p].op = "storageAddOk"
  /\ inst[req[p].i] # "none"
  /\ \E s \in FreshStorages :
       /\ stor' = [stor EXCEPT ![s] = [i |-> req[p].i, pool |-> req[p].pool,
                                       size |-> StorageSize(req[p].size, req[p].pool)]]
       /\ poolUsed' = on_finish(poolUsed, [poolUsed EXCEPT
                        ![req[p].pool] = update_used(stor', req[p].pool)])
  /\ Finish(p)
  /\ UNCHANGED <<inst, dom, granted>>

(* StorageActionHandler.initialize finds the row; its size is read here    *)
(* and not again before the commit.                                        *)
StorageEditInitialize(p, s) ==
  /\ req[p] = Idle
  /\ stor[s].i # None
  /\ req' = [req EXCEPT ![p] = [Idle EXCEPT !.op = "storageEdit", !.row = s,
                                            !.old = stor[s].size]]
  /\ UNCHANGED <<inst, stor, dom, poolUsed, granted>>

StorageEditValidate(p) ==
  /\ req[p].op = "storageEdit"
  /\ \E size \in Sizes, k \in Pools :
       /\ StorageForm(size, k)
       /\ req[p].old <= size
       /\ req' = [req EXCEPT ![p].op = "storageEditOk", ![p].size = size, ![p].pool = k]
  /\ UNCHANGED <<inst, stor, dom, poolUsed, granted>>

(* The update finds no row when another process has deleted it: the flush  *)
(* raises and the request fails (Fail).  A column that the handler set to  *)
(* the value it had read is not written.                                   *)
StorageEditCommit(p) ==
  LET s == req[p].row IN
  /\ req[p].op = "storageEditOk"
  /\ stor[s].i # None
  /\ stor' = [stor EXCEPT ![s].size = IF req[p].size = req[p].old THEN @ ELSE req[p].size,
                          ![s].pool = req[p].pool]
  /\ poolUsed' = on_finish(poolUsed, [poolUsed EXCEPT
                   ![req[p].pool] = update_used(stor', req[p].pool)])
  /\ Finish(p)
  /\ UNCHANGED <<inst, dom, granted>>

(* StorageDelete: one query for the row, and the delete.                   *)
StorageDelete(p, s) ==
  /\ req[p] = Idle
  /\ stor[s].i # None
  /\ stor' = [stor EXCEPT ![s] = NoStorage]
  /\ poolUsed' = on_finish(poolUsed, [poolUsed EXCEPT
                   ![stor[s].pool] = update_used(stor', stor[s].pool)])
  /\ UNCHANGED <<inst, dom, granted, req>>

-----------------------------------------------------------------------------
(* Domains.  The column domain is unique.                                  *)

NameTaken(name, d) == \E e \in Domains : e # d /\ dom[e].name = name

DomainAddPrepareOneMore(p, i) ==
  /\ req[p] = Idle
  /\ set_myinstance(i)
  /\ QuotaDomain >= Cardinality(DomainRows)
  /\ req' = [req EXCEPT ![p] = [Idle EXCEPT !.op = "domainAdd", !.i = i]]
  /\ UNCHANGED <<inst, stor, dom, poolUsed, granted>>

(* DomainAdd.prepare: the instance, and how many domains the user has.     *)
DomainAddPrepare(p, i) ==
  /\ req[p] = Idle
  /\ set_myinstance(i)
  /\ QuotaDomain > Cardinality(DomainRows)
  /\ req' = [req EXCEPT ![p] = [Idle EXCEPT !.op = "domainAdd", !.i = i]]
  /\ UNCHANGED <<inst, stor, dom, poolUsed, granted>>

DomainAddValidate(p) ==
  /\ req[p].op = "domainAdd"
  /\ \E name \in Names :
       /\ ~NameTaken(name, None)
       /\ req' = [req EXCEPT ![p].op = "domainAddOk", ![p].name = name]
  /\ UNCHANGED <<inst, stor, dom, poolUsed, granted>>

(* The insert fails on the unique column or the foreign key.               *)
DomainAddCommit(p) ==
  /\ req[p].op = "domainAddOk"
  /\ inst[req[p].i] # "none"
  /\ ~NameTaken(req[p].name, None)
  /\ \E d \in FreshDomains :
       dom' = [dom EXCEPT ![d] = [i |-> req[p].i, name |-> req[p].name]]
  /\ Finish(p)
  /\ UNCHANGED <<inst, stor, poolUsed, granted>>

(* DomainActionHandler.initialize and the first half of DomainEdit.post.   *)
DomainEditValidate(p, d) ==
  /\ req[p] = Idle
  /\ dom[d].i # None
  /\ \E name \in Names :
       /\ ~NameTaken(name, d)
       /\ req' = [req EXCEPT ![p] = [Idle EXCEPT !.op = "domainEditOk", !.row = d,
                                                 !.name = name]]
  /\ UNCHANGED <<inst, stor, dom, poolUsed, granted>>

DomainEditCommit(p) ==
  LET d == req[p].row IN
  /\ req[p].op = "domainEditOk"
  /\ dom[d].i # None
  /\ ~NameTaken(req[p].name, d)
  /\ dom' = [dom EXCEPT ![d].name = req[p].name]
  /\ Finish(p)
  /\ UNCHANGED <<inst, stor, poolUsed, granted>>

DomainDelete(p, d) ==
  /\ req[p] = Idle
  /\ dom[d].i # None
  /\ dom' = [dom EXCEPT ![d] = NoDomain]
  /\ UNCHANGED <<inst, stor, poolUsed, granted, req>>

-----------------------------------------------------------------------------
(* Instances.                                                              *)

(* InstanceCreate.prepare: an instance must remain.                        *)
InstanceCreatePrepare(p) ==
  /\ req[p] = Idle
  /\ instance_remain >= 1
  /\ req' = [req EXCEPT ![p] = [Idle EXCEPT !.op = "instanceCreate"]]
  /\ UNCHANGED <<inst, stor, dom, poolUsed, granted>>

InstanceCreateCommit(p) ==
  /\ req[p].op = "instanceCreate"
  /\ \E i \in FreshInstances : inst' = [inst EXCEPT ![i] = "live"]
  /\ Finish(p)
  /\ UNCHANGED <<stor, dom, poolUsed, granted>>

(* InstanceDelete of the instance list: get_instance_byid and is_running.  *)
InstanceDeleteCheck(p, i) ==
  /\ req[p] = Idle
  /\ inst[i] = "live"
  /\ req' = [req EXCEPT ![p] = [Idle EXCEPT !.op = "instanceDelete", !.i = i]]
  /\ UNCHANGED <<inst, stor, dom, poolUsed, granted>>

(* First commit: status DELETED.  Two processes may delete one instance.   *)
InstanceDeleteMark(p) ==
  LET i == req[p].i IN
  /\ req[p].op = "instanceDelete"
  /\ inst[i] # "none"
  /\ inst' = [inst EXCEPT ![i] = IF @ = "live" THEN "deleted" ELSE @]
  /\ req' = [req EXCEPT ![p].op = "instanceFree"]
  /\ UNCHANGED <<stor, dom, poolUsed, granted>>

(* Second commit: the domains and the storages it finds then are deleted.  *)
(* The column used of their pools is not touched.                          *)
InstanceDeleteFree(p) ==
  LET i == req[p].i IN
  /\ req[p].op = "instanceFree"
  /\ inst[i] # "none"
  /\ stor' = [s \in Storages |-> IF stor[s].i = i THEN NoStorage ELSE stor[s]]
  /\ dom' = [d \in Domains |-> IF dom[d].i = i THEN NoDomain ELSE dom[d]]
  /\ req' = [req EXCEPT ![p].op = "instanceJob"]
  /\ UNCHANGED <<inst, poolUsed, granted>>

(* run_job(DESTROY_INSTANCE) creates the job (or refuses: Fail).           *)
InstanceDeleteJob(p) ==
  LET i == req[p].i IN
  /\ req[p].op = "instanceJob"
  /\ inst' = [inst EXCEPT ![i] = IF @ = "deleted" THEN "destroy" ELSE @]
  /\ Finish(p)
  /\ UNCHANGED <<stor, dom, poolUsed, granted>>

(* clc has destroyed the instance and deletes its row; the database        *)
(* refuses while a storage or a domain still refers to it.                 *)
ClcDeleteRow(i) ==
  /\ inst[i] = "destroy"
  /\ StoragesOf(i) = {} /\ \A d \in Domains : dom[d].i # i
  /\ inst' = [inst EXCEPT ![i] = "none"]
  /\ UNCHANGED <<stor, dom, poolUsed, granted, req>>

(* An administrator edits or deletes the Resource row of the user, or its  *)
(* dates pass.                                                             *)
ResourceChange ==
  /\ granted' = ~granted
  /\ UNCHANGED <<inst, stor, dom, poolUsed, req>>

-----------------------------------------------------------------------------
StorageRequests(p) ==
  \/ \E i \in Instances : StorageAddPrepare(p, i)
  \/ StorageAddValidate(p)
  \/ StorageAddCommit(p)
  \/ \E s \in Storages : StorageEditInitialize(p, s)
  \/ StorageEditValidate(p)
  \/ StorageEditCommit(p)
  \/ \E s \in Storages : StorageDelete(p, s)

DomainRequests(p) ==
  \/ \E i \in Instances : DomainAddPrepare(p, i)
  \/ DomainAddValidate(p)
  \/ DomainAddCommit(p)
  \/ \E d \in Domains : DomainEditValidate(p, d)
  \/ DomainEditCommit(p)
  \/ \E d \in Domains : DomainDelete(p, d)

InstanceRequests(p) ==
  \/ InstanceCreatePrepare(p)
  \/ InstanceCreateCommit(p)
  \/ \E i \in Instances : InstanceDeleteCheck(p, i)
  \/ InstanceDeleteMark(p)
  \/ InstanceDeleteFree(p)
  \/ InstanceDeleteJob(p)
  \/ Fail(p)

Outside == ResourceChange \/ \E i \in Instances : ClcDeleteRow(i)

QNext ==
  \/ \E p \in Procs : StorageRequests(p) \/ DomainRequests(p) \/ InstanceRequests(p)
  \/ Outside

QSpec == QInit /\ [][QNext]_qvars

-----------------------------------------------------------------------------
(* Properties.  Each process can hold one request that was checked against *)
(* rows which have grown since, and no more: the limits can be passed by   *)
(* what the other processes had in flight and by nothing else.             *)

ProcCount == Cardinality(Procs)

(* The storages of a user never add up to more than one full quota for     *)
(* each server process (validate_size of StorageForm, then the commit).    *)
StorageOvershoot ==
  SizeSum(stor, Storages) <= ProcCount * (QuotaStorage + Grant)

(* An instance never has more storages than max_storage and one for each   *)
(* further process (StorageAdd.prepare, then the commit).                  *)
StoragePerInstance ==
  \A i \in Instances : Cardinality(StoragesOf(i)) <= max_storage + ProcCount - 1

(* A user never has more domains than the profile allows and one for each  *)
(* further process (DomainAdd.prepare, then the commit).                   *)
DomainOvershoot ==
  Cardinality(DomainRows) <= QuotaDomain + ProcCount - 1

(* A user never has more instance rows than the profile and the resources  *)
(* allow and one for each further process; deleted rows count.             *)
InstanceOvershoot ==
  Cardinality(Rows) <= QuotaInstance + Grant + ProcCount - 1

(* Once a delete has gone through to its DESTROY_INSTANCE job, the         *)
(* instance holds at most the storages and domains of requests that other  *)
(* processes had begun before: no later request can reach it.              *)
DeleteLeaves ==
  \A i \in Instances : inst[i] = "destroy" =>
    Cardinality(StoragesOf(i)) + Cardinality({d \in Domains : dom[d].i = i}) <= ProcCount - 1

(* What the comments on the columns of StoragePool say: total is the most  *)
(* a pool holds.                                                           *)
PoolLimit ==
  \A k \in Pools : SizeSum(stor, {s \in Storages : stor[s].pool = k}) <= PoolTotal
=============================================================================
