--------------------------- MODULE WebQuotaProofs ---------------------------
(* Proofs about WebQuota, for every number of processes, rows and limits.  *)
(*                                                                         *)
(* The limits themselves are not inductive: a commit adds a row without    *)
(* looking at them.  What is inductive counts the rows together with the   *)
(* requests that have passed the check and not yet committed: the check    *)
(* bounds the rows by the limit when a request joins the latter, of which  *)
(* there are at most as many as processes.  For a deleted instance the     *)
(* same sum is bounded from the moment its rows are freed, because no      *)
(* request can begin on it any more.  The sizes are treated likewise: the  *)
(* gigabytes stored and those of the requests past StorageForm.            *)
EXTENDS WebQuota, TLAPS, FiniteSetTheorems

StorageAdders == {"storageAdd", "storageAddOk"}
DomainAdders == {"domainAdd", "domainAddOk"}

(* Requests that have passed a check and may still add a row.              *)
AddingStorage(i) == {p \in Procs : req[p].op \in StorageAdders /\ req[p].i = i}
AddingDomain == {p \in Procs : req[p].op \in DomainAdders}
Creating == {p \in Procs : req[p].op = "instanceCreate"}
Reaching(i) == {p \in Procs : /\ req[p].op \in StorageAdders \cup DomainAdders
                              /\ req[p].i = i}
DomainsOf(i) == {d \in Domains : dom[d].i = i}

(* What a request has filled in by the step it has reached.                *)
Filled(r) ==
  /\ r.op \in StorageAdders \cup DomainAdders
              \cup {"instanceDelete", "instanceFree", "instanceJob"} => r.i \in Instances
  /\ r.op \in {"storageAddOk", "storageEditOk"} =>
       r.size \in Sizes /\ r.size <= PoolTotal /\ r.pool \in Pools
  /\ r.op \in {"storageEdit", "storageEditOk"} => r.row \in Storages /\ r.old \in Sizes
  /\ r.op \in {"domainAddOk", "domainEditOk"} => r.name \in Names
  /\ r.op = "domainEditOk" => r.row \in Domains

Types == QTypeOK /\ poolUsed = [k \in Pools |-> 0] /\ \A p \in Procs : Filled(req[p])

Gone(i) == inst[i] = "destroy" \/ \E p \in Procs : req[p].op = "instanceJob" /\ req[p].i = i

NotLive == \A p \in Procs :
  req[p].op \in {"instanceFree", "instanceJob"} => inst[req[p].i] # "live"

DomainBound == Cardinality(DomainRows) + Cardinality(AddingDomain) <= QuotaDomain + ProcCount - 1
InstanceBound ==
  Cardinality(Rows) + Cardinality(Creating) <= QuotaInstance + Grant + ProcCount - 1
StorageBoundAt(i) ==
  Cardinality(StoragesOf(i)) + Cardinality(AddingStorage(i)) <= max_storage + ProcCount - 1
StorageBound == \A i \in Instances : StorageBoundAt(i)
GoneBoundAt(i) == Gone(i) =>
  Cardinality(StoragesOf(i)) + Cardinality(DomainsOf(i)) + Cardinality(Reaching(i))
    <= ProcCount - 1
GoneBound == \A i \in Instances : GoneBoundAt(i)

Inv == Types /\ NotLive /\ DomainBound /\ InstanceBound /\ StorageBound /\ GoneBound

-----------------------------------------------------------------------------
(* Counting.                                                               *)

LEMMA Sub ==
  ASSUME NEW A, IsFiniteSet(A), NEW B, B \subseteq A
  PROVE  /\ IsFiniteSet(B) /\ Cardinality(A) \in Nat /\ Cardinality(B) \in Nat
         /\ Cardinality(B) <= Cardinality(A)
BY FS_Subset, FS_CardinalityType

LEMMA OneMore ==
  ASSUME NEW A, IsFiniteSet(A), NEW x, NEW B, B \subseteq A \cup {x}
  PROVE  Cardinality(B) \in Nat /\ Cardinality(B) <= Cardinality(A) + 1
<1>1. IsFiniteSet(A \cup {x}) /\ Cardinality(A \cup {x}) <= Cardinality(A) + 1
      /\ Cardinality(A \cup {x}) \in Nat /\ Cardinality(A) \in Nat
  BY FS_AddElement, FS_CardinalityType
<1>2. Cardinality(B) \in Nat /\ Cardinality(B) <= Cardinality(A \cup {x})
  BY <1>1, Sub
<1> QED BY <1>1, <1>2

LEMMA OneLess ==
  ASSUME NEW A, IsFiniteSet(A), NEW x \in A, NEW B, B \subseteq A \ {x}
  PROVE  Cardinality(B) \in Nat /\ Cardinality(A) \in Nat /\ Cardinality(B) <= Cardinality(A) - 1
<1>1. IsFiniteSet(A \ {x}) /\ Cardinality(A \ {x}) = Cardinality(A) - 1
      /\ Cardinality(A) \in Nat
  BY FS_RemoveElement, FS_CardinalityType
<1>2. Cardinality(B) \in Nat /\ Cardinality(B) <= Cardinality(A \ {x})
  BY <1>1, Sub
<1> QED BY <1>1, <1>2

LEMMA Counts ==
  /\ ProcCount \in Nat /\ ProcCount >= 1
  /\ IsFiniteSet(Rows) /\ IsFiniteSet(DomainRows)
  /\ IsFiniteSet(Creating) /\ IsFiniteSet(AddingDomain)
  /\ \A i : /\ IsFiniteSet(StoragesOf(i)) /\ IsFiniteSet(DomainsOf(i))
            /\ IsFiniteSet(AddingStorage(i)) /\ IsFiniteSet(Reaching(i))
<1>1. Cardinality(Procs) \in Nat /\ Cardinality(Procs) # 0
  BY ProcsAssumption, FS_CardinalityType, FS_EmptySet
<1>2. ProcCount \in Nat /\ ProcCount >= 1
  BY <1>1 DEF ProcCount
<1>3. IsFiniteSet(Rows) /\ IsFiniteSet(DomainRows) /\ IsFiniteSet(Creating)
      /\ IsFiniteSet(AddingDomain)
  BY ProcsAssumption, RowsAssumption, FS_Subset DEF Rows, DomainRows, Creating, AddingDomain
<1>4. ASSUME NEW i
      PROVE  /\ IsFiniteSet(StoragesOf(i)) /\ IsFiniteSet(DomainsOf(i))
             /\ IsFiniteSet(AddingStorage(i)) /\ IsFiniteSet(Reaching(i))
  BY ProcsAssumption, RowsAssumption, FS_Subset
     DEF StoragesOf, DomainsOf, AddingStorage, Reaching
<1> QED BY <1>2, <1>3, <1>4

-----------------------------------------------------------------------------
(* Each bound survives a step that adds nothing to what it counts.         *)

LEMMA DomainLess ==
  ASSUME Inv, DomainRows' \subseteq DomainRows, AddingDomain' \subseteq AddingDomain
  PROVE  DomainBound'
<1>1. Cardinality(DomainRows') <= Cardinality(DomainRows) /\ Cardinality(DomainRows) \in Nat
      /\ Cardinality(DomainRows') \in Nat
  BY Counts, Sub
<1>2. Cardinality(AddingDomain') <= Cardinality(AddingDomain)
      /\ Cardinality(AddingDomain) \in Nat /\ Cardinality(AddingDomain') \in Nat
  BY Counts, Sub
<1>3. ProcCount' = ProcCount BY DEF ProcCount
<1> QED BY <1>1, <1>2, <1>3, Counts, LimitsAssumption DEF Inv, DomainBound

LEMMA InstanceLess ==
  ASSUME Inv, Rows' \subseteq Rows, Creating' \subseteq Creating
  PROVE  InstanceBound'
<1>1. Cardinality(Rows') <= Cardinality(Rows) /\ Cardinality(Rows) \in Nat
      /\ Cardinality(Rows') \in Nat
  BY Counts, Sub
<1>2. Cardinality(Creating') <= Cardinality(Creating)
      /\ Cardinality(Creating) \in Nat /\ Cardinality(Creating') \in Nat
  BY Counts, Sub
<1>3. ProcCount' = ProcCount BY DEF ProcCount
<1> QED BY <1>1, <1>2, <1>3, Counts, LimitsAssumption DEF Inv, InstanceBound

LEMMA StorageLess ==
  ASSUME Inv, NEW i \in Instances, StoragesOf(i)' \subseteq StoragesOf(i),
         AddingStorage(i)' \subseteq AddingStorage(i)
  PROVE  StorageBoundAt(i)'
<1>1. Cardinality(StoragesOf(i)') <= Cardinality(StoragesOf(i))
      /\ Cardinality(StoragesOf(i)) \in Nat /\ Cardinality(StoragesOf(i)') \in Nat
  BY Counts, Sub
<1>2. Cardinality(AddingStorage(i)') <= Cardinality(AddingStorage(i))
      /\ Cardinality(AddingStorage(i)) \in Nat /\ Cardinality(AddingStorage(i)') \in Nat
  BY Counts, Sub
<1>3. ProcCount' = ProcCount BY DEF ProcCount
<1> QED BY <1>1, <1>2, <1>3, Counts DEF Inv, StorageBound, StorageBoundAt, max_storage

LEMMA GoneLess ==
  ASSUME Inv, NEW i \in Instances, StoragesOf(i)' \subseteq StoragesOf(i),
         DomainsOf(i)' \subseteq DomainsOf(i), Reaching(i)' \subseteq Reaching(i),
         Gone(i)' => Gone(i)
  PROVE  GoneBoundAt(i)'
<1>1. Cardinality(StoragesOf(i)') <= Cardinality(StoragesOf(i))
      /\ Cardinality(StoragesOf(i)) \in Nat /\ Cardinality(StoragesOf(i)') \in Nat
  BY Counts, Sub
<1>2. Cardinality(DomainsOf(i)') <= Cardinality(DomainsOf(i))
      /\ Cardinality(DomainsOf(i)) \in Nat /\ Cardinality(DomainsOf(i)') \in Nat
  BY Counts, Sub
<1>3. Cardinality(Reaching(i)') <= Cardinality(Reaching(i))
      /\ Cardinality(Reaching(i)) \in Nat /\ Cardinality(Reaching(i)') \in Nat
  BY Counts, Sub
<1>4. ProcCount' = ProcCount BY DEF ProcCount
<1>5. SUFFICES ASSUME Gone(i)
               PROVE  Cardinality(StoragesOf(i)') + Cardinality(DomainsOf(i)')
                        + Cardinality(Reaching(i)') <= ProcCount - 1
  BY <1>4 DEF GoneBoundAt
<1>6. Cardinality(StoragesOf(i)) + Cardinality(DomainsOf(i)) + Cardinality(Reaching(i))
        <= ProcCount - 1
  BY <1>5 DEF Inv, GoneBound, GoneBoundAt
<1> QED BY <1>1, <1>2, <1>3, <1>6, Counts

-----------------------------------------------------------------------------
(* What a step does to each request, and what to each row.  A request is   *)
(* quiet when it joins none of the counts.                                 *)

QuietFor(old, new) ==
  \/ new = old
  \/ new.op \notin StorageAdders \cup DomainAdders \cup {"instanceCreate", "instanceJob"}
  \/ /\ new.i = old.i
     /\ \/ new.op \in StorageAdders /\ old.op \in StorageAdders
        \/ new.op \in DomainAdders /\ old.op \in DomainAdders

QuietRequests == \A q \in Procs : QuietFor(req[q], req'[q])

QuietStorages == \A s \in Storages : stor'[s].i \in {stor[s].i, None}
QuietDomains == \A d \in Domains : dom'[d].i \in {dom[d].i, None}
QuietInstances ==
  \A i \in Instances : /\ inst'[i] # "none" => inst[i] # "none"
                       /\ inst'[i] = "destroy" => Gone(i)

Ends(p) == req'[p] = Idle /\ \A q \in Procs \ {p} : req'[q] = req[q]

LEMMA QuietRequestSets ==
  ASSUME QuietRequests
  PROVE  /\ AddingDomain' \subseteq AddingDomain /\ Creating' \subseteq Creating
         /\ \A i : /\ AddingStorage(i)' \subseteq AddingStorage(i)
                   /\ Reaching(i)' \subseteq Reaching(i)
<1>1. AddingDomain' \subseteq AddingDomain
  BY DEF QuietRequests, QuietFor, AddingDomain, StorageAdders, DomainAdders
<1>2. Creating' \subseteq Creating
  BY DEF QuietRequests, QuietFor, Creating, StorageAdders, DomainAdders
<1>3. ASSUME NEW i PROVE AddingStorage(i)' \subseteq AddingStorage(i)
  BY DEF QuietRequests, QuietFor, AddingStorage, StorageAdders, DomainAdders
<1>4. ASSUME NEW i PROVE Reaching(i)' \subseteq Reaching(i)
  BY DEF QuietRequests, QuietFor, Reaching, StorageAdders, DomainAdders
<1> QED BY <1>1, <1>2, <1>3, <1>4

LEMMA QuietRowSets ==
  /\ QuietStorages => \A i \in Instances : StoragesOf(i)' \subseteq StoragesOf(i)
  /\ QuietDomains => /\ DomainRows' \subseteq DomainRows
                     /\ \A i \in Instances : DomainsOf(i)' \subseteq DomainsOf(i)
  /\ QuietInstances => Rows' \subseteq Rows
<1>1. \A i \in Instances : i # None BY NoneAssumption
<1> QED BY <1>1 DEF QuietStorages, QuietDomains, QuietInstances, StoragesOf, DomainRows,
                    DomainsOf, Rows

LEMMA QuietGone ==
  ASSUME QuietRequests, QuietInstances, NEW i \in Instances
  PROVE  Gone(i)' => Gone(i)
BY DEF QuietRequests, QuietFor, QuietInstances, Gone, StorageAdders, DomainAdders

LEMMA QuietBounds ==
  ASSUME Inv, QuietRequests, QuietStorages, QuietDomains, QuietInstances
  PROVE  DomainBound' /\ InstanceBound' /\ StorageBound' /\ GoneBound'
<1>1. DomainBound' BY QuietRequestSets, QuietRowSets, DomainLess
<1>2. InstanceBound' BY QuietRequestSets, QuietRowSets, InstanceLess
<1>3. ASSUME NEW i \in Instances PROVE StorageBoundAt(i)'
  BY QuietRequestSets, QuietRowSets, StorageLess
<1>4. ASSUME NEW i \in Instances PROVE GoneBoundAt(i)'
  BY QuietRequestSets, QuietRowSets, QuietGone, GoneLess
<1> QED BY <1>1, <1>2, <1>3, <1>4 DEF StorageBound, GoneBound

(* A process whose request becomes r: the types of the requests.           *)
LEMMA Becomes ==
  ASSUME Inv, NEW p \in Procs, NEW r \in Requests, Filled(r),
         req' = [req EXCEPT ![p] = r]
  PROVE  /\ req' \in [Procs -> Requests] /\ \A q \in Procs : Filled(req'[q])
         /\ req'[p] = r /\ \A q \in Procs \ {p} : req'[q] = req[q]
         /\ QuietFor(req[p], r) => QuietRequests
<1>1. /\ req' \in [Procs -> Requests] /\ \A q \in Procs : Filled(req'[q])
      /\ req'[p] = r /\ \A q \in Procs \ {p} : req'[q] = req[q]
  BY DEF Inv, Types, QTypeOK
<1>2. QuietFor(req[p], r) => QuietRequests
  BY <1>1 DEF QuietRequests, QuietFor
<1> QED BY <1>1, <1>2

LEMMA IdleFilled == /\ Idle \in Requests /\ Filled(Idle) /\ Idle.op = "idle"
                    /\ Idle.i = None /\ Idle.row = None
BY DEF Idle, Requests, Ops, Filled, StorageAdders, DomainAdders

LEMMA FinishReq ==
  ASSUME Inv, NEW p \in Procs, Finish(p)
  PROVE  /\ req' \in [Procs -> Requests] /\ \A q \in Procs : Filled(req'[q])
         /\ Ends(p) /\ QuietRequests
<1>1. QuietFor(req[p], Idle) BY IdleFilled DEF QuietFor, StorageAdders, DomainAdders
<1> QED BY <1>1, IdleFilled, Becomes DEF Finish, Ends

(* The request of a process, in its types.                                 *)
LEMMA Served ==
  ASSUME Inv, NEW p \in Procs
  PROVE  req[p] \in Requests /\ Filled(req[p])
BY DEF Inv, Types, QTypeOK

(* A step that only reads: the rows stay.                                  *)
LEMMA Reads ==
  ASSUME Inv, NEW p \in Procs, NEW r \in Requests, Filled(r),
         r.op \notin {"instanceFree", "instanceJob"},
         req' = [req EXCEPT ![p] = r], UNCHANGED <<inst, stor, dom, poolUsed, granted>>
  PROVE  /\ Types' /\ NotLive' /\ QuietStorages /\ QuietDomains /\ QuietInstances
         /\ req'[p] = r /\ \A q \in Procs \ {p} : req'[q] = req[q]
         /\ QuietFor(req[p], r) => Inv'
<1>1. /\ req' \in [Procs -> Requests] /\ \A q \in Procs : Filled(req'[q])
      /\ req'[p] = r /\ \A q \in Procs \ {p} : req'[q] = req[q]
      /\ QuietFor(req[p], r) => QuietRequests
  BY Becomes
<1>2. Types' BY <1>1 DEF Inv, Types, QTypeOK
<1>3. NotLive' BY <1>1 DEF Inv, NotLive
<1>4. QuietStorages /\ QuietDomains /\ QuietInstances
  BY DEF QuietStorages, QuietDomains, QuietInstances, Gone
<1>5. QuietFor(req[p], r) => Inv'
  BY <1>1, <1>2, <1>3, <1>4, QuietBounds DEF Inv
<1> QED BY <1>1, <1>2, <1>3, <1>4, <1>5

LEMMA StorageAddValidateInv ==
  ASSUME Inv, NEW p \in Procs, StorageAddValidate(p)
  PROVE  Inv'
<1>1. PICK size \in Sizes, k \in Pools :
        /\ StorageForm(size, k)
        /\ req' = [req EXCEPT ![p].op = "storageAddOk", ![p].size = size, ![p].pool = k]
  BY DEF StorageAddValidate
<1> DEFINE r == [req[p] EXCEPT !.op = "storageAddOk", !.size = size, !.pool = k]
<1>2. req' = [req EXCEPT ![p] = r] BY <1>1 DEF Inv, Types, QTypeOK, Requests
<1>3. req[p].op = "storageAdd" BY DEF StorageAddValidate
<1>4. size <= PoolTotal
  BY <1>1, LimitsAssumption DEF StorageForm, remain, Inv, Types
<1>5. r \in Requests /\ r.op = "storageAddOk" /\ r.i = req[p].i
      /\ r.size = size /\ r.pool = k
  BY Served DEF Requests, Ops
<1>6. Filled(r)
  BY <1>3, <1>4, <1>5, Served DEF Filled, StorageAdders, DomainAdders
<1>7. QuietFor(req[p], r) BY <1>3, <1>5 DEF QuietFor, StorageAdders
<1> HIDE DEF r
<1> QED BY <1>2, <1>5, <1>6, <1>7, Reads DEF StorageAddValidate

LEMMA StorageEditInitializeInv ==
  ASSUME Inv, NEW p \in Procs, NEW s \in Storages, StorageEditInitialize(p, s)
  PROVE  Inv'
<1> DEFINE r == [Idle EXCEPT !.op = "storageEdit", !.row = s, !.old = stor[s].size]
<1>1. stor[s] \in [i : Instances, size : Sizes, pool : Pools]
  BY DEF StorageEditInitialize, Inv, Types, QTypeOK, StorageRow, NoStorage
<1>2. r \in Requests /\ r.op = "storageEdit" /\ r.row = s /\ r.old = stor[s].size
  BY <1>1 DEF Idle, Requests, Ops
<1>3. Filled(r) BY <1>1, <1>2 DEF Filled, StorageAdders, DomainAdders
<1>4. QuietFor(req[p], r) BY <1>2 DEF QuietFor, StorageAdders, DomainAdders
<1>5. req' = [req EXCEPT ![p] = r] BY DEF StorageEditInitialize
<1> HIDE DEF r
<1> QED BY <1>2, <1>3, <1>4, <1>5, Reads DEF StorageEditInitialize

LEMMA StorageEditValidateInv ==
  ASSUME Inv, NEW p \in Procs, StorageEditValidate(p)
  PROVE  Inv'
<1>1. PICK size \in Sizes, k \in Pools :
        /\ StorageForm(size, k)
        /\ req' = [req EXCEPT ![p].op = "storageEditOk", ![p].size = size, ![p].pool = k]
  BY DEF StorageEditValidate
<1> DEFINE r == [req[p] EXCEPT !.op = "storageEditOk", !.size = size, !.pool = k]
<1>2. req' = [req EXCEPT ![p] = r] BY <1>1 DEF Inv, Types, QTypeOK, Requests
<1>3. req[p].op = "storageEdit" BY DEF StorageEditValidate
<1>4. size <= PoolTotal
  BY <1>1, LimitsAssumption DEF StorageForm, remain, Inv, Types
<1>5. r \in Requests /\ r.op = "storageEditOk" /\ r.row = req[p].row
      /\ r.size = size /\ r.pool = k /\ r.old = req[p].old
  BY Served DEF Requests, Ops
<1>6. Filled(r)
  BY <1>3, <1>4, <1>5, Served DEF Filled, StorageAdders, DomainAdders
<1>7. QuietFor(req[p], r) BY <1>5 DEF QuietFor, StorageAdders, DomainAdders
<1> HIDE DEF r
<1> QED BY <1>2, <1>5, <1>6, <1>7, Reads DEF StorageEditValidate

LEMMA DomainAddValidateInv ==
  ASSUME Inv, NEW p \in Procs, DomainAddValidate(p)
  PROVE  Inv'
<1>1. PICK name \in Names :
        req' = [req EXCEPT ![p].op = "domainAddOk", ![p].name = name]
  BY DEF DomainAddValidate
<1> DEFINE r == [req[p] EXCEPT !.op = "domainAddOk", !.name = name]
<1>2. req' = [req EXCEPT ![p] = r] BY <1>1 DEF Inv, Types, QTypeOK, Requests
<1>3. req[p].op = "domainAdd" BY DEF DomainAddValidate
<1>4. r \in Requests /\ r.op = "domainAddOk" /\ r.i = req[p].i /\ r.name = name
  BY Served DEF Requests, Ops
<1>5. Filled(r)
  BY <1>3, <1>4, Served DEF Filled, StorageAdders, DomainAdders
<1>6. QuietFor(req[p], r) BY <1>3, <1>4 DEF QuietFor, DomainAdders
<1> HIDE DEF r
<1> QED BY <1>2, <1>4, <1>5, <1>6, Reads DEF DomainAddValidate

LEMMA DomainEditValidateInv ==
  ASSUME Inv, NEW p \in Procs, NEW d \in Domains, DomainEditValidate(p, d)
  PROVE  Inv'
<1>1. PICK name \in Names :
        req' = [req EXCEPT ![p] = [Idle EXCEPT !.op = "domainEditOk", !.row = d,
                                               !.name = name]]
  BY DEF DomainEditValidate
<1> DEFINE r == [Idle EXCEPT !.op = "domainEditOk", !.row = d, !.name = name]
<1>2. r \in Requests /\ r.op = "domainEditOk" /\ r.row = d /\ r.name = name
  BY DEF Idle, Requests, Ops
<1>3. Filled(r) BY <1>2 DEF Filled, StorageAdders, DomainAdders
<1>4. QuietFor(req[p], r) BY <1>2 DEF QuietFor, StorageAdders, DomainAdders
<1>5. req' = [req EXCEPT ![p] = r] BY <1>1
<1> HIDE DEF r
<1> QED BY <1>2, <1>3, <1>4, <1>5, Reads DEF DomainEditValidate

LEMMA InstanceDeleteCheckInv ==
  ASSUME Inv, NEW p \in Procs, NEW i \in Instances, InstanceDeleteCheck(p, i)
  PROVE  Inv'
<1> DEFINE r == [Idle EXCEPT !.op = "instanceDelete", !.i = i]
<1>1. r \in Requests /\ r.op = "instanceDelete" /\ r.i = i
  BY DEF Idle, Requests, Ops
<1>2. Filled(r) BY <1>1 DEF Filled, StorageAdders, DomainAdders
<1>3. QuietFor(req[p], r) BY <1>1 DEF QuietFor, StorageAdders, DomainAdders
<1>4. req' = [req EXCEPT ![p] = r] BY DEF InstanceDeleteCheck
<1> HIDE DEF r
<1> QED BY <1>1, <1>2, <1>3, <1>4, Reads DEF InstanceDeleteCheck

LEMMA FailInv ==
  ASSUME Inv, NEW p \in Procs, Fail(p)
  PROVE  Inv'
<1>1. QuietFor(req[p], Idle) BY IdleFilled DEF QuietFor, StorageAdders, DomainAdders
<1>2. req' = [req EXCEPT ![p] = Idle] BY DEF Fail, Finish
<1>3. UNCHANGED <<inst, stor, dom, poolUsed, granted>> BY DEF Fail
<1> QED BY <1>1, <1>2, <1>3, IdleFilled, Reads

-----------------------------------------------------------------------------
(* Steps that join a count: the check has just bounded the rows.           *)

LEMMA StorageAddPrepareInv ==
  ASSUME Inv, NEW p \in Procs, NEW i \in Instances, StorageAddPrepare(p, i)
  PROVE  Inv'
<1> DEFINE r == [Idle EXCEPT !.op = "storageAdd", !.i = i]
<1>1. r \in Requests /\ r.op = "storageAdd" /\ r.i = i
  BY DEF Idle, Requests, Ops
<1>2. Filled(r) BY <1>1 DEF Filled, StorageAdders, DomainAdders
<1>3. req' = [req EXCEPT ![p] = r] BY DEF StorageAddPrepare
<1>4. UNCHANGED <<inst, stor, dom, poolUsed, granted>> BY DEF StorageAddPrepare
<1> HIDE DEF r
<1>5. /\ Types' /\ NotLive' /\ QuietStorages /\ QuietDomains /\ QuietInstances
      /\ req'[p] = r /\ \A q \in Procs \ {p} : req'[q] = req[q]
  BY <1>1, <1>2, <1>3, <1>4, Reads
<1>6. AddingDomain' \subseteq AddingDomain /\ Creating' \subseteq Creating
  BY <1>1, <1>5 DEF AddingDomain, Creating, DomainAdders
<1>7. \A j \in Instances : /\ AddingStorage(j)' \subseteq AddingStorage(j) \/ j = i
                           /\ Reaching(j)' \subseteq Reaching(j) \/ j = i
  BY <1>1, <1>5 DEF AddingStorage, Reaching
<1>8. StorageBoundAt(i)'
  <2>1. Cardinality(StoragesOf(i)) < 1
    BY DEF StorageAddPrepare, max_storage
  <2>2. StoragesOf(i)' = StoragesOf(i) BY <1>4 DEF StoragesOf
  <2>3. AddingStorage(i)' \subseteq Procs BY DEF AddingStorage
  <2>4. Cardinality(AddingStorage(i)') \in Nat /\ Cardinality(AddingStorage(i)') <= ProcCount
    BY <2>3, ProcsAssumption, Sub DEF ProcCount
  <2>5. Cardinality(StoragesOf(i)) \in Nat BY Counts, FS_CardinalityType
  <2>6. ProcCount' = ProcCount BY DEF ProcCount
  <2> QED BY <2>1, <2>2, <2>4, <2>5, <2>6, Counts DEF StorageBoundAt, max_storage
<1>9. GoneBoundAt(i)'
  <2>1. inst'[i] = "live" BY <1>4 DEF StorageAddPrepare, set_myinstance
  <2>2. ~Gone(i)' BY <2>1, <1>5 DEF Gone, NotLive
  <2> QED BY <2>2 DEF GoneBoundAt
<1>10. \A j \in Instances : (Gone(j)' => Gone(j))
  BY <1>1, <1>4, <1>5 DEF Gone
<1>11. DomainBound' /\ InstanceBound'
  BY <1>5, <1>6, QuietRowSets, DomainLess, InstanceLess
<1>12. ASSUME NEW j \in Instances PROVE StorageBoundAt(j)'
  BY <1>5, <1>7, <1>8, QuietRowSets, StorageLess
<1>13. ASSUME NEW j \in Instances PROVE GoneBoundAt(j)'
  BY <1>5, <1>7, <1>9, <1>10, QuietRowSets, GoneLess
<1> QED BY <1>5, <1>11, <1>12, <1>13 DEF Inv, StorageBound, GoneBound

LEMMA DomainAddPrepareInv ==
  ASSUME Inv, NEW p \in Procs, NEW i \in Instances, DomainAddPrepare(p, i)
  PROVE  Inv'
<1> DEFINE r == [Idle EXCEPT !.op = "domainAdd", !.i = i]
<1>1. r \in Requests /\ r.op = "domainAdd" /\ r.i = i
  BY DEF Idle, Requests, Ops
<1>2. Filled(r) BY <1>1 DEF Filled, StorageAdders, DomainAdders
<1>3. req' = [req EXCEPT ![p] = r] BY DEF DomainAddPrepare
<1>4. UNCHANGED <<inst, stor, dom, poolUsed, granted>> BY DEF DomainAddPrepare
<1> HIDE DEF r
<1>5. /\ Types' /\ NotLive' /\ QuietStorages /\ QuietDomains /\ QuietInstances
      /\ req'[p] = r /\ \A q \in Procs \ {p} : req'[q] = req[q]
  BY <1>1, <1>2, <1>3, <1>4, Reads
<1>6. Creating' \subseteq Creating BY <1>1, <1>5 DEF Creating
<1>7. \A j \in Instances : /\ AddingStorage(j)' \subseteq AddingStorage(j)
                           /\ Reaching(j)' \subseteq Reaching(j) \/ j = i
  BY <1>1, <1>5 DEF AddingStorage, Reaching, StorageAdders
<1>8. DomainBound'
  <2>1. Cardinality(DomainRows) < QuotaDomain BY DEF DomainAddPrepare
  <2>2. DomainRows' = DomainRows BY <1>4 DEF DomainRows
  <2>3. AddingDomain' \subseteq Procs BY DEF AddingDomain
  <2>4. Cardinality(AddingDomain') \in Nat /\ Cardinality(AddingDomain') <= ProcCount
    BY <2>3, ProcsAssumption, Sub DEF ProcCount
  <2>5. Cardinality(DomainRows) \in Nat BY Counts, FS_CardinalityType
  <2>6. ProcCount' = ProcCount BY DEF ProcCount
  <2> QED BY <2>1, <2>2, <2>4, <2>5, <2>6, Counts, LimitsAssumption DEF DomainBound
<1>9. GoneBoundAt(i)'
  <2>1. inst'[i] = "live" BY <1>4 DEF DomainAddPrepare, set_myinstance
  <2>2. ~Gone(i)' BY <2>1, <1>5 DEF Gone, NotLive
  <2> QED BY <2>2 DEF GoneBoundAt
<1>10. \A j \in Instances : (Gone(j)' => Gone(j))
  BY <1>1, <1>4, <1>5 DEF Gone
<1>11. InstanceBound' BY <1>5, <1>6, QuietRowSets, InstanceLess
<1>12. ASSUME NEW j \in Instances PROVE StorageBoundAt(j)'
  BY <1>5, <1>7, QuietRowSets, StorageLess
<1>13. ASSUME NEW j \in Instances PROVE GoneBoundAt(j)'
  BY <1>5, <1>7, <1>9, <1>10, QuietRowSets, GoneLess
<1> QED BY <1>5, <1>8, <1>11, <1>12, <1>13 DEF Inv, StorageBound, GoneBound

LEMMA InstanceCreatePrepareInv ==
  ASSUME Inv, NEW p \in Procs, InstanceCreatePrepare(p)
  PROVE  Inv'
<1> DEFINE r == [Idle EXCEPT !.op = "instanceCreate"]
<1>1. r \in Requests /\ r.op = "instanceCreate" BY DEF Idle, Requests, Ops
<1>2. Filled(r) BY <1>1 DEF Filled, StorageAdders, DomainAdders
<1>3. req' = [req EXCEPT ![p] = r] BY DEF InstanceCreatePrepare
<1>4. UNCHANGED <<inst, stor, dom, poolUsed, granted>> BY DEF InstanceCreatePrepare
<1> HIDE DEF r
<1>5. /\ Types' /\ NotLive' /\ QuietStorages /\ QuietDomains /\ QuietInstances
      /\ req'[p] = r /\ \A q \in Procs \ {p} : req'[q] = req[q]
  BY <1>1, <1>2, <1>3, <1>4, Reads
<1>6. AddingDomain' \subseteq AddingDomain BY <1>1, <1>5 DEF AddingDomain, DomainAdders
<1>7. \A j \in Instances : /\ AddingStorage(j)' \subseteq AddingStorage(j)
                           /\ Reaching(j)' \subseteq Reaching(j)
  BY <1>1, <1>5 DEF AddingStorage, Reaching, StorageAdders, DomainAdders
<1>8. InstanceBound'
  <2>1. Cardinality(Rows) \in Nat BY Counts, FS_CardinalityType
  <2>2. Granted \in Nat /\ Granted <= Grant BY LimitsAssumption DEF Granted
  <2>3. Cardinality(Rows) < QuotaInstance + Grant
    BY <2>1, <2>2, LimitsAssumption DEF InstanceCreatePrepare, instance_remain, Left
  <2>4. Rows' = Rows BY <1>4 DEF Rows
  <2>5. Creating' \subseteq Procs BY DEF Creating
  <2>6. Cardinality(Creating') \in Nat /\ Cardinality(Creating') <= ProcCount
    BY <2>5, ProcsAssumption, Sub DEF ProcCount
  <2>7. ProcCount' = ProcCount BY DEF ProcCount
  <2> QED BY <2>1, <2>3, <2>4, <2>6, <2>7, Counts, LimitsAssumption DEF InstanceBound
<1>9. \A j \in Instances : (Gone(j)' => Gone(j))
  BY <1>1, <1>4, <1>5 DEF Gone
<1>10. DomainBound' BY <1>5, <1>6, QuietRowSets, DomainLess
<1>11. ASSUME NEW j \in Instances PROVE StorageBoundAt(j)'
  BY <1>5, <1>7, QuietRowSets, StorageLess
<1>12. ASSUME NEW j \in Instances PROVE GoneBoundAt(j)'
  BY <1>5, <1>7, <1>9, QuietRowSets, GoneLess
<1> QED BY <1>5, <1>8, <1>10, <1>11, <1>12 DEF Inv, StorageBound, GoneBound

-----------------------------------------------------------------------------
(* Steps that add a row and leave a count.                                 *)

LEMMA StorageAddCommitInv ==
  ASSUME Inv, NEW p \in Procs, StorageAddCommit(p)
  PROVE  Inv'
<1>0. PICK i, size : i = req[p].i /\ size = StorageSize(req[p].size, req[p].pool)
  OBVIOUS
<1>1. PICK s \in FreshStorages :
        /\ stor' = [stor EXCEPT ![s] = [i |-> i, pool |-> req[p].pool, size |-> size]]
        /\ poolUsed' = poolUsed
  BY <1>0 DEF StorageAddCommit, on_finish
<1>2. UNCHANGED <<inst, dom, granted>> /\ Finish(p) /\ req[p].op = "storageAddOk"
  BY DEF StorageAddCommit
<1>3. /\ req' \in [Procs -> Requests] /\ \A q \in Procs : Filled(req'[q])
      /\ Ends(p) /\ QuietRequests
  BY <1>2, FinishReq
<1>4. i \in Instances /\ req[p].size \in Sizes /\ req[p].size <= PoolTotal
      /\ req[p].pool \in Pools
  BY <1>0, <1>2, Served DEF Filled, StorageAdders
<1>5. size \in Sizes
  <2>1. poolUsed[req[p].pool] = 0 BY <1>4 DEF Inv, Types
  <2>2. PoolTotal \in Nat BY LimitsAssumption
  <2>3. req[p].size \in Nat BY <1>4, LimitsAssumption
  <2>4. remain(req[p].pool) = PoolTotal BY <2>1, <2>2 DEF remain
  <2>5. size = req[p].size
    BY <2>2, <2>3, <2>4, <1>0, <1>4 DEF StorageSize
  <2> QED BY <2>5, <1>4
<1>6. s \in Storages BY DEF FreshStorages
<1>7. stor' \in [Storages -> StorageRow]
  BY <1>1, <1>4, <1>5, <1>6 DEF Inv, Types, QTypeOK, StorageRow
<1>8. Types' BY <1>1, <1>2, <1>3, <1>7 DEF Inv, Types, QTypeOK
<1>9. NotLive' BY <1>2, <1>3, IdleFilled DEF Ends, Inv, NotLive
<1>10. QuietDomains /\ QuietInstances BY <1>2 DEF QuietDomains, QuietInstances, Gone
<1>11. \A t \in Storages : t # s => stor'[t] = stor[t]
  BY <1>1, <1>6 DEF Inv, Types, QTypeOK
<1>12. stor'[s].i = i BY <1>1, <1>6 DEF Inv, Types, QTypeOK
<1>13. StoragesOf(i)' \subseteq StoragesOf(i) \cup {s}
       /\ \A j \in Instances \ {i} : StoragesOf(j)' \subseteq StoragesOf(j)
  BY <1>6, <1>11, <1>12 DEF StoragesOf
<1>14. /\ p \in AddingStorage(i) /\ AddingStorage(i)' \subseteq AddingStorage(i) \ {p}
       /\ p \in Reaching(i) /\ Reaching(i)' \subseteq Reaching(i) \ {p}
  BY <1>0, <1>2, <1>3, IdleFilled
     DEF Ends, AddingStorage, Reaching, StorageAdders, DomainAdders
<1>15. /\ Cardinality(StoragesOf(i)') \in Nat /\ Cardinality(StoragesOf(i)) \in Nat
       /\ Cardinality(StoragesOf(i)') <= Cardinality(StoragesOf(i)) + 1
  BY <1>13, Counts, OneMore, FS_CardinalityType
<1>16. ProcCount' = ProcCount BY DEF ProcCount
<1>17. StorageBoundAt(i)'
  <2>1. /\ Cardinality(AddingStorage(i)') \in Nat /\ Cardinality(AddingStorage(i)) \in Nat
        /\ Cardinality(AddingStorage(i)') <= Cardinality(AddingStorage(i)) - 1
    BY <1>14, Counts, OneLess
  <2>2. StorageBoundAt(i) BY <1>4 DEF Inv, StorageBound
  <2> QED BY <2>1, <2>2, <1>15, <1>16, Counts DEF StorageBoundAt, max_storage
<1>18. GoneBoundAt(i)'
  <2>1. /\ Cardinality(Reaching(i)') \in Nat /\ Cardinality(Reaching(i)) \in Nat
        /\ Cardinality(Reaching(i)') <= Cardinality(Reaching(i)) - 1
    BY <1>14, Counts, OneLess
  <2>2. DomainsOf(i)' = DomainsOf(i) /\ Cardinality(DomainsOf(i)) \in Nat
    BY <1>2, Counts, FS_CardinalityType DEF DomainsOf
  <2>3. (Gone(i)' => Gone(i)) /\ GoneBoundAt(i)
    BY <1>3, <1>4, <1>10, QuietGone DEF Inv, GoneBound
  <2> QED BY <2>1, <2>2, <2>3, <1>15, <1>16, Counts DEF GoneBoundAt
<1>19. DomainBound' /\ InstanceBound'
  BY <1>3, <1>10, QuietRequestSets, QuietRowSets, DomainLess, InstanceLess
<1>20. ASSUME NEW j \in Instances PROVE StorageBoundAt(j)' /\ GoneBoundAt(j)'
  <2>1. CASE j = i BY <2>1, <1>17, <1>18
  <2>2. CASE j # i
    <3>1. StorageBoundAt(j)' BY <2>2, <1>3, <1>13, QuietRequestSets, StorageLess
    <3>2. GoneBoundAt(j)'
      BY <2>2, <1>3, <1>10, <1>13, QuietRequestSets, QuietRowSets, QuietGone, GoneLess
    <3> QED BY <3>1, <3>2
  <2> QED BY <2>1, <2>2
<1> QED BY <1>8, <1>9, <1>19, <1>20 DEF Inv, StorageBound, GoneBound

LEMMA DomainAddCommitInv ==
  ASSUME Inv, NEW p \in Procs, DomainAddCommit(p)
  PROVE  Inv'
<1>0. PICK i : i = req[p].i OBVIOUS
<1>1. PICK d \in FreshDomains : dom' = [dom EXCEPT ![d] = [i |-> i, name |-> req[p].name]]
  BY <1>0 DEF DomainAddCommit
<1>2. UNCHANGED <<inst, stor, poolUsed, granted>> /\ Finish(p) /\ req[p].op = "domainAddOk"
  BY DEF DomainAddCommit
<1>3. /\ req' \in [Procs -> Requests] /\ \A q \in Procs : Filled(req'[q])
      /\ Ends(p) /\ QuietRequests
  BY <1>2, FinishReq
<1>4. i \in Instances /\ req[p].name \in Names
  BY <1>0, <1>2, Served DEF Filled, DomainAdders
<1>5. d \in Domains BY DEF FreshDomains
<1>6. dom' \in [Domains -> DomainRow]
  BY <1>1, <1>4, <1>5 DEF Inv, Types, QTypeOK, DomainRow
<1>7. Types' BY <1>2, <1>3, <1>6 DEF Inv, Types, QTypeOK
<1>8. NotLive' BY <1>2, <1>3, IdleFilled DEF Ends, Inv, NotLive
<1>9. QuietStorages /\ QuietInstances BY <1>2 DEF QuietStorages, QuietInstances, Gone
<1>10. \A e \in Domains : e # d => dom'[e] = dom[e]
  BY <1>1, <1>5 DEF Inv, Types, QTypeOK
<1>11. dom'[d].i = i BY <1>1, <1>5 DEF Inv, Types, QTypeOK
<1>12. /\ DomainRows' \subseteq DomainRows \cup {d}
       /\ DomainsOf(i)' \subseteq DomainsOf(i) \cup {d}
       /\ \A j \in Instances \ {i} : DomainsOf(j)' \subseteq DomainsOf(j)
  BY <1>5, <1>10, <1>11 DEF DomainRows, DomainsOf
<1>13. /\ p \in AddingDomain /\ AddingDomain' \subseteq AddingDomain \ {p}
       /\ p \in Reaching(i) /\ Reaching(i)' \subseteq Reaching(i) \ {p}
  BY <1>0, <1>2, <1>3, IdleFilled
     DEF Ends, AddingDomain, Reaching, StorageAdders, DomainAdders
<1>14. ProcCount' = ProcCount BY DEF ProcCount
<1>15. DomainBound'
  <2>1. /\ Cardinality(DomainRows') \in Nat /\ Cardinality(DomainRows) \in Nat
        /\ Cardinality(DomainRows') <= Cardinality(DomainRows) + 1
    BY <1>12, Counts, OneMore, FS_CardinalityType
  <2>2. /\ Cardinality(AddingDomain') \in Nat /\ Cardinality(AddingDomain) \in Nat
        /\ Cardinality(AddingDomain') <= Cardinality(AddingDomain) - 1
    BY <1>13, Counts, OneLess
  <2> QED BY <2>1, <2>2, <1>14, Counts, LimitsAssumption DEF Inv, DomainBound
<1>16. GoneBoundAt(i)'
  <2>1. /\ Cardinality(DomainsOf(i)') \in Nat /\ Cardinality(DomainsOf(i)) \in Nat
        /\ Cardinality(DomainsOf(i)') <= Cardinality(DomainsOf(i)) + 1
    BY <1>12, Counts, OneMore, FS_CardinalityType
  <2>2. /\ Cardinality(Reaching(i)') \in Nat /\ Cardinality(Reaching(i)) \in Nat
        /\ Cardinality(Reaching(i)') <= Cardinality(Reaching(i)) - 1
    BY <1>13, Counts, OneLess
  <2>3. StoragesOf(i)' = StoragesOf(i) /\ Cardinality(StoragesOf(i)) \in Nat
    BY <1>2, Counts, FS_CardinalityType DEF StoragesOf
  <2>4. (Gone(i)' => Gone(i)) /\ GoneBoundAt(i)
    BY <1>3, <1>4, <1>9, QuietGone DEF Inv, GoneBound
  <2> QED BY <2>1, <2>2, <2>3, <2>4, <1>14, Counts DEF GoneBoundAt
<1>17. InstanceBound' BY <1>3, <1>9, QuietRequestSets, QuietRowSets, InstanceLess
<1>18. ASSUME NEW j \in Instances PROVE StorageBoundAt(j)'
  BY <1>3, <1>9, QuietRequestSets, QuietRowSets, StorageLess
<1>19. ASSUME NEW j \in Instances PROVE GoneBoundAt(j)'
  <2>1. CASE j = i BY <2>1, <1>16
  <2>2. CASE j # i
    BY <2>2, <1>3, <1>9, <1>12, QuietRequestSets, QuietRowSets, QuietGone, GoneLess
  <2> QED BY <2>1, <2>2
<1> QED BY <1>7, <1>8, <1>15, <1>17, <1>18, <1>19 DEF Inv, StorageBound, GoneBound

LEMMA InstanceCreateCommitInv ==
  ASSUME Inv, NEW p \in Procs, InstanceCreateCommit(p)
  PROVE  Inv'
<1>1. PICK i \in FreshInstances : inst' = [inst EXCEPT ![i] = "live"]
  BY DEF InstanceCreateCommit
<1>2. UNCHANGED <<stor, dom, poolUsed, granted>> /\ Finish(p) /\ req[p].op = "instanceCreate"
  BY DEF InstanceCreateCommit
<1>3. /\ req' \in [Procs -> Requests] /\ \A q \in Procs : Filled(req'[q])
      /\ Ends(p) /\ QuietRequests
  BY <1>2, FinishReq
<1>4. i \in Instances /\ inst[i] = "none" /\ \A q \in Procs : req[q].i # i
  BY DEF FreshInstances
<1>5. /\ inst' \in [Instances -> {"none", "live", "deleted", "destroy"}]
      /\ inst'[i] = "live" /\ \A j \in Instances \ {i} : inst'[j] = inst[j]
  BY <1>1, <1>4 DEF Inv, Types, QTypeOK
<1>6. Types' BY <1>2, <1>3, <1>5 DEF Inv, Types, QTypeOK
<1>7. NotLive'
  <2> SUFFICES ASSUME NEW q \in Procs, req'[q].op \in {"instanceFree", "instanceJob"}
               PROVE  inst'[req'[q].i] # "live"
    BY DEF NotLive
  <2>1. req'[q] = req[q] BY <1>3, IdleFilled DEF Ends
  <2>2. req[q].i \in Instances /\ inst[req[q].i] # "live"
    BY <2>1, Served DEF Filled, Inv, NotLive
  <2> QED BY <2>1, <2>2, <1>4, <1>5
<1>8. QuietStorages /\ QuietDomains BY <1>2 DEF QuietStorages, QuietDomains
<1>9. ASSUME NEW j \in Instances PROVE Gone(j)' => Gone(j)
  BY <1>3, <1>5, IdleFilled DEF Gone, Ends
<1>10. InstanceBound'
  <2>1. Rows' \subseteq Rows \cup {i} BY <1>5 DEF Rows
  <2>2. p \in Creating /\ Creating' \subseteq Creating \ {p}
    BY <1>2, <1>3, IdleFilled DEF Creating, Ends
  <2>3. /\ Cardinality(Rows') \in Nat /\ Cardinality(Rows) \in Nat
        /\ Cardinality(Rows') <= Cardinality(Rows) + 1
    BY <2>1, Counts, OneMore, FS_CardinalityType
  <2>4. /\ Cardinality(Creating') \in Nat /\ Cardinality(Creating) \in Nat
        /\ Cardinality(Creating') <= Cardinality(Creating) - 1
    BY <2>2, Counts, OneLess
  <2>5. ProcCount' = ProcCount BY DEF ProcCount
  <2> QED BY <2>3, <2>4, <2>5, Counts, LimitsAssumption DEF Inv, InstanceBound
<1>11. DomainBound' BY <1>3, <1>8, QuietRequestSets, QuietRowSets, DomainLess
<1>12. ASSUME NEW j \in Instances PROVE StorageBoundAt(j)'
  BY <1>3, <1>8, QuietRequestSets, QuietRowSets, StorageLess
<1>13. ASSUME NEW j \in Instances PROVE GoneBoundAt(j)'
  BY <1>3, <1>8, <1>9, QuietRequestSets, QuietRowSets, GoneLess
<1> QED BY <1>6, <1>7, <1>10, <1>11, <1>12, <1>13 DEF Inv, StorageBound, GoneBound

-----------------------------------------------------------------------------
(* Steps that change rows and join no count.                               *)

LEMMA StorageEditCommitInv ==
  ASSUME Inv, NEW p \in Procs, StorageEditCommit(p)
  PROVE  Inv'
<1>1. PICK s : s = req[p].row OBVIOUS
<1>2. /\ UNCHANGED <<inst, dom, granted>> /\ Finish(p) /\ req[p].op = "storageEditOk"
      /\ stor[s].i # None /\ poolUsed' = poolUsed
      /\ stor' = [stor EXCEPT ![s].size = IF req[p].size = req[p].old THEN @ ELSE req[p].size,
                              ![s].pool = req[p].pool]
  BY <1>1 DEF StorageEditCommit, on_finish
<1>3. /\ req' \in [Procs -> Requests] /\ \A q \in Procs : Filled(req'[q])
      /\ Ends(p) /\ QuietRequests
  BY <1>2, FinishReq
<1>4. s \in Storages /\ req[p].size \in Sizes /\ req[p].pool \in Pools
  BY <1>1, <1>2, Served DEF Filled
<1>5. stor \in [Storages -> StorageRow] BY DEF Inv, Types, QTypeOK
<1>6. stor[s] \in [i : Instances, size : Sizes, pool : Pools]
  BY <1>2, <1>4, <1>5 DEF StorageRow, NoStorage
<1>7. /\ stor'[s] \in [i : Instances, size : Sizes, pool : Pools] /\ stor'[s].i = stor[s].i
      /\ DOMAIN stor' = Storages /\ stor' = [t \in Storages |-> stor'[t]]
      /\ \A t \in Storages \ {s} : stor'[t] = stor[t]
  BY <1>2, <1>4, <1>5, <1>6
<1>8. stor' \in [Storages -> StorageRow] BY <1>5, <1>7 DEF StorageRow
<1>9. Types' BY <1>2, <1>3, <1>8 DEF Inv, Types, QTypeOK
<1>10. NotLive' BY <1>2, <1>3, IdleFilled DEF Ends, Inv, NotLive
<1>11. QuietStorages BY <1>7 DEF QuietStorages
<1>12. QuietDomains /\ QuietInstances BY <1>2 DEF QuietDomains, QuietInstances, Gone
<1> QED BY <1>3, <1>9, <1>10, <1>11, <1>12, QuietBounds DEF Inv

LEMMA StorageDeleteInv ==
  ASSUME Inv, NEW p \in Procs, NEW s \in Storages, StorageDelete(p, s)
  PROVE  Inv'
<1>1. /\ UNCHANGED <<inst, dom, granted, req>> /\ poolUsed' = poolUsed
      /\ stor' = [stor EXCEPT ![s] = NoStorage]
  BY DEF StorageDelete, on_finish
<1>2. stor' \in [Storages -> StorageRow]
  BY <1>1 DEF Inv, Types, QTypeOK, StorageRow
<1>3. Types' BY <1>1, <1>2 DEF Inv, Types, QTypeOK
<1>4. NotLive' BY <1>1 DEF Inv, NotLive
<1>5. QuietStorages BY <1>1 DEF QuietStorages, NoStorage, Inv, Types, QTypeOK
<1>6. QuietDomains /\ QuietInstances BY <1>1 DEF QuietDomains, QuietInstances, Gone
<1>7. QuietRequests BY <1>1 DEF QuietRequests, QuietFor
<1> QED BY <1>3, <1>4, <1>5, <1>6, <1>7, QuietBounds DEF Inv

LEMMA DomainEditCommitInv ==
  ASSUME Inv, NEW p \in Procs, DomainEditCommit(p)
  PROVE  Inv'
<1>1. PICK d : d = req[p].row OBVIOUS
<1>2. /\ UNCHANGED <<inst, stor, poolUsed, granted>> /\ Finish(p)
      /\ req[p].op = "domainEditOk" /\ dom[d].i # None
      /\ dom' = [dom EXCEPT ![d].name = req[p].name]
  BY <1>1 DEF DomainEditCommit
<1>3. /\ req' \in [Procs -> Requests] /\ \A q \in Procs : Filled(req'[q])
      /\ Ends(p) /\ QuietRequests
  BY <1>2, FinishReq
<1>4. d \in Domains /\ req[p].name \in Names
  BY <1>1, <1>2, Served DEF Filled
<1>5. dom \in [Domains -> DomainRow] BY DEF Inv, Types, QTypeOK
<1>6. dom[d] \in [i : Instances, name : Names]
  BY <1>2, <1>4, <1>5 DEF DomainRow, NoDomain
<1>7. /\ dom'[d] \in [i : Instances, name : Names] /\ dom'[d].i = dom[d].i
      /\ dom' = [e \in Domains |-> dom'[e]]
      /\ \A e \in Domains \ {d} : dom'[e] = dom[e]
  BY <1>2, <1>4, <1>5, <1>6
<1>8. dom' \in [Domains -> DomainRow] BY <1>5, <1>7 DEF DomainRow
<1>9. Types' BY <1>2, <1>3, <1>8 DEF Inv, Types, QTypeOK
<1>10. NotLive' BY <1>2, <1>3, IdleFilled DEF Ends, Inv, NotLive
<1>11. QuietDomains BY <1>7 DEF QuietDomains
<1>12. QuietStorages /\ QuietInstances BY <1>2 DEF QuietStorages, QuietInstances, Gone
<1> QED BY <1>3, <1>9, <1>10, <1>11, <1>12, QuietBounds DEF Inv

LEMMA DomainDeleteInv ==
  ASSUME Inv, NEW p \in Procs, NEW d \in Domains, DomainDelete(p, d)
  PROVE  Inv'
<1>1. /\ UNCHANGED <<inst, stor, poolUsed, granted, req>>
      /\ dom' = [dom EXCEPT ![d] = NoDomain]
  BY DEF DomainDelete
<1>2. dom' \in [Domains -> DomainRow]
  BY <1>1 DEF Inv, Types, QTypeOK, DomainRow
<1>3. Types' BY <1>1, <1>2 DEF Inv, Types, QTypeOK
<1>4. NotLive' BY <1>1 DEF Inv, NotLive
<1>5. QuietDomains BY <1>1 DEF QuietDomains, NoDomain, Inv, Types, QTypeOK
<1>6. QuietStorages /\ QuietInstances BY <1>1 DEF QuietStorages, QuietInstances, Gone
<1>7. QuietRequests BY <1>1 DEF QuietRequests, QuietFor
<1> QED BY <1>3, <1>4, <1>5, <1>6, <1>7, QuietBounds DEF Inv

(* The request of a delete that goes on to its next commit.                *)
LEMMA GoesOn ==
  ASSUME Inv, NEW p \in Procs, NEW op \in {"instanceFree", "instanceJob"},
         req[p].op \in {"instanceDelete", "instanceFree"},
         req' = [req EXCEPT ![p].op = op]
  PROVE  /\ req' \in [Procs -> Requests] /\ \A q \in Procs : Filled(req'[q])
         /\ req'[p].op = op /\ req'[p].i = req[p].i /\ req[p].i \in Instances
         /\ \A q \in Procs \ {p} : req'[q] = req[q]
         /\ op = "instanceFree" => QuietRequests
<1> DEFINE r == [req[p] EXCEPT !.op = op]
<1>1. req' = [req EXCEPT ![p] = r] BY DEF Inv, Types, QTypeOK, Requests
<1>2. r \in Requests /\ r.op = op /\ r.i = req[p].i
  BY Served DEF Requests, Ops
<1>3. req[p].i \in Instances BY Served DEF Filled
<1>4. Filled(r) BY <1>2, <1>3 DEF Filled, StorageAdders, DomainAdders
<1>5. op = "instanceFree" => QuietFor(req[p], r)
  BY <1>2 DEF QuietFor, StorageAdders, DomainAdders
<1> HIDE DEF r
<1> QED BY <1>1, <1>2, <1>3, <1>4, <1>5, Becomes

LEMMA InstanceDeleteMarkInv ==
  ASSUME Inv, NEW p \in Procs, InstanceDeleteMark(p)
  PROVE  Inv'
<1>1. PICK i : i = req[p].i OBVIOUS
<1>2. /\ UNCHANGED <<stor, dom, poolUsed, granted>> /\ req[p].op = "instanceDelete"
      /\ inst[i] # "none"
      /\ inst' = [inst EXCEPT ![i] = IF @ = "live" THEN "deleted" ELSE @]
      /\ req' = [req EXCEPT ![p].op = "instanceFree"]
  BY <1>1 DEF InstanceDeleteMark
<1>3. /\ req' \in [Procs -> Requests] /\ \A q \in Procs : Filled(req'[q])
      /\ req'[p].op = "instanceFree" /\ req'[p].i = i /\ i \in Instances
      /\ \A q \in Procs \ {p} : req'[q] = req[q]
      /\ QuietRequests
  BY <1>1, <1>2, GoesOn
<1>4. /\ inst' \in [Instances -> {"none", "live", "deleted", "destroy"}]
      /\ inst'[i] \in {"deleted", "destroy"} /\ (inst'[i] = "destroy" => inst[i] = "destroy")
      /\ \A j \in Instances \ {i} : inst'[j] = inst[j]
  BY <1>2, <1>3 DEF Inv, Types, QTypeOK
<1>5. Types' BY <1>2, <1>3, <1>4 DEF Inv, Types, QTypeOK
<1>6. NotLive'
  <2> SUFFICES ASSUME NEW q \in Procs, req'[q].op \in {"instanceFree", "instanceJob"}
               PROVE  inst'[req'[q].i] # "live"
    BY DEF NotLive
  <2>1. CASE q = p BY <2>1, <1>3, <1>4
  <2>2. CASE q # p
    <3>1. req'[q] = req[q] BY <2>2, <1>3
    <3>2. req[q].i \in Instances /\ inst[req[q].i] # "live"
      BY <3>1, Served DEF Filled, Inv, NotLive
    <3> QED BY <3>1, <3>2, <1>4
  <2> QED BY <2>1, <2>2
<1>7. QuietStorages /\ QuietDomains BY <1>2 DEF QuietStorages, QuietDomains
<1>8. QuietInstances BY <1>2, <1>4 DEF QuietInstances, Gone
<1> QED BY <1>3, <1>5, <1>6, <1>7, <1>8, QuietBounds DEF Inv

(* From the second commit on, only the requests of the other processes can *)
(* still reach the instance.                                               *)
LEMMA InstanceDeleteFreeInv ==
  ASSUME Inv, NEW p \in Procs, InstanceDeleteFree(p)
  PROVE  Inv'
<1>1. PICK i : i = req[p].i OBVIOUS
<1>2. /\ UNCHANGED <<inst, poolUsed, granted>> /\ req[p].op = "instanceFree"
      /\ stor' = [s \in Storages |-> IF stor[s].i = i THEN NoStorage ELSE stor[s]]
      /\ dom' = [d \in Domains |-> IF dom[d].i = i THEN NoDomain ELSE dom[d]]
      /\ req' = [req EXCEPT ![p].op = "instanceJob"]
  BY <1>1 DEF InstanceDeleteFree
<1>3. /\ req' \in [Procs -> Requests] /\ \A q \in Procs : Filled(req'[q])
      /\ req'[p].op = "instanceJob" /\ req'[p].i = i /\ i \in Instances
      /\ \A q \in Procs \ {p} : req'[q] = req[q]
  BY <1>1, <1>2, GoesOn
<1>4. stor' \in [Storages -> StorageRow] /\ dom' \in [Domains -> DomainRow]
  BY <1>2 DEF Inv, Types, QTypeOK, StorageRow, DomainRow
<1>5. Types' BY <1>2, <1>3, <1>4 DEF Inv, Types, QTypeOK
<1>6. NotLive' BY <1>1, <1>2, <1>3 DEF Inv, NotLive
<1>7. QuietStorages /\ QuietDomains
  BY <1>2 DEF QuietStorages, QuietDomains, NoStorage, NoDomain
<1>8. QuietInstances BY <1>2 DEF QuietInstances, Gone
<1>9. /\ AddingDomain' \subseteq AddingDomain /\ Creating' \subseteq Creating
      /\ \A j : /\ AddingStorage(j)' \subseteq AddingStorage(j)
                /\ Reaching(j)' \subseteq Reaching(j)
  BY <1>3 DEF AddingDomain, Creating, AddingStorage, Reaching, StorageAdders, DomainAdders
<1>10. GoneBoundAt(i)'
  <2>1. i # None BY <1>3, NoneAssumption
  <2>2. StoragesOf(i)' = {} BY <2>1, <1>2 DEF StoragesOf, NoStorage
  <2>3. DomainsOf(i)' = {} BY <2>1, <1>2 DEF DomainsOf, NoDomain
  <2>4. Reaching(i)' \subseteq Procs \ {p}
    BY <1>3 DEF Reaching, StorageAdders, DomainAdders
  <2>5. Cardinality(Reaching(i)') \in Nat /\ Cardinality(Reaching(i)') <= ProcCount - 1
    BY <2>4, ProcsAssumption, OneLess DEF ProcCount
  <2>6. Cardinality({}) = 0 BY FS_EmptySet
  <2>7. ProcCount' = ProcCount BY DEF ProcCount
  <2> QED BY <2>2, <2>3, <2>5, <2>6, <2>7, Counts DEF GoneBoundAt
<1>11. ASSUME NEW j \in Instances, j # i PROVE Gone(j)' => Gone(j)
  BY <1>2, <1>3, <1>11 DEF Gone
<1>12. DomainBound' /\ InstanceBound'
  BY <1>7, <1>8, <1>9, QuietRowSets, DomainLess, InstanceLess
<1>13. ASSUME NEW j \in Instances PROVE StorageBoundAt(j)'
  BY <1>7, <1>9, QuietRowSets, StorageLess
<1>14. ASSUME NEW j \in Instances PROVE GoneBoundAt(j)'
  BY <1>7, <1>9, <1>10, <1>11, QuietRowSets, GoneLess
<1> QED BY <1>5, <1>6, <1>12, <1>13, <1>14 DEF Inv, StorageBound, GoneBound

LEMMA InstanceDeleteJobInv ==
  ASSUME Inv, NEW p \in Procs, InstanceDeleteJob(p)
  PROVE  Inv'
<1>1. PICK i : i = req[p].i OBVIOUS
<1>2. /\ UNCHANGED <<stor, dom, poolUsed, granted>> /\ Finish(p) /\ req[p].op = "instanceJob"
      /\ inst' = [inst EXCEPT ![i] = IF @ = "deleted" THEN "destroy" ELSE @]
  BY <1>1 DEF InstanceDeleteJob
<1>3. /\ req' \in [Procs -> Requests] /\ \A q \in Procs : Filled(req'[q])
      /\ Ends(p) /\ QuietRequests
  BY <1>2, FinishReq
<1>4. i \in Instances /\ Gone(i) BY <1>1, <1>2, Served DEF Filled, Gone
<1>5. /\ inst' \in [Instances -> {"none", "live", "deleted", "destroy"}]
      /\ (inst'[i] # "none" => inst[i] # "none") /\ (inst'[i] = "live" => inst[i] = "live")
      /\ \A j \in Instances \ {i} : inst'[j] = inst[j]
  BY <1>2, <1>4 DEF Inv, Types, QTypeOK
<1>6. Types' BY <1>2, <1>3, <1>5 DEF Inv, Types, QTypeOK
<1>7. NotLive'
  <2> SUFFICES ASSUME NEW q \in Procs, req'[q].op \in {"instanceFree", "instanceJob"}
               PROVE  inst'[req'[q].i] # "live"
    BY DEF NotLive
  <2>1. req'[q] = req[q] BY <1>3, IdleFilled DEF Ends
  <2>2. req[q].i \in Instances /\ inst[req[q].i] # "live"
    BY <2>1, Served DEF Filled, Inv, NotLive
  <2> QED BY <2>1, <2>2, <1>5
<1>8. QuietStorages /\ QuietDomains BY <1>2 DEF QuietStorages, QuietDomains
<1>9. QuietInstances
  <2> SUFFICES ASSUME NEW j \in Instances
               PROVE  /\ inst'[j] # "none" => inst[j] # "none"
                      /\ inst'[j] = "destroy" => Gone(j)
    BY DEF QuietInstances
  <2>1. CASE j = i BY <2>1, <1>4, <1>5
  <2>2. CASE j # i BY <2>2, <1>5 DEF Gone
  <2> QED BY <2>1, <2>2
<1> QED BY <1>3, <1>6, <1>7, <1>8, <1>9, QuietBounds DEF Inv

LEMMA ClcDeleteRowInv ==
  ASSUME Inv, NEW i \in Instances, ClcDeleteRow(i)
  PROVE  Inv'
<1>1. UNCHANGED <<stor, dom, poolUsed, granted, req>> /\ inst' = [inst EXCEPT ![i] = "none"]
  BY DEF ClcDeleteRow
<1>2. /\ inst' \in [Instances -> {"none", "live", "deleted", "destroy"}]
      /\ inst'[i] = "none" /\ \A j \in Instances \ {i} : inst'[j] = inst[j]
  BY <1>1 DEF Inv, Types, QTypeOK
<1>3. Types' BY <1>1, <1>2 DEF Inv, Types, QTypeOK
<1>4. NotLive'
  <2> SUFFICES ASSUME NEW q \in Procs, req[q].op \in {"instanceFree", "instanceJob"}
               PROVE  inst'[req[q].i] # "live"
    BY <1>1 DEF NotLive
  <2>1. req[q].i \in Instances /\ inst[req[q].i] # "live"
    BY Served DEF Filled, Inv, NotLive
  <2> QED BY <2>1, <1>2
<1>5. QuietStorages /\ QuietDomains BY <1>1 DEF QuietStorages, QuietDomains
<1>6. QuietInstances BY <1>2 DEF QuietInstances, Gone
<1>7. QuietRequests BY <1>1 DEF QuietRequests, QuietFor
<1> QED BY <1>3, <1>4, <1>5, <1>6, <1>7, QuietBounds DEF Inv

LEMMA StillInv ==
  ASSUME Inv, UNCHANGED <<inst, stor, dom, poolUsed, req>>, granted' \in BOOLEAN
  PROVE  Inv'
<1>1. Types' BY DEF Inv, Types, QTypeOK
<1>2. NotLive' BY DEF Inv, NotLive
<1>3. QuietStorages /\ QuietDomains BY DEF QuietStorages, QuietDomains
<1>4. QuietInstances BY DEF QuietInstances, Gone
<1>5. QuietRequests BY DEF QuietRequests, QuietFor
<1> QED BY <1>1, <1>2, <1>3, <1>4, <1>5, QuietBounds DEF Inv

-----------------------------------------------------------------------------
LEMMA InitInv == QInit => Inv
<1> SUFFICES ASSUME QInit PROVE Inv OBVIOUS
<1>1. \A p \in Procs : req[p] = Idle BY DEF QInit
<1>2. QTypeOK
  <2>1. req \in [Procs -> Requests] BY IdleFilled DEF QInit
  <2>2. stor \in [Storages -> StorageRow] /\ dom \in [Domains -> DomainRow]
    BY DEF QInit, StorageRow, DomainRow
  <2>3. poolUsed \in [Pools -> Nat] BY DEF QInit
  <2>4. inst \in [Instances -> {"none", "live", "deleted", "destroy"}] BY DEF QInit
  <2>5. granted \in BOOLEAN BY DEF QInit
  <2> QED BY <2>1, <2>2, <2>3, <2>4, <2>5 DEF QTypeOK
<1>3. Types BY <1>1, <1>2, IdleFilled DEF Types, QInit
<1>4. NotLive BY <1>1, IdleFilled DEF NotLive
<1>5. Cardinality({}) = 0 BY FS_EmptySet
<1>6. DomainBound
  <2>1. DomainRows = {} /\ AddingDomain = {}
    BY <1>1, IdleFilled DEF QInit, DomainRows, NoDomain, AddingDomain, DomainAdders
  <2> QED BY <2>1, <1>5, Counts, LimitsAssumption DEF DomainBound
<1>7. InstanceBound
  <2>1. Rows = {} /\ Creating = {} BY <1>1, IdleFilled DEF QInit, Rows, Creating
  <2> QED BY <2>1, <1>5, Counts, LimitsAssumption DEF InstanceBound
<1>8. ASSUME NEW i \in Instances PROVE StorageBoundAt(i)
  <2>1. StoragesOf(i) = {} BY NoneAssumption DEF QInit, StoragesOf, NoStorage
  <2>2. AddingStorage(i) = {} BY <1>1, IdleFilled DEF AddingStorage, StorageAdders
  <2> QED BY <2>1, <2>2, <1>5, Counts DEF StorageBoundAt, max_storage
<1>9. ASSUME NEW i \in Instances PROVE GoneBoundAt(i)
  <2>1. ~Gone(i) BY <1>1, IdleFilled DEF QInit, Gone
  <2> QED BY <2>1 DEF GoneBoundAt
<1> QED BY <1>3, <1>4, <1>6, <1>7, <1>8, <1>9 DEF Inv, StorageBound, GoneBound

LEMMA NextInv == Inv /\ [QNext]_qvars => Inv'
<1> SUFFICES ASSUME Inv, [QNext]_qvars PROVE Inv' OBVIOUS
<1>1. ASSUME NEW p \in Procs, StorageRequests(p) PROVE Inv'
  BY <1>1, StorageAddPrepareInv, StorageAddValidateInv, StorageAddCommitInv,
     StorageEditInitializeInv, StorageEditValidateInv, StorageEditCommitInv,
     StorageDeleteInv DEF StorageRequests
<1>2. ASSUME NEW p \in Procs, DomainRequests(p) PROVE Inv'
  BY <1>2, DomainAddPrepareInv, DomainAddValidateInv, DomainAddCommitInv,
     DomainEditValidateInv, DomainEditCommitInv, DomainDeleteInv DEF DomainRequests
<1>3. ASSUME NEW p \in Procs, InstanceRequests(p) PROVE Inv'
  BY <1>3, InstanceCreatePrepareInv, InstanceCreateCommitInv, InstanceDeleteCheckInv,
     InstanceDeleteMarkInv, InstanceDeleteFreeInv, InstanceDeleteJobInv, FailInv
     DEF InstanceRequests
<1>4. CASE ResourceChange
  BY <1>4, StillInv DEF ResourceChange
<1>5. ASSUME NEW i \in Instances, ClcDeleteRow(i) PROVE Inv'
  BY <1>5, ClcDeleteRowInv
<1>6. CASE UNCHANGED qvars
  <2>1. granted' \in BOOLEAN BY <1>6 DEF qvars, Inv, Types, QTypeOK
  <2> QED BY <2>1, <1>6, StillInv DEF qvars
<1> QED BY <1>1, <1>2, <1>3, <1>4, <1>5, <1>6 DEF QNext, Outside

-----------------------------------------------------------------------------
(* The rows together with the requests that may still add one stay under   *)
(* every limit of the handlers of app/myun/instance, whatever the          *)
(* processes interleave.                                                   *)
THEOREM QuotaInvariance == QSpec => []Inv
BY InitInv, NextInv, PTL DEF QSpec

(* Rows and requests keep their types: in particular Storage.__init__      *)
(* never stores a size that no form could hold.                            *)
THEOREM QuotaTypeCorrect == QSpec => []QTypeOK
<1>1. Inv => QTypeOK BY DEF Inv, Types
<1> QED BY <1>1, QuotaInvariance, PTL

(* StorageAdd can give an instance at most one storage more than           *)
(* max_storage for each further process, for any number of processes.      *)
THEOREM StoragePerInstanceHolds == QSpec => []StoragePerInstance
<1>1. Inv => StoragePerInstance
  <2> SUFFICES ASSUME Inv, NEW i \in Instances
               PROVE  Cardinality(StoragesOf(i)) <= max_storage + ProcCount - 1
    BY DEF StoragePerInstance
  <2>1. StorageBoundAt(i) BY DEF Inv, StorageBound
  <2>2. Cardinality(StoragesOf(i)) \in Nat /\ Cardinality(AddingStorage(i)) \in Nat
    BY Counts, FS_CardinalityType
  <2> QED BY <2>1, <2>2, Counts DEF StorageBoundAt, max_storage
<1> QED BY <1>1, QuotaInvariance, PTL

(* DomainAdd can pass the limit of the profile by one domain for each      *)
(* further process and no more.                                            *)
THEOREM DomainOvershootHolds == QSpec => []DomainOvershoot
<1>1. Inv => DomainOvershoot
  <2>1. Cardinality(DomainRows) \in Nat /\ Cardinality(AddingDomain) \in Nat
    BY Counts, FS_CardinalityType
  <2> QED BY <2>1, Counts, LimitsAssumption DEF Inv, DomainBound, DomainOvershoot
<1> QED BY <1>1, QuotaInvariance, PTL

(* InstanceCreate can pass the limit of the profile and its resources by   *)
(* one instance for each further process and no more.                      *)
THEOREM InstanceOvershootHolds == QSpec => []InstanceOvershoot
<1>1. Inv => InstanceOvershoot
  <2>1. Cardinality(Rows) \in Nat /\ Cardinality(Creating) \in Nat
    BY Counts, FS_CardinalityType
  <2> QED BY <2>1, Counts, LimitsAssumption DEF Inv, InstanceBound, InstanceOvershoot
<1> QED BY <1>1, QuotaInvariance, PTL

(* After InstanceDelete has created the DESTROY_INSTANCE job, the instance *)
(* holds at most one storage or domain for each other process: requests    *)
(* that had passed set_myinstance before the delete.                       *)
THEOREM DeleteLeavesHolds == QSpec => []DeleteLeaves
<1>1. Inv => DeleteLeaves
  <2> SUFFICES ASSUME Inv, NEW i \in Instances, inst[i] = "destroy"
               PROVE  Cardinality(StoragesOf(i)) + Cardinality(DomainsOf(i)) <= ProcCount - 1
    BY DEF DeleteLeaves, DomainsOf
  <2>1. Gone(i) BY DEF Gone
  <2>2. Cardinality(StoragesOf(i)) + Cardinality(DomainsOf(i)) + Cardinality(Reaching(i))
          <= ProcCount - 1
    BY <2>1 DEF Inv, GoneBound, GoneBoundAt
  <2>3. /\ Cardinality(StoragesOf(i)) \in Nat /\ Cardinality(DomainsOf(i)) \in Nat
        /\ Cardinality(Reaching(i)) \in Nat
    BY Counts, FS_CardinalityType
  <2> QED BY <2>2, <2>3, Counts
<1> QED BY <1>1, QuotaInvariance, PTL

-----------------------------------------------------------------------------
(* The sum of the sizes.  A size is counted in units, pairs of its owner   *)
(* and a number, so that a sum is a cardinality.                           *)

Units(z, S) == UNION {{x} \X (1 .. z[x]) : x \in S}

LEMMA UnitOf ==
  ASSUME NEW z, NEW S, NEW u
  PROVE  u \in Units(z, S) <=> \E x \in S : \E n \in 1 .. z[x] : u = <<x, n>>
BY DEF Units

(* At most M units for each of the owners.                                 *)
LEMMA UnitsFinite ==
  ASSUME NEW S, IsFiniteSet(S), NEW M \in Nat, NEW z, \A x \in S : z[x] \in 0 .. M
  PROVE  /\ IsFiniteSet(Units(z, S)) /\ Cardinality(Units(z, S)) \in Nat
         /\ Cardinality(S) \in Nat
         /\ Cardinality(Units(z, S)) <= Cardinality(S) * M
<1>1. IsFiniteSet(1 .. M) /\ Cardinality(1 .. M) = M BY FS_Interval
<1>2. IsFiniteSet(S \X (1 .. M)) /\ Cardinality(S \X (1 .. M)) = Cardinality(S) * M
  BY <1>1, FS_Product
<1>3. Units(z, S) \subseteq S \X (1 .. M)
  <2> SUFFICES ASSUME NEW x \in S, NEW n \in 1 .. z[x]
               PROVE  <<x, n>> \in S \X (1 .. M)
    BY UnitOf
  <2>1. n \in 1 .. M OBVIOUS
  <2> QED BY <2>1
<1> QED BY <1>2, <1>3, Sub, FS_CardinalityType

LEMMA UnitsLess ==
  ASSUME NEW S, IsFiniteSet(S), NEW M \in Nat, NEW z, \A x \in S : z[x] \in 0 .. M,
         NEW y, \A x \in S : y[x] \in 0 .. z[x]
  PROVE  Cardinality(Units(y, S)) \in Nat /\ Cardinality(Units(y, S)) <= Cardinality(Units(z, S))
<1>1. Units(y, S) \subseteq Units(z, S)
  <2> SUFFICES ASSUME NEW x \in S, NEW n \in 1 .. y[x]
               PROVE  <<x, n>> \in Units(z, S)
    BY UnitOf
  <2>1. n \in 1 .. z[x] OBVIOUS
  <2> QED BY <2>1, UnitOf
<1> QED BY <1>1, UnitsFinite, Sub

(* The share of one owner.                                                 *)
LEMMA UnitsAt ==
  ASSUME NEW S, IsFiniteSet(S), NEW M \in Nat, NEW z, \A x \in S : z[x] \in 0 .. M,
         NEW a \in S
  PROVE  /\ IsFiniteSet(S \ {a}) /\ Cardinality(Units(z, S \ {a})) \in Nat
         /\ Cardinality(Units(z, S)) = Cardinality(Units(z, S \ {a})) + z[a]
<1> DEFINE A == Units(z, S \ {a})
           B == {a} \X (1 .. z[a])
<1>1. IsFiniteSet(S \ {a}) BY FS_RemoveElement
<1>2. IsFiniteSet(A) /\ Cardinality(A) \in Nat
  <2>1. \A x \in S \ {a} : z[x] \in 0 .. M OBVIOUS
  <2> QED BY <1>1, <2>1, UnitsFinite
<1>3. PICK n \in Nat : n = z[a] OBVIOUS
<1>4. IsFiniteSet(1 .. n) /\ Cardinality(1 .. n) = n BY FS_Interval
<1>5. IsFiniteSet({a}) /\ Cardinality({a}) = 1 BY FS_Singleton
<1>6. IsFiniteSet(B) /\ Cardinality(B) = z[a]
  <2>1. /\ IsFiniteSet({a} \X (1 .. n))
        /\ Cardinality({a} \X (1 .. n)) = Cardinality({a}) * Cardinality(1 .. n)
    BY <1>4, <1>5, FS_Product
  <2>2. Cardinality({a} \X (1 .. n)) = n BY <1>4, <1>5, <2>1
  <2> QED BY <1>3, <2>1, <2>2
<1>7. A \cap B = {} BY DEF Units
<1>8. Units(z, S) = A \cup B BY DEF Units
<1>9. Cardinality(A \cap B) = 0 BY <1>7, FS_EmptySet
<1> HIDE DEF A, B
<1>10. Cardinality(A \cup B) = Cardinality(A) + Cardinality(B) - Cardinality(A \cap B)
  BY <1>2, <1>6, FS_Union
<1>11. Cardinality(A \cup B) = Cardinality(A) + z[a]
  BY <1>2, <1>3, <1>6, <1>9, <1>10
<1> QED BY <1>1, <1>2, <1>8, <1>11 DEF A

LEMMA UnitsSame ==
  ASSUME NEW S, NEW z, NEW y, \A x \in S : y[x] = z[x]
  PROVE  Units(y, S) = Units(z, S)
BY DEF Units

(* The gigabytes of the storages, and those of the requests that have      *)
(* passed StorageForm and not yet committed.                               *)
Passed == {"storageAddOk", "storageEditOk"}
Room == QuotaStorage + Grant
sizes == [s \in Storages |-> stor[s].size]
flying == [p \in Procs |-> IF req[p].op \in Passed THEN req[p].size ELSE 0]
Stored == Cardinality(Units(sizes, Storages))
Flying == Cardinality(Units(flying, Procs))

RoomInv ==
  /\ \A s \in Storages : sizes[s] \in 0 .. PoolTotal
  /\ \A p \in Procs : flying[p] \in 0 .. Room
  /\ Stored + Flying <= ProcCount * Room

LEMMA StoredIsSum == SizeSum(stor, Storages) = Stored
BY DEF SizeSum, Stored, Units, sizes

LEMMA RoomType ==
  ASSUME RoomInv
  PROVE  /\ Room \in Nat /\ PoolTotal \in Nat
         /\ IsFiniteSet(Procs) /\ IsFiniteSet(Storages)
         /\ Stored \in Nat /\ Flying \in Nat /\ ProcCount \in Nat /\ ProcCount * Room \in Nat
<1>1. Room \in Nat /\ PoolTotal \in Nat BY LimitsAssumption DEF Room
<1>2. Stored \in Nat /\ Flying \in Nat
  BY <1>1, ProcsAssumption, RowsAssumption, UnitsFinite DEF RoomInv, Stored, Flying
<1> QED BY <1>1, <1>2, ProcsAssumption, RowsAssumption, Counts

(* A step that makes no size larger.                                       *)
LEMMA RoomLess ==
  ASSUME RoomInv, \A s \in Storages : sizes'[s] \in 0 .. sizes[s],
         \A p \in Procs : flying'[p] \in 0 .. flying[p]
  PROVE  RoomInv'
<1>1. \A s \in Storages : sizes'[s] \in 0 .. PoolTotal BY RoomType DEF RoomInv
<1>2. \A p \in Procs : flying'[p] \in 0 .. Room BY RoomType DEF RoomInv
<1>3. Stored' \in Nat /\ Stored' <= Stored
  BY RoomType, UnitsLess DEF RoomInv, Stored
<1>4. Flying' \in Nat /\ Flying' <= Flying
  BY RoomType, UnitsLess DEF RoomInv, Flying
<1>5. ProcCount' = ProcCount /\ Room' = Room /\ PoolTotal' = PoolTotal
  BY DEF ProcCount, Room
<1>6. Stored' + Flying' <= ProcCount * Room
  BY <1>3, <1>4, RoomType DEF RoomInv
<1> QED BY <1>1, <1>2, <1>5, <1>6 DEF RoomInv

(* StorageForm has passed: with what the others have in flight, at most    *)
(* one full quota each, the new size still fits.                           *)
LEMMA RoomTaken ==
  ASSUME RoomInv, NEW p \in Procs, NEW size \in Nat \ {0}, size <= storage_remain,
         granted \in BOOLEAN, stor' = stor, flying'[p] = size,
         \A q \in Procs \ {p} : flying'[q] = flying[q]
  PROVE  RoomInv'
<1>1. Stored + size <= Room
  <2>1. Granted \in Nat /\ Granted <= Grant BY LimitsAssumption DEF Granted
  <2> QED BY <2>1, StoredIsSum, RoomType, LimitsAssumption DEF storage_remain, Left, Room
<1>2. sizes' = sizes /\ Stored' = Stored BY DEF sizes, Stored
<1>3. \A q \in Procs : flying'[q] \in 0 .. Room
  BY <1>1, RoomType DEF RoomInv
<1>4. /\ IsFiniteSet(Procs \ {p}) /\ Cardinality(Units(flying', Procs \ {p})) \in Nat
      /\ Cardinality(Units(flying', Procs)) = Cardinality(Units(flying', Procs \ {p})) + size
  BY <1>3, RoomType, UnitsAt
<1>5. /\ Cardinality(Procs \ {p}) = ProcCount - 1
      /\ Cardinality(Units(flying', Procs \ {p})) <= Cardinality(Procs \ {p}) * Room
  <2>1. Cardinality(Procs \ {p}) = ProcCount - 1 BY FS_RemoveElement, RoomType DEF ProcCount
  <2>2. \A q \in Procs \ {p} : flying'[q] \in 0 .. Room BY <1>3
  <2>3. Cardinality(Units(flying', Procs \ {p})) <= Cardinality(Procs \ {p}) * Room
    BY <1>4, <2>2, RoomType, UnitsFinite
  <2> QED BY <2>1, <2>3
<1>6. \A n, m \in Nat : (n - 1) * m + m = n * m OBVIOUS
<1>7. (ProcCount - 1) * Room + Room = ProcCount * Room BY <1>6, RoomType
<1>8. Cardinality(Units(flying', Procs \ {p})) <= ProcCount * Room - Room
  <2>1. PICK k \in Int : k = (ProcCount - 1) * Room BY RoomType
  <2>2. Cardinality(Units(flying', Procs \ {p})) <= k BY <1>5, <2>1
  <2> QED BY <1>4, <1>7, <2>1, <2>2, RoomType
<1>9. Stored + Cardinality(Units(flying', Procs)) <= ProcCount * Room
  BY <1>1, <1>4, <1>8, RoomType
<1>10. ProcCount' = ProcCount /\ Room' = Room /\ Flying' = Cardinality(Units(flying', Procs))
  BY DEF ProcCount, Room, Flying
<1> QED BY <1>2, <1>3, <1>9, <1>10 DEF RoomInv

(* A commit moves the size of its request into a row.                      *)
LEMMA RoomMoved ==
  ASSUME RoomInv, NEW p \in Procs, NEW s \in Storages,
         flying'[p] = 0, \A q \in Procs \ {p} : flying'[q] = flying[q],
         sizes'[s] \in 0 .. PoolTotal, sizes'[s] <= sizes[s] + flying[p],
         \A r \in Storages \ {s} : sizes'[r] = sizes[r]
  PROVE  RoomInv'
<1>1. \A r \in Storages : sizes'[r] \in 0 .. PoolTotal BY DEF RoomInv
<1>2. \A q \in Procs : flying'[q] \in 0 .. Room BY RoomType DEF RoomInv
<1>3. Units(sizes', Storages \ {s}) = Units(sizes, Storages \ {s})
  BY UnitsSame
<1>4. Units(flying', Procs \ {p}) = Units(flying, Procs \ {p})
  BY UnitsSame
<1>5. /\ Stored' = Cardinality(Units(sizes, Storages \ {s})) + sizes'[s]
      /\ Stored = Cardinality(Units(sizes, Storages \ {s})) + sizes[s]
      /\ Cardinality(Units(sizes, Storages \ {s})) \in Nat
  <2>1. Cardinality(Units(sizes', Storages))
          = Cardinality(Units(sizes', Storages \ {s})) + sizes'[s]
    BY <1>1, RoomType, UnitsAt
  <2>2. /\ Cardinality(Units(sizes, Storages))
             = Cardinality(Units(sizes, Storages \ {s})) + sizes[s]
        /\ Cardinality(Units(sizes, Storages \ {s})) \in Nat
    BY RoomType, UnitsAt DEF RoomInv
  <2> QED BY <1>3, <2>1, <2>2 DEF Stored
<1>6. /\ Flying' = Cardinality(Units(flying, Procs \ {p}))
      /\ Flying = Cardinality(Units(flying, Procs \ {p})) + flying[p]
      /\ Cardinality(Units(flying, Procs \ {p})) \in Nat
  <2>1. Cardinality(Units(flying', Procs))
          = Cardinality(Units(flying', Procs \ {p})) + flying'[p]
    BY <1>2, RoomType, UnitsAt
  <2>2. /\ Cardinality(Units(flying, Procs))
             = Cardinality(Units(flying, Procs \ {p})) + flying[p]
        /\ Cardinality(Units(flying, Procs \ {p})) \in Nat
    BY RoomType, UnitsAt DEF RoomInv
  <2> QED BY <1>4, <2>1, <2>2 DEF Flying
<1>7. flying[p] \in Nat /\ sizes[s] \in Nat /\ sizes'[s] \in Nat BY RoomType DEF RoomInv
<1>8. Stored' + Flying' <= Stored + Flying BY <1>5, <1>6, <1>7
<1>9. Stored' \in Nat /\ Flying' \in Nat BY <1>5, <1>6, <1>7
<1>10. ProcCount' = ProcCount /\ Room' = Room BY DEF ProcCount, Room
<1>11. Stored' + Flying' <= ProcCount * Room BY <1>8, <1>9, RoomType DEF RoomInv
<1> QED BY <1>1, <1>2, <1>10, <1>11 DEF RoomInv

LEMMA Sized ==
  ASSUME Inv
  PROVE  /\ \A s \in Storages : sizes[s] = stor[s].size /\ stor[s].size \in Nat
         /\ \A s \in Storages : stor[s].i = None => stor[s].size = 0
         /\ \A p \in Procs : flying[p] = IF req[p].op \in Passed THEN req[p].size ELSE 0
         /\ \A p \in Procs : flying[p] \in Nat
<1>1. \A s \in Storages : stor[s] \in StorageRow BY DEF Inv, Types, QTypeOK
<1>2. \A s \in Storages : /\ stor[s].size \in Nat
                          /\ stor[s].i = None => stor[s].size = 0
  <2> TAKE s \in Storages
  <2>1. CASE stor[s] = NoStorage BY <2>1 DEF NoStorage
  <2>2. CASE stor[s] \in [i : Instances, size : Sizes, pool : Pools]
    <3>1. stor[s].i \in Instances /\ stor[s].size \in Sizes BY <2>2
    <3>2. stor[s].i # None BY <3>1, NoneAssumption
    <3>3. stor[s].size \in Nat BY <3>1, LimitsAssumption
    <3> QED BY <3>2, <3>3
  <2> QED BY <1>1, <2>1, <2>2 DEF StorageRow
<1>3. \A p \in Procs : req[p].op \in Passed => req[p].size \in Nat
  BY Served, LimitsAssumption DEF Filled, Passed
<1> QED BY <1>2, <1>3 DEF sizes, flying, Passed

(* A step after which every row and every request is as before, gone, or   *)
(* not past StorageForm.                                                   *)
LEMMA RoomQuiet ==
  ASSUME Inv, RoomInv, \A s \in Storages : stor'[s] \in {stor[s], NoStorage},
         \A q \in Procs : req'[q] = req[q] \/ req'[q].op \notin Passed
  PROVE  RoomInv'
<1>1. \A s \in Storages : sizes'[s] \in 0 .. sizes[s]
  <2>1. \A s \in Storages : sizes'[s] = stor'[s].size BY DEF sizes
  <2> QED BY <2>1, Sized DEF NoStorage
<1>2. \A q \in Procs : flying'[q] \in 0 .. flying[q]
  <2>1. \A q \in Procs : flying'[q] = IF req'[q].op \in Passed THEN req'[q].size ELSE 0
    BY DEF flying, Passed
  <2> QED BY <2>1, Sized
<1> QED BY <1>1, <1>2, RoomLess

LEMMA StorageValidateRoom ==
  ASSUME Inv, RoomInv, NEW p \in Procs, StorageAddValidate(p) \/ StorageEditValidate(p)
  PROVE  RoomInv'
<1>1. PICK size \in Sizes, op \in Passed :
        /\ size <= storage_remain
        /\ req'[p].op = op /\ req'[p].size = size
        /\ \A q \in Procs \ {p} : req'[q] = req[q]
  <2>0. req \in [Procs -> Requests] BY DEF Inv, Types, QTypeOK
  <2>1. CASE StorageAddValidate(p)
    BY <2>0, <2>1 DEF StorageAddValidate, StorageForm, Passed, Requests
  <2>2. CASE StorageEditValidate(p)
    BY <2>0, <2>2 DEF StorageEditValidate, StorageForm, Passed, Requests
  <2> QED BY <2>1, <2>2
<1>2. stor' = stor BY DEF StorageAddValidate, StorageEditValidate
<1>3. granted \in BOOLEAN /\ size \in Nat \ {0}
  BY LimitsAssumption DEF Inv, Types, QTypeOK
<1>4. \A q \in Procs : flying'[q] = IF req'[q].op \in Passed THEN req'[q].size ELSE 0
  BY DEF flying, Passed
<1>5. flying'[p] = size /\ \A q \in Procs \ {p} : flying'[q] = flying[q]
  BY <1>1, <1>4, Sized
<1> QED BY <1>1, <1>2, <1>3, <1>5, RoomTaken

LEMMA StorageCommitRoom ==
  ASSUME Inv, RoomInv, NEW p \in Procs, StorageAddCommit(p) \/ StorageEditCommit(p)
  PROVE  RoomInv'
<1>0. /\ req[p].op \in Passed /\ Finish(p)
      /\ req[p].size \in Sizes /\ req[p].size <= PoolTotal /\ req[p].pool \in Pools
      /\ req[p].op = "storageEditOk" => req[p].row \in Storages
  BY Served DEF StorageAddCommit, StorageEditCommit, Passed, Filled
<1>1. Ends(p) BY <1>0, FinishReq
<1>2. \A q \in Procs : flying'[q] = IF req'[q].op \in Passed THEN req'[q].size ELSE 0
  BY DEF flying, Passed
<1>3. flying'[p] = 0 /\ \A q \in Procs \ {p} : flying'[q] = flying[q]
  BY <1>1, <1>2, IdleFilled, Sized DEF Ends, Passed
<1>4. flying[p] = req[p].size /\ req[p].size \in Nat BY <1>0, Sized, LimitsAssumption
<1>5. \A s \in Storages : sizes'[s] = stor'[s].size BY DEF sizes
<1>6. stor \in [Storages -> StorageRow] /\ \A k \in Pools : remain(k) = PoolTotal
  BY LimitsAssumption DEF Inv, Types, QTypeOK, remain
<1>7. \E s \in Storages : /\ stor'[s].size \in {req[p].size, stor[s].size}
                          /\ \A r \in Storages \ {s} : stor'[r] = stor[r]
  <2>1. CASE StorageAddCommit(p)
    <3>1. PICK s \in FreshStorages :
            stor' = [stor EXCEPT ![s] = [i |-> req[p].i, pool |-> req[p].pool,
                                         size |-> StorageSize(req[p].size, req[p].pool)]]
      BY <2>1 DEF StorageAddCommit
    <3>2. s \in Storages BY DEF FreshStorages
    <3>3. StorageSize(req[p].size, req[p].pool) = req[p].size
      BY <1>0, <1>4, <1>6, LimitsAssumption DEF StorageSize
    <3>4. stor'[s].size = req[p].size /\ \A r \in Storages \ {s} : stor'[r] = stor[r]
      BY <1>6, <3>1, <3>2, <3>3
    <3> QED BY <3>2, <3>4
  <2>2. CASE StorageEditCommit(p)
    <3>1. req[p].row \in Storages /\ stor[req[p].row].i # None
      BY <1>0, <2>2 DEF StorageEditCommit
    <3>2. stor[req[p].row] \in [i : Instances, size : Sizes, pool : Pools]
      BY <1>6, <3>1 DEF StorageRow, NoStorage
    <3>3. /\ stor'[req[p].row].size \in {req[p].size, stor[req[p].row].size}
          /\ \A r \in Storages \ {req[p].row} : stor'[r] = stor[r]
      BY <1>6, <2>2, <3>1, <3>2 DEF StorageEditCommit
    <3> QED BY <3>1, <3>3
  <2> QED BY <2>1, <2>2
<1>8. PICK s \in Storages : /\ stor'[s].size \in {req[p].size, stor[s].size}
                            /\ \A r \in Storages \ {s} : stor'[r] = stor[r]
  BY <1>7
<1>9. sizes'[s] \in 0 .. PoolTotal /\ sizes'[s] <= sizes[s] + flying[p]
  <2>1. sizes[s] \in 0 .. PoolTotal BY DEF RoomInv
  <2> QED BY <1>0, <1>4, <1>5, <1>8, <2>1, Sized, LimitsAssumption
<1>10. \A r \in Storages \ {s} : sizes'[r] = sizes[r] BY <1>5, <1>8, Sized
<1> QED BY <1>3, <1>9, <1>10, RoomMoved

(* The requests on domains and instances, and those on storages that only  *)
(* read or delete.                                                         *)
LEMMA OtherRoom ==
  ASSUME Inv, RoomInv, NEW p \in Procs,
         \/ \E i \in Instances : StorageAddPrepare(p, i)
         \/ \E s \in Storages : StorageEditInitialize(p, s) \/ StorageDelete(p, s)
         \/ DomainRequests(p) \/ InstanceRequests(p)
  PROVE  RoomInv'
<1>0. req \in [Procs -> Requests] /\ stor \in [Storages -> StorageRow]
  BY DEF Inv, Types, QTypeOK
<1>1. CASE \E s \in Storages : StorageDelete(p, s)
  BY <1>0, <1>1, RoomQuiet DEF StorageDelete
<1>2. CASE InstanceDeleteFree(p)
  <2>1. \A s \in Storages : stor'[s] \in {stor[s], NoStorage}
    BY <1>2 DEF InstanceDeleteFree
  <2>2. \A q \in Procs : req'[q] = req[q] \/ req'[q].op \notin Passed
    BY <1>0, <1>2 DEF InstanceDeleteFree, Passed, Requests
  <2> QED BY <2>1, <2>2, RoomQuiet
<1>3. CASE \E d \in Domains : DomainDelete(p, d)
  BY <1>3, RoomQuiet DEF DomainDelete
<1>4. CASE \/ \E i \in Instances : StorageAddPrepare(p, i) \/ DomainAddPrepare(p, i)
                                   \/ InstanceDeleteCheck(p, i)
           \/ \E s \in Storages : StorageEditInitialize(p, s)
           \/ DomainAddValidate(p) \/ InstanceCreatePrepare(p)
           \/ \E d \in Domains : DomainEditValidate(p, d)
           \/ InstanceDeleteMark(p)
  <2>1. stor' = stor
    BY <1>4 DEF StorageAddPrepare, DomainAddPrepare, InstanceDeleteCheck,
         StorageEditInitialize, DomainAddValidate, InstanceCreatePrepare,
         DomainEditValidate, InstanceDeleteMark
  <2>2. \A q \in Procs : req'[q] = req[q] \/ req'[q].op \notin Passed
    <3>1. CASE DomainAddValidate(p) \/ InstanceDeleteMark(p)
      BY <1>0, <3>1 DEF DomainAddValidate, InstanceDeleteMark, Passed, Requests
    <3>2. CASE \/ \E i \in Instances : StorageAddPrepare(p, i) \/ DomainAddPrepare(p, i)
                                       \/ InstanceDeleteCheck(p, i)
               \/ InstanceCreatePrepare(p)
      BY <1>0, <3>2 DEF StorageAddPrepare, DomainAddPrepare, InstanceDeleteCheck,
                        InstanceCreatePrepare, Idle, Passed
    <3>3. CASE \/ \E s \in Storages : StorageEditInitialize(p, s)
               \/ \E d \in Domains : DomainEditValidate(p, d)
      BY <1>0, <3>3 DEF StorageEditInitialize, DomainEditValidate, Idle, Passed
    <3> QED BY <1>4, <3>1, <3>2, <3>3
  <2> QED BY <2>1, <2>2, RoomQuiet
<1>5. CASE DomainAddCommit(p) \/ DomainEditCommit(p) \/ InstanceCreateCommit(p)
           \/ InstanceDeleteJob(p) \/ Fail(p)
  <2>1. stor' = stor /\ Finish(p)
    BY <1>5 DEF DomainAddCommit, DomainEditCommit, InstanceCreateCommit,
                InstanceDeleteJob, Fail
  <2>2. \A q \in Procs : req'[q] = req[q] \/ req'[q].op \notin Passed
    BY <2>1, FinishReq, IdleFilled DEF Ends, Passed
  <2> QED BY <2>1, <2>2, RoomQuiet
<1> QED BY <1>1, <1>2, <1>3, <1>4, <1>5 DEF DomainRequests, InstanceRequests

LEMMA InitRoom == QInit => RoomInv
<1> SUFFICES ASSUME QInit PROVE RoomInv OBVIOUS
<1>1. \A s \in Storages : sizes[s] = 0 BY DEF QInit, sizes, NoStorage
<1>2. \A p \in Procs : flying[p] = 0 BY IdleFilled DEF QInit, flying, Passed
<1>3. Room \in Nat /\ PoolTotal \in Nat BY LimitsAssumption DEF Room
<1>4. Units(sizes, Storages) = {} /\ Units(flying, Procs) = {}
  BY <1>1, <1>2, UnitOf
<1>5. Stored = 0 /\ Flying = 0 BY <1>4, FS_EmptySet DEF Stored, Flying
<1>6. ProcCount * Room \in Nat BY <1>3, Counts
<1> QED BY <1>1, <1>2, <1>3, <1>5, <1>6 DEF RoomInv

(* The storages of a user add up to at most one full quota of the profile  *)
(* and its resources for each server process, however the checks of        *)
(* StorageForm and the commits of StorageAdd and StorageEdit interleave    *)
(* (src/lyweb/app/storage).                                                *)
THEOREM StorageOvershootHolds == QSpec => []StorageOvershoot
<1>1. Inv /\ RoomInv /\ [QNext]_qvars => RoomInv'
  <2> SUFFICES ASSUME Inv, RoomInv, [QNext]_qvars PROVE RoomInv' OBVIOUS
  <2>1. ASSUME NEW p \in Procs,
               StorageRequests(p) \/ DomainRequests(p) \/ InstanceRequests(p)
        PROVE  RoomInv'
    BY <2>1, StorageValidateRoom, StorageCommitRoom, OtherRoom DEF StorageRequests
  <2>2. CASE Outside \/ UNCHANGED qvars
    <3>1. UNCHANGED <<stor, req>> BY <2>2 DEF Outside, ResourceChange, ClcDeleteRow, qvars
    <3> QED BY <3>1, RoomQuiet
  <2> QED BY <2>1, <2>2 DEF QNext
<1>2. RoomInv => StorageOvershoot
  <2> SUFFICES ASSUME RoomInv PROVE Stored <= ProcCount * Room
    BY StoredIsSum DEF StorageOvershoot, Room
  <2> QED BY RoomType DEF RoomInv
<1> QED BY <1>1, <1>2, InitRoom, QuotaInvariance, PTL DEF QSpec
=============================================================================
