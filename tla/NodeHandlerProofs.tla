------------------------- MODULE NodeHandlerProofs -------------------------
(***************************************************************************)
(* Proofs about NodeHandler, for every set of requests and instances and   *)
(* every limit of threads.                                                 *)
(*                                                                         *)
(* The inductive invariant Inv says who may touch what: a lock file has    *)
(* exactly one thread under it (Locking), a thread past the test of the    *)
(* domain works on a machine that is off and stays off while it holds the  *)
(* lock (Machines), a start that may clean up made the disk itself and no  *)
(* machine has run on it (Fresh), without a restart the appliance is whole *)
(* whenever it is extracted (Whole), and the counter is the number of      *)
(* threads but for the one not yet counted (Counting). A lemma per action  *)
(* shows that the action keeps each part.                                  *)
(***************************************************************************)
EXTENDS NodeHandler, FiniteSetTheorems, TLAPS

\* The types, and: a thread at work has an instance.
Shape ==
    /\ th \in [Threads -> ThreadType]
    /\ late \in BOOLEAN /\ num \in Int /\ restarts \in Nat
    /\ lock \in [Instances -> BOOLEAN] /\ applock \in BOOLEAN
    /\ app \in {"none", "part", "full"}
    /\ disk \in [Instances -> {"none", "dir", "part", "full", "used"}]
    /\ active \in [Instances -> BOOLEAN]
    /\ status \in [Instances -> {"NEW", "STOP", "START", "NEED_QUERY", "NOT_EXIST",
                                 "DELETE", "GONE"}]
    /\ ran \in [Instances -> BOOLEAN]
    /\ \A t \in Threads : Live(t) => th[t].ins \in Instances

\* A thread between get and put has the lock file, alone; a lock file has a thread.
Locking ==
    /\ \A t \in Threads : th[t].pc \in Locked => lock[th[t].ins]
    /\ \A t, u \in Threads :
          th[t].pc \in Locked /\ th[u].pc \in Locked /\ th[t].ins = th[u].ins => t = u
    /\ \A t \in Threads : th[t].pc \in AppLocked => applock
    /\ \A t, u \in Threads : th[t].pc \in AppLocked /\ th[u].pc \in AppLocked => t = u
    /\ NoStaleLock

\* Places of __domain_run after it found the domain not active.
Starting == {"lockapp", "app", "download", "putapp", "dir", "disk", "extract", "boot"}

\* A machine is off while a start works on its files, and on only with its disk.
Machines ==
    /\ \A t \in Threads : th[t].pc \in Starting => ~ active[th[t].ins]
    /\ MachineHasDisk

\* ins_create_new is set only in the start that made the disk, and no machine has run
\* on a disk while that start may still remove it.
Fresh ==
    \A t \in Threads :
        /\ th[t].made => \/ th[t].pc \in {"extract", "boot", "end"}
                         \/ th[t].pc = "unlock" /\ th[t].ret \notin {"SUCCESS", "NOT_RUNNING"}
        /\ th[t].pc = "extract" \/ (th[t].pc = "boot" /\ th[t].made)
              => disk[th[t].ins] # "used"

\* Without a restart: a file that exists is whole, except in the hands of the thread
\* that makes it.
Whole ==
    restarts = 0 =>
        /\ \A t \in Threads :
              /\ th[t].pc = "download" => app = "part"
              /\ th[t].pc \in {"putapp", "dir", "disk", "extract", "boot"} => app = "full"
              /\ th[t].pc = "disk" => disk[th[t].ins] # "none"
              /\ th[t].pc = "boot" => disk[th[t].ins] \in {"full", "used"}
        /\ \A i \in Instances :
              /\ disk[i] # "none" => app = "full"
              /\ disk[i] = "part" => \E t \in Threads : th[t].ins = i /\ th[t].pc = "extract"

\* Threads that have not ended.
LiveSet == {t \in Threads : Live(t)}

\* g_handler_thread_num counts every live thread, except that __update_thread_num(1)
\* may be outstanding for the last one.
Counting ==
    num + (IF late THEN 1 ELSE 0) = Cardinality(LiveSet)

\* The inductive invariant.
Inv == Shape /\ Locking /\ Machines /\ Fresh /\ Whole /\ Counting /\ RunLimit

---------------------------------------------------------------------------

\* lynode starts in states of the right types.
LEMMA ShapeInit == Init => Shape
<1> SUFFICES ASSUME Init PROVE Shape
  OBVIOUS
<1>1. NoThread("none") \in ThreadType
  BY DEF NoThread, ThreadType, Places, AllActions, Results
<1>2. \A t \in Threads : Live(t) => th[t].ins \in Instances
  BY DEF Init, Live, NoThread
<1>3. th \in [Threads -> ThreadType]
  BY <1>1 DEF Init
<1>4. /\ lock \in [Instances -> BOOLEAN] /\ active \in [Instances -> BOOLEAN]
      /\ ran \in [Instances -> BOOLEAN]
      /\ disk \in [Instances -> {"none", "dir", "part", "full", "used"}]
      /\ status \in [Instances -> {"NEW", "STOP", "START", "NEED_QUERY", "NOT_EXIST",
                                   "DELETE", "GONE"}]
  BY DEF Init
<1>5. num \in Int /\ restarts \in Nat /\ app \in {"none", "part", "full"}
  BY DEF Init
<1>6. late \in BOOLEAN /\ applock \in BOOLEAN
  BY Zenon DEF Init
<1> QED BY <1>2, <1>3, <1>4, <1>5, <1>6 DEF Shape

\* What Goto does to the record of its thread.
Moved(t, p, r) ==
    /\ th' \in [Threads -> ThreadType]
    /\ \A u \in Threads \ {t} : th'[u] = th[u]
    /\ th'[t].pc = p /\ th'[t].ret = r
    /\ th'[t].act = th[t].act /\ th'[t].ins = th[t].ins
    /\ th'[t].new = th[t].new /\ th'[t].made = th[t].made

\* Goto changes the place and the result of its thread and nothing else.
LEMMA GotoMoves ==
    ASSUME Shape, NEW t \in Threads, NEW p \in Places, NEW r \in Results, Goto(t, p, r)
    PROVE  Moved(t, p, r)
  BY DEF Shape, ThreadType, Goto, Moved

\* The places and results, spelled out.
LEMMA Words ==
    /\ Locked \cup {"none", "lock", "lockrun", "query", "end", "done"} = Places
    /\ {"held", "run", "lockapp", "app", "download", "putapp", "dir", "disk",
           "extract", "boot", "unlock"} = Locked
    /\ {"FAILURE", "SUCCESS", "NOT_RUNNING", "INS_RUNNING", "STARTING_OSM",
            "QUERIED"} = Results
  BY DEF Places, Locked, Results

\* Every step of a control thread keeps the types.
LEMMA ShapeStep ==
    ASSUME Shape, NEW t \in Threads, Thread(t)
    PROVE  Shape'
  <1> USE DEF Shape, Live, Moved, files, locks
  <1>1. CASE LockGet(t) BY <1>1, GotoMoves, Words DEF LockGet
  <1>2. CASE LockFail(t) BY <1>2, GotoMoves, Words DEF LockFail
  <1>3. CASE LockPut(t)
    <2>1. th[t].ret \in Results /\ {"lockrun",
       "end"} \subseteq Places /\ "FAILURE" \in Results
      BY Words DEF ThreadType
    <2>2. \E p \in {"lockrun", "end"}, r \in Results : Moved(t, p, r)
      BY <1>3, <2>1, GotoMoves DEF LockPut
    <2> QED BY <1>3, <2>2 DEF LockPut
  <1>4. CASE DomainStop(t) BY <1>4, GotoMoves, Words DEF DomainStop
  <1>5. CASE DomainAcpireboot(t)
    <2>1. \E r \in {"NOT_RUNNING", "SUCCESS", "FAILURE"} : Goto(t, "unlock", r)
      BY <1>5 DEF DomainAcpireboot
    <2>2. PICK r \in Results : Goto(t, "unlock", r)
      BY <2>1 DEF Results
    <2>3. Moved(t, "unlock", r)
      BY <2>2, GotoMoves, Words
    <2> QED BY <1>5, <2>3 DEF DomainAcpireboot
  <1>6. CASE DomainDestroy(t)
    <2>1. \E r \in {"INS_RUNNING", "SUCCESS", "FAILURE"} : Goto(t, "unlock", r)
      BY <1>6 DEF DomainDestroy
    <2>2. PICK r \in Results : Goto(t, "unlock", r)
      BY <2>1 DEF Results
    <2>3. Moved(t, "unlock", r)
      BY <2>2, GotoMoves, Words
    <2>4. disk' \in [Instances -> {"none", "dir", "part", "full", "used"}]
      BY <1>6 DEF DomainDestroy, Cleaned, NotCleaned
    <2> QED BY <1>6, <2>3, <2>4 DEF DomainDestroy
  <1>7. CASE DomainQuery(t) BY <1>7, GotoMoves, Words DEF DomainQuery, SetStatus
  <1>8. CASE RunCheck(t) BY <1>8, GotoMoves, Words DEF RunCheck
  <1>9. CASE AppLockGet(t) BY <1>9, GotoMoves, Words DEF AppLockGet
  <1>10. CASE AppCheck(t) BY <1>10, GotoMoves, Words DEF AppCheck
  <1>11. CASE AppDownload(t) BY <1>11, GotoMoves, Words DEF AppDownload
  <1>12. CASE AppLockPut(t) BY <1>12, GotoMoves, Words DEF AppLockPut
  <1>13. CASE RunDir(t)
    <2>1. Moved(t, "disk", "FAILURE") \/ Moved(t, "unlock", "FAILURE")
      BY <1>13, GotoMoves, Words DEF RunDir
    <2>2. disk' \in [Instances -> {"none", "dir", "part", "full", "used"}]
      BY <1>13 DEF RunDir, NotCleaned
    <2> QED BY <1>13, <2>1, <2>2 DEF RunDir
  <1>14. CASE RunDisk(t) BY <1>14, Words DEF RunDisk, ThreadType
  <1>15. CASE RunExtract(t)
    <2>1. Moved(t, "boot", "FAILURE") \/ Moved(t, "unlock", "FAILURE")
      BY <1>15, GotoMoves, Words DEF RunExtract
    <2>2. disk' \in [Instances -> {"none", "dir", "part", "full", "used"}]
      BY <1>15 DEF RunExtract
    <2> QED BY <1>15, <2>1, <2>2 DEF RunExtract
  <1>16. CASE RunBoot(t)
    <2>1. Moved(t, "unlock", "STARTING_OSM") \/ Moved(t, "unlock", "FAILURE")
      BY <1>16, GotoMoves, Words DEF RunBoot
    <2>2. disk' \in [Instances -> {"none", "dir", "part", "full", "used"}]
      BY <1>16 DEF RunBoot, Cleaned, NotCleaned
    <2>3. active' \in [Instances -> BOOLEAN] /\ ran' \in [Instances -> BOOLEAN]
      BY <1>16 DEF RunBoot
    <2> QED BY <1>16, <2>1, <2>2, <2>3 DEF RunBoot
  <1>17. CASE End(t)
    <2>1. NoThread("done") \in ThreadType /\ NoThread("done").pc = "done"
      BY DEF NoThread, ThreadType, Places, AllActions, Results
    <2>2. th' \in [Threads -> ThreadType]
      BY <1>17, <2>1 DEF End
    <2>3. \A u \in Threads : Live(u)' => Live(u) /\ th'[u] = th[u]
      BY <1>17, <2>1 DEF End
    <2>4. status' \in [Instances -> {"NEW", "STOP", "START", "NEED_QUERY", "NOT_EXIST",
                                     "DELETE", "GONE"}]
      BY <1>17 DEF End, Reported, SetStatus
    <2> QED BY <1>17, <2>2, <2>3, <2>4 DEF End
  <1>18. CASE JobTimeout(t) BY <1>18 DEF JobTimeout, SetStatus
  <1> QED BY <1>1, <1>2, <1>3, <1>4, <1>5, <1>6, <1>7, <1>8, <1>9, <1>10, <1>11, <1>12,
             <1>13, <1>14, <1>15, <1>16, <1>17, <1>18 DEF Thread

\* A step of a thread that goes on leaves the count right.
LEMMA CountSame ==
    ASSUME Counting, RunLimit, NEW t \in Threads, Live(t), Live(t)', th'[t].act = th[t].act,
           \A u \in Threads \ {t} : th'[u] = th[u], UNCHANGED <<num, late>>
    PROVE  Counting' /\ RunLimit'
<1>1. \A u \in Threads : Live(u)' <=> Live(u)
  BY DEF Live
<1>2. LiveSet' = LiveSet
  BY <1>1 DEF LiveSet
<1>3. {u \in Threads : th[u].act = "RUN" /\ Live(u)}'
        = {u \in Threads : th[u].act = "RUN" /\ Live(u)}
  BY <1>1
<1> QED BY <1>2, <1>3 DEF Counting, RunLimit

\* __file_lock_get keeps the invariant: the lock was free, so no thread was under it.
LEMMA LockGetStep ==
    ASSUME Inv, NEW t \in Threads, LockGet(t)
    PROVE  Inv'
<1>1. Moved(t, "held", "FAILURE") \/ Moved(t, "run", "FAILURE")
  BY GotoMoves, Words DEF Inv, LockGet
<1>2. Shape'
  BY ShapeStep DEF Thread, Inv
<1>3. Locking'
  BY <1>1 DEF LockGet, Inv, Shape, Moved, locks, files, Locking, Locked, AppLocked,
         NoStaleLock, Holds, AppHolds, Live
<1>4. Machines'
  BY <1>1 DEF LockGet, Inv, Shape, Moved, locks, files, Locking, Machines,
         MachineHasDisk, Locked, Starting, Live
<1>5. Fresh'
  BY <1>1 DEF LockGet, Inv, Shape, Moved, locks, files, Locking, Fresh, Locked, Live
<1>6. Whole'
  BY <1>1 DEF LockGet, Inv, Shape, Moved, locks, files, Locking, Whole, Locked,
         AppLocked, Live
<1>7. Counting' /\ RunLimit'
  BY <1>1, CountSame DEF LockGet, Moved, Inv, Live
<1> QED BY <1>2, <1>3, <1>4, <1>5, <1>6, <1>7 DEF Inv

\* A thread that gives up the wait for a lock keeps the invariant.
LEMMA LockFailStep ==
    ASSUME Inv, NEW t \in Threads, LockFail(t)
    PROVE  Inv'
<1>1. Moved(t, "end", "FAILURE")
  BY GotoMoves, Words DEF Inv, LockFail
<1>2. Shape'
  BY ShapeStep DEF Thread, Inv
<1>3. Locking'
  BY <1>1 DEF LockFail, Inv, Shape, Moved, locks, files, Locking, Locked, AppLocked,
         NoStaleLock, Holds, AppHolds, Live
<1>4. Machines'
  BY <1>1 DEF LockFail, Inv, Shape, Moved, locks, files, Locking, Machines,
         MachineHasDisk, Locked, Starting, Live
<1>5. Fresh'
  BY <1>1 DEF LockFail, Inv, Shape, Moved, locks, files, Locking, Fresh, Locked, Live
<1>6. Whole'
  BY <1>1 DEF LockFail, Inv, Shape, Moved, locks, files, Locking, Whole, Locked,
         AppLocked, Live
<1>7. Counting' /\ RunLimit'
  BY <1>1, CountSame DEF LockFail, Moved, Inv, Live
<1> QED BY <1>2, <1>3, <1>4, <1>5, <1>6, <1>7 DEF Inv

\* __domain_stop keeps the invariant.
LEMMA DomainStopStep ==
    ASSUME Inv, NEW t \in Threads, DomainStop(t)
    PROVE  Inv'
<1>1. \/ Moved(t, "unlock", "NOT_RUNNING") \/ Moved(t, "unlock", "SUCCESS")
      \/ Moved(t, "unlock", "FAILURE")
  BY GotoMoves, Words DEF Inv, DomainStop
<1>2. Shape'
  BY ShapeStep DEF Thread, Inv
<1>3. Locking'
  BY <1>1 DEF DomainStop, Inv, Shape, Moved, locks, files, Locking, Locked, AppLocked,
         NoStaleLock, Holds, AppHolds, Live
<1>4. Machines'
  BY <1>1 DEF DomainStop, Inv, Shape, Moved, locks, files, Locking, Machines,
         MachineHasDisk, Locked, Starting, Live
<1>5. Fresh'
  BY <1>1 DEF DomainStop, Inv, Shape, Moved, locks, files, Locking, Fresh, Locked, Live
<1>6. Whole'
  BY <1>1 DEF DomainStop, Inv, Shape, Moved, locks, files, Locking, Whole, Locked,
         AppLocked, Live
<1>7. Counting' /\ RunLimit'
  BY <1>1, CountSame DEF DomainStop, Moved, Inv, Live
<1> QED BY <1>2, <1>3, <1>4, <1>5, <1>6, <1>7 DEF Inv

\* __domain_query, without a lock, keeps the invariant: it writes no file.
LEMMA DomainQueryStep ==
    ASSUME Inv, NEW t \in Threads, DomainQuery(t)
    PROVE  Inv'
<1>1. Moved(t, "end", "QUERIED")
  BY GotoMoves, Words DEF Inv, DomainQuery
<1>2. Shape'
  BY ShapeStep DEF Thread, Inv
<1>3. Locking'
  BY <1>1 DEF DomainQuery, Inv, Shape, Moved, locks, files, Locking, Locked, AppLocked,
         NoStaleLock, Holds, AppHolds, Live
<1>4. Machines'
  BY <1>1 DEF DomainQuery, Inv, Shape, Moved, locks, files, Locking, Machines,
         MachineHasDisk, Locked, Starting, Live
<1>5. Fresh'
  BY <1>1 DEF DomainQuery, Inv, Shape, Moved, locks, files, Locking, Fresh, Locked, Live
<1>6. Whole'
  BY <1>1 DEF DomainQuery, Inv, Shape, Moved, locks, files, Locking, Whole, Locked,
         AppLocked, Live
<1>7. Counting' /\ RunLimit'
  BY <1>1, CountSame DEF DomainQuery, Moved, Inv, Live
<1> QED BY <1>2, <1>3, <1>4, <1>5, <1>6, <1>7 DEF Inv

\* The test of the domain in __domain_run keeps the invariant.
LEMMA RunCheckStep ==
    ASSUME Inv, NEW t \in Threads, RunCheck(t)
    PROVE  Inv'
<1>1. \/ Moved(t, "unlock", "INS_RUNNING") /\ active[th[t].ins]
      \/ Moved(t, "lockapp", "FAILURE") /\ ~ active[th[t].ins]
      \/ Moved(t, "dir", "FAILURE") /\ ~ active[th[t].ins] /\ disk[th[t].ins] # "none"
  BY GotoMoves, Words DEF Inv, RunCheck
<1>2. Shape'
  BY ShapeStep DEF Thread, Inv
<1>3. Locking'
  BY <1>1 DEF RunCheck, Inv, Shape, Moved, locks, files, Locking, Locked, AppLocked,
         NoStaleLock, Holds, AppHolds, Live
<1>4. Machines'
  BY <1>1 DEF RunCheck, Inv, Shape, Moved, locks, files, Locking, Machines,
         MachineHasDisk, Locked, Starting, Live
<1>5. Fresh'
  BY <1>1 DEF RunCheck, Inv, Shape, Moved, locks, files, Locking, Fresh, Locked, Live
<1>6. Whole'
  BY <1>1 DEF RunCheck, Inv, Shape, Moved, locks, files, Locking, Whole, Locked,
         AppLocked, Live
<1>7. Counting' /\ RunLimit'
  BY <1>1, CountSame DEF RunCheck, Moved, Inv, Live
<1> QED BY <1>2, <1>3, <1>4, <1>5, <1>6, <1>7 DEF Inv

\* The lock of the appliance keeps the invariant.
LEMMA AppLockGetStep ==
    ASSUME Inv, NEW t \in Threads, AppLockGet(t)
    PROVE  Inv'
<1>1. \/ Moved(t, "app", "FAILURE") /\ ~ applock /\ applock' = TRUE
      \/ Moved(t, "unlock", "FAILURE") /\ applock' = applock
  BY GotoMoves, Words DEF Inv, AppLockGet
<1>2. Shape'
  BY ShapeStep DEF Thread, Inv
<1>3. Locking'
  BY <1>1 DEF AppLockGet, Inv, Shape, Moved, locks, files, Locking, Locked, AppLocked,
         NoStaleLock, Holds, AppHolds, Live
<1>4. Machines'
  BY <1>1 DEF AppLockGet, Inv, Shape, Moved, locks, files, Locking, Machines,
         MachineHasDisk, Locked, Starting, Live
<1>5. Fresh'
  BY <1>1 DEF AppLockGet, Inv, Shape, Moved, locks, files, Locking, Fresh, Locked, Live
<1>6. Whole'
  BY <1>1 DEF AppLockGet, Inv, Shape, Moved, locks, files, Locking, Whole, Locked,
         AppLocked, Live
<1>7. Counting' /\ RunLimit'
  BY <1>1, CountSame DEF AppLockGet, Moved, Inv, Live
<1> QED BY <1>2, <1>3, <1>4, <1>5, <1>6, <1>7 DEF Inv

\* The checksum test keeps the invariant: only a file that is not whole is removed.
LEMMA AppCheckStep ==
    ASSUME Inv, NEW t \in Threads, AppCheck(t)
    PROVE  Inv'
<1>1. \/ Moved(t, "putapp", "FAILURE") /\ app = "full" /\ app' = app /\ applock' = applock
      \/ Moved(t, "download", "FAILURE") /\ app # "full" /\ app' = "part" /\ applock' = applock
      \/ Moved(t, "unlock", "FAILURE") /\ applock' = FALSE /\ app' = app
  BY GotoMoves, Words DEF Inv, AppCheck
<1>2. Shape'
  BY ShapeStep DEF Thread, Inv
<1>3. Locking'
  BY <1>1 DEF AppCheck, Inv, Shape, Moved, locks, files, Locking, Locked, AppLocked,
         NoStaleLock, Holds, AppHolds, Live
<1>4. Machines'
  BY <1>1 DEF AppCheck, Inv, Shape, Moved, locks, files, Locking, Machines,
         MachineHasDisk, Locked, Starting, Live
<1>5. Fresh'
  BY <1>1 DEF AppCheck, Inv, Shape, Moved, locks, files, Locking, Fresh, Locked, Live
<1>6. Whole'
  BY <1>1 DEF AppCheck, Inv, Shape, Moved, locks, files, Locking, Whole, Locked,
         AppLocked, Live
<1>7. Counting' /\ RunLimit'
  BY <1>1, CountSame DEF AppCheck, Moved, Inv, Live
<1> QED BY <1>2, <1>3, <1>4, <1>5, <1>6, <1>7 DEF Inv

\* The download keeps the invariant, with its error paths.
LEMMA AppDownloadStep ==
    ASSUME Inv, NEW t \in Threads, AppDownload(t)
    PROVE  Inv'
<1>1. \/ Moved(t, "putapp", "FAILURE") /\ app' = "full" /\ applock' = applock
      \/ Moved(t, "unlock", "FAILURE") /\ app' = "none" /\ applock' = FALSE
  BY GotoMoves, Words DEF Inv, AppDownload
<1>2. Shape'
  BY ShapeStep DEF Thread, Inv
<1>3. Locking'
  BY <1>1 DEF AppDownload, Inv, Shape, Moved, locks, files, Locking, Locked, AppLocked,
         NoStaleLock, Holds, AppHolds, Live
<1>4. Machines'
  BY <1>1 DEF AppDownload, Inv, Shape, Moved, locks, files, Locking, Machines,
         MachineHasDisk, Locked, Starting, Live
<1>5. Fresh'
  BY <1>1 DEF AppDownload, Inv, Shape, Moved, locks, files, Locking, Fresh, Locked, Live
<1>6. Whole'
  BY <1>1 DEF AppDownload, Inv, Shape, Moved, locks, files, Locking, Whole, Locked,
         AppLocked, Live
<1>7. Counting' /\ RunLimit'
  BY <1>1, CountSame DEF AppDownload, Moved, Inv, Live
<1> QED BY <1>2, <1>3, <1>4, <1>5, <1>6, <1>7 DEF Inv

\* Giving back the lock of the appliance keeps the invariant.
LEMMA AppLockPutStep ==
    ASSUME Inv, NEW t \in Threads, AppLockPut(t)
    PROVE  Inv'
<1>1. Moved(t, "dir", "FAILURE")
  BY GotoMoves, Words DEF Inv, AppLockPut
<1>2. Shape'
  BY ShapeStep DEF Thread, Inv
<1>3. Locking'
  BY <1>1 DEF AppLockPut, Inv, Shape, Moved, locks, files, Locking, Locked, AppLocked,
         NoStaleLock, Holds, AppHolds, Live
<1>4. Machines'
  BY <1>1 DEF AppLockPut, Inv, Shape, Moved, locks, files, Locking, Machines,
         MachineHasDisk, Locked, Starting, Live
<1>5. Fresh'
  BY <1>1 DEF AppLockPut, Inv, Shape, Moved, locks, files, Locking, Fresh, Locked, Live
<1>6. Whole'
  BY <1>1 DEF AppLockPut, Inv, Shape, Moved, locks, files, Locking, Whole, Locked,
         AppLocked, Live
<1>7. Counting' /\ RunLimit'
  BY <1>1, CountSame DEF AppLockPut, Moved, Inv, Live
<1> QED BY <1>2, <1>3, <1>4, <1>5, <1>6, <1>7 DEF Inv

\* The preparation of the directory keeps the invariant.
LEMMA RunDirStep ==
    ASSUME Inv, NEW t \in Threads, RunDir(t)
    PROVE  Inv'
<1>1. \/ Moved(t, "disk", "FAILURE") /\ disk'[th[t].ins] # "none"
      \/ Moved(t, "unlock", "FAILURE")
  BY GotoMoves, Words DEF Inv, RunDir, Shape, Live
<1>2. Shape'
  BY ShapeStep DEF Thread, Inv
<1>3. Locking'
  BY <1>1 DEF RunDir, NotCleaned, Inv, Shape, Moved, locks, files, Locking, Locked,
         AppLocked, NoStaleLock, Holds, AppHolds, Live
<1>4. Machines'
  BY <1>1 DEF RunDir, NotCleaned, Inv, Shape, Moved, locks, files, Locking, Machines,
         MachineHasDisk, Locked, Starting, Live
<1>5. Fresh'
  BY <1>1 DEF RunDir, NotCleaned, Inv, Shape, Moved, locks, files, Locking, Fresh,
         Locked, Live
<1>6. Whole'
  BY <1>1 DEF RunDir, NotCleaned, Inv, Shape, Moved, locks, files, Locking, Whole,
         Locked, AppLocked, Live
<1>7. Counting' /\ RunLimit'
  BY <1>1, CountSame DEF RunDir, Moved, Inv, Live
<1> QED BY <1>2, <1>3, <1>4, <1>5, <1>6, <1>7 DEF Inv

\* The extraction keeps the invariant, with its error path.
LEMMA RunExtractStep ==
    ASSUME Inv, NEW t \in Threads, RunExtract(t)
    PROVE  Inv'
<1>1. \/ Moved(t, "boot", "FAILURE") /\ disk' = [disk EXCEPT ![th[t].ins] = app]
      \/ Moved(t, "unlock", "FAILURE") /\ disk' = [disk EXCEPT ![th[t].ins] = "dir"]
  BY GotoMoves, Words DEF Inv, RunExtract
<1>2. Shape'
  BY ShapeStep DEF Thread, Inv
<1>3. Locking'
  BY <1>1 DEF RunExtract, Inv, Shape, Moved, locks, files, Locking, Locked, AppLocked,
         NoStaleLock, Holds, AppHolds, Live
<1>4. Machines'
  BY <1>1 DEF RunExtract, Inv, Shape, Moved, locks, files, Locking, Machines,
         MachineHasDisk, Locked, Starting, Live
<1>5. Fresh'
  BY <1>1 DEF RunExtract, Inv, Shape, Moved, locks, files, Locking, Fresh, Locked, Live
<1>6. Whole'
  BY <1>1 DEF RunExtract, Inv, Shape, Moved, locks, files, Locking, Whole, Locked,
         AppLocked, Live
<1>7. Counting' /\ RunLimit'
  BY <1>1, CountSame DEF RunExtract, Moved, Inv, Live
<1> QED BY <1>2, <1>3, <1>4, <1>5, <1>6, <1>7 DEF Inv

\* The start of the machine keeps the invariant, with the clean-up of a failed one.
LEMMA RunBootStep ==
    ASSUME Inv, NEW t \in Threads, RunBoot(t)
    PROVE  Inv'
<1>1. Moved(t, "unlock", "STARTING_OSM") \/ Moved(t, "unlock", "FAILURE")
  BY GotoMoves, Words DEF Inv, RunBoot
<1>2. Shape'
  BY ShapeStep DEF Thread, Inv
<1>3. Locking'
  BY <1>1 DEF RunBoot, Cleaned, NotCleaned, Inv, Shape, Moved, locks, files, Locking,
         Locked, AppLocked, NoStaleLock, Holds, AppHolds, Live
<1>4. Machines'
  BY <1>1 DEF RunBoot, Cleaned, NotCleaned, Inv, Shape, Moved, locks, files, Locking,
         Machines, MachineHasDisk, Locked, Starting, Live
<1>5. Fresh'
  BY <1>1 DEF RunBoot, Cleaned, NotCleaned, Inv, Shape, Moved, locks, files, Locking,
         Fresh, Locked, Live
<1>6. Whole'
  BY <1>1 DEF RunBoot, Cleaned, NotCleaned, Inv, Shape, Moved, locks, files, Locking,
         Whole, Locked, AppLocked, Live
<1>7. Counting' /\ RunLimit'
  BY <1>1, CountSame DEF RunBoot, Moved, Inv, Live
<1> QED BY <1>2, <1>3, <1>4, <1>5, <1>6, <1>7 DEF Inv

\* The live threads can be counted.
LEMMA LiveFinite == IsFiniteSet(LiveSet) /\ Cardinality(LiveSet) \in Nat
<1>1. LiveSet \subseteq Threads
  BY DEF LiveSet
<1>2. IsFiniteSet(LiveSet)
  BY <1>1, ConstantsOK, FS_Subset
<1> QED BY <1>2, FS_CardinalityType

\* RunLimit holds on while no thread becomes a live RUN.
LEMMA FewerRuns ==
    ASSUME RunLimit,
           \A u \in Threads : th'[u].act = "RUN" /\ Live(u)' => th[u].act = "RUN" /\ Live(u)
    PROVE  RunLimit'
<1> DEFINE R == {u \in Threads : th[u].act = "RUN" /\ Live(u)}
<1>1. IsFiniteSet(R)
  BY ConstantsOK, FS_Subset
<1>2. R' \subseteq R
  OBVIOUS
<1>3. Cardinality(R') <= Cardinality(R) /\ Cardinality(R) \in Nat /\ Cardinality(R') \in Nat
  BY <1>1, <1>2, FS_Subset, FS_CardinalityType
<1> QED BY <1>3, ConstantsOK DEF RunLimit

\* __file_lock_put keeps the invariant: only the thread under the lock removes it.
LEMMA LockPutStep ==
    ASSUME Inv, NEW t \in Threads, LockPut(t)
    PROVE  Inv'
<1>1. \/ /\ Moved(t, "lockrun", "FAILURE")
         /\ th[t].ret \in {"SUCCESS", "NOT_RUNNING"}
      \/ Moved(t, "end", th[t].ret)
  <2>1. th[t].ret \in Results
    BY DEF Inv, Shape, ThreadType
  <2> QED BY <2>1, GotoMoves, Words DEF Inv, LockPut
<1>2. Shape'
  BY ShapeStep DEF Thread, Inv
<1>3. Locking'
  BY <1>1 DEF LockPut, Inv, Shape, Moved, locks, files, Locking, Locked, AppLocked,
         NoStaleLock, Holds, AppHolds, Live
<1>4. Machines'
  BY <1>1 DEF LockPut, Inv, Shape, Moved, locks, files, Locking, Machines,
         MachineHasDisk, Locked, Starting, Live
<1>5. Fresh'
  BY <1>1 DEF LockPut, Inv, Shape, Moved, locks, files, Locking, Fresh, Locked, Live
<1>6. Whole'
  BY <1>1 DEF LockPut, Inv, Shape, Moved, locks, files, Locking, Whole, Locked,
         AppLocked, Live
<1>7. Counting' /\ RunLimit'
  BY <1>1, CountSame DEF LockPut, Moved, Inv, Live
<1> QED BY <1>2, <1>3, <1>4, <1>5, <1>6, <1>7 DEF Inv

\* __domain_acpireboot keeps the invariant.
LEMMA DomainAcpirebootStep ==
    ASSUME Inv, NEW t \in Threads, DomainAcpireboot(t)
    PROVE  Inv'
<1>1. PICK r \in Results : Moved(t, "unlock", r)
  <2>1. \E r \in {"NOT_RUNNING", "SUCCESS", "FAILURE"} : Goto(t, "unlock", r)
    BY DEF DomainAcpireboot
  <2>2. PICK r \in Results : Goto(t, "unlock", r)
    BY <2>1 DEF Results
  <2> QED BY <2>2, GotoMoves, Words DEF Inv
<1>2. Shape'
  BY ShapeStep DEF Thread, Inv
<1>3. Locking'
  BY <1>1 DEF DomainAcpireboot, Inv, Shape, Moved, locks, files, Locking, Locked,
         AppLocked, NoStaleLock, Holds, AppHolds, Live
<1>4. Machines'
  BY <1>1 DEF DomainAcpireboot, Inv, Shape, Moved, locks, files, Locking, Machines,
         MachineHasDisk, Locked, Starting, Live
<1>5. Fresh'
  BY <1>1 DEF DomainAcpireboot, Inv, Shape, Moved, locks, files, Locking, Fresh, Locked,
         Live
<1>6. Whole'
  BY <1>1 DEF DomainAcpireboot, Inv, Shape, Moved, locks, files, Locking, Whole, Locked,
         AppLocked, Live
<1>7. Counting' /\ RunLimit'
  BY <1>1, CountSame DEF DomainAcpireboot, Moved, Inv, Live
<1> QED BY <1>2, <1>3, <1>4, <1>5, <1>6, <1>7 DEF Inv

\* __domain_destroy keeps the invariant: it cleans up behind a machine that is off.
LEMMA DomainDestroyStep ==
    ASSUME Inv, NEW t \in Threads, DomainDestroy(t)
    PROVE  Inv'
<1>1. PICK r \in Results : Moved(t, "unlock", r)
  <2>1. \E r \in {"INS_RUNNING", "SUCCESS", "FAILURE"} : Goto(t, "unlock", r)
    BY DEF DomainDestroy
  <2>2. PICK r \in Results : Goto(t, "unlock", r)
    BY <2>1 DEF Results
  <2> QED BY <2>2, GotoMoves, Words DEF Inv
<1>2. \/ disk' = disk
      \/ ~ active[th[t].ins] /\ disk' = [disk EXCEPT ![th[t].ins] = "none"]
      \/ ~ active[th[t].ins] /\ disk' = [disk EXCEPT ![th[t].ins] = "dir"]
  BY DEF DomainDestroy, Cleaned, NotCleaned
<1>3. disk[th[t].ins] = "none" => disk' = disk
  BY DEF DomainDestroy
<1>4. Shape'
  BY ShapeStep DEF Thread, Inv
<1>5. Locking'
  BY <1>1, <1>2, <1>3 DEF DomainDestroy, Inv, Shape, Moved, locks, files, Locking,
         Locked, AppLocked, NoStaleLock, Holds, AppHolds, Live
<1>6. Machines'
  BY <1>1, <1>2, <1>3 DEF DomainDestroy, Inv, Shape, Moved, locks, files, Locking,
         Machines, MachineHasDisk, Locked, Starting, Live
<1>7. Fresh'
  BY <1>1, <1>2, <1>3 DEF DomainDestroy, Inv, Shape, Moved, locks, files, Locking, Fresh,
         Locked, Live
<1>8. Whole'
  BY <1>1, <1>2, <1>3 DEF DomainDestroy, Inv, Shape, Moved, locks, files, Locking, Whole,
         Locked, AppLocked, Live
<1>9. Counting' /\ RunLimit'
  BY <1>1, <1>2, <1>3, CountSame DEF DomainDestroy, Moved, Inv, Live
<1> QED BY <1>4, <1>5, <1>6, <1>7, <1>8, <1>9 DEF Inv

\* The creation of the disk keeps the invariant.
LEMMA RunDiskStep ==
    ASSUME Inv, NEW t \in Threads, RunDisk(t)
    PROVE  Inv'
<1>1. /\ \A u \in Threads \ {t} : th'[u] = th[u]
      /\ th'[t].ins = th[t].ins /\ th'[t].act = th[t].act
      /\ \/ /\ th'[t].pc = "extract" /\ disk[th[t].ins] = "dir"
            /\ disk' = [disk EXCEPT ![th[t].ins] = "part"]
         \/ /\ th'[t].pc = "boot" /\ disk[th[t].ins] # "dir"
            /\ disk' = disk /\ th'[t].made = th[t].made
  BY DEF RunDisk, Inv, Shape, ThreadType
<1>2. Shape'
  BY ShapeStep DEF Thread, Inv
<1>3. Locking'
  BY <1>1 DEF RunDisk, Inv, Shape, Moved, locks, files, Locking, Locked, AppLocked,
         NoStaleLock, Holds, AppHolds, Live
<1>4. Machines'
  BY <1>1 DEF RunDisk, Inv, Shape, Moved, locks, files, Locking, Machines,
         MachineHasDisk, Locked, Starting, Live
<1>5. Fresh'
  BY <1>1 DEF RunDisk, Inv, Shape, Moved, locks, files, Locking, Fresh, Locked, Live
<1>6. Whole'
  BY <1>1 DEF RunDisk, Inv, Shape, Moved, locks, files, Locking, Whole, Locked,
         AppLocked, Live
<1>7. Counting' /\ RunLimit'
  BY <1>1, CountSame DEF RunDisk, Moved, Inv, Live
<1> QED BY <1>2, <1>3, <1>4, <1>5, <1>6, <1>7 DEF Inv

\* The timeout of a job of lyclc keeps the invariant.
LEMMA JobTimeoutStep ==
    ASSUME Inv, NEW t \in Threads, JobTimeout(t)
    PROVE  Inv'
<1>1. UNCHANGED th
  BY DEF JobTimeout
<1>2. Shape'
  BY ShapeStep DEF Thread, Inv
<1>3. Locking'
  BY <1>1 DEF JobTimeout, Inv, Shape, Moved, locks, files, Locking, Locked, AppLocked,
         NoStaleLock, Holds, AppHolds, Live
<1>4. Machines'
  BY <1>1 DEF JobTimeout, Inv, Shape, Moved, locks, files, Locking, Machines,
         MachineHasDisk, Locked, Starting, Live
<1>5. Fresh'
  BY <1>1 DEF JobTimeout, Inv, Shape, Moved, locks, files, Locking, Fresh, Locked, Live
<1>6. Whole'
  BY <1>1 DEF JobTimeout, Inv, Shape, Moved, locks, files, Locking, Whole, Locked,
         AppLocked, Live
<1>7. Counting' /\ RunLimit'
  BY DEF JobTimeout, Inv, Counting, RunLimit, LiveSet, Live
<1> QED BY <1>2, <1>3, <1>4, <1>5, <1>6, <1>7 DEF Inv

\* The end of a control thread keeps the invariant: it is discounted once.
LEMMA EndStep ==
    ASSUME Inv, NEW t \in Threads, End(t)
    PROVE  Inv'
<1>1. /\ \A u \in Threads \ {t} : th'[u] = th[u]
      /\ th'[t].pc = "done" /\ ~ th'[t].made
  BY DEF End, NoThread, Inv, Shape
<1>2. LiveSet' = LiveSet \ {t} /\ t \in LiveSet
  BY <1>1 DEF End, LiveSet, Live
<1>3. Shape'
  BY ShapeStep DEF Thread, Inv
<1>4. Locking'
  BY <1>1, <1>2 DEF End, Inv, Shape, Moved, locks, files, Locking, Locked, AppLocked,
         NoStaleLock, Holds, AppHolds, Live
<1>5. Machines'
  BY <1>1, <1>2 DEF End, Inv, Shape, Moved, locks, files, Locking, Machines,
         MachineHasDisk, Locked, Starting, Live
<1>6. Fresh'
  BY <1>1, <1>2 DEF End, Inv, Shape, Moved, locks, files, Locking, Fresh, Locked, Live
<1>7. Whole'
  BY <1>1, <1>2 DEF End, Inv, Shape, Moved, locks, files, Locking, Whole, Locked,
         AppLocked, Live
<1>8. Counting' /\ RunLimit'
  <2>1. Cardinality(LiveSet') = Cardinality(LiveSet) - 1
    BY <1>2, LiveFinite, FS_RemoveElement
  <2>2. Counting'
    BY <2>1 DEF Inv, Counting, End, Shape
  <2>3. RunLimit'
    BY <1>1, FewerRuns DEF Inv, Live
  <2> QED BY <2>2, <2>3
<1> QED BY <1>3, <1>4, <1>5, <1>6, <1>7, <1>8 DEF Inv

\* The late __update_thread_num(1) keeps the invariant.
LEMMA CountUpStep ==
    ASSUME Inv, CountUp
    PROVE  Inv'
<1>1. UNCHANGED th
  BY DEF CountUp
<1>2. Shape'
  <2>1. late' \in BOOLEAN
    BY Zenon DEF CountUp
  <2>2. num' \in Int
    BY DEF CountUp, Inv, Shape
  <2> QED BY <1>1, <2>1, <2>2 DEF CountUp, Inv, Shape, Live, locks, files
<1>3. Locking'
  BY <1>1 DEF CountUp, Inv, Shape, Moved, locks, files, Locking, Locked, AppLocked,
         NoStaleLock, Holds, AppHolds, Live
<1>4. Machines'
  BY <1>1 DEF CountUp, Inv, Shape, Moved, locks, files, Locking, Machines,
         MachineHasDisk, Locked, Starting, Live
<1>5. Fresh'
  BY <1>1 DEF CountUp, Inv, Shape, Moved, locks, files, Locking, Fresh, Locked, Live
<1>6. Whole'
  BY <1>1 DEF CountUp, Inv, Shape, Moved, locks, files, Locking, Whole, Locked,
         AppLocked, Live
<1>7. Counting' /\ RunLimit'
  BY DEF CountUp, Inv, Counting, RunLimit, LiveSet, Live, Shape
<1> QED BY <1>2, <1>3, <1>4, <1>5, <1>6, <1>7 DEF Inv

\* A machine that shuts itself down keeps the invariant.
LEMMA GuestOffStep ==
    ASSUME Inv, NEW i \in Instances, GuestOff(i)
    PROVE  Inv'
<1>1. UNCHANGED th
  BY DEF GuestOff
<1>2. Shape'
  BY DEF GuestOff, Inv, Shape, Live, locks, files
<1>3. Locking'
  BY <1>1 DEF GuestOff, Inv, Shape, Moved, locks, files, Locking, Locked, AppLocked,
         NoStaleLock, Holds, AppHolds, Live
<1>4. Machines'
  BY <1>1 DEF GuestOff, Inv, Shape, Moved, locks, files, Locking, Machines,
         MachineHasDisk, Locked, Starting, Live
<1>5. Fresh'
  BY <1>1 DEF GuestOff, Inv, Shape, Moved, locks, files, Locking, Fresh, Locked, Live
<1>6. Whole'
  BY <1>1 DEF GuestOff, Inv, Shape, Moved, locks, files, Locking, Whole, Locked,
         AppLocked, Live
<1>7. Counting' /\ RunLimit'
  BY DEF GuestOff, Inv, Counting, RunLimit, LiveSet, Live
<1> QED BY <1>2, <1>3, <1>4, <1>5, <1>6, <1>7 DEF Inv

\* A restart of lynode keeps the invariant: locks and threads go together.
LEMMA RestartStep ==
    ASSUME Inv, Restart
    PROVE  Inv'
<1>1. /\ NoThread("done") \in ThreadType /\ NoThread("done").pc = "done"
      /\ ~ NoThread("done").made
  BY DEF NoThread, ThreadType, Places, AllActions, Results
<1>2. th' \in [Threads -> ThreadType] /\ \A u \in Threads : ~ Live(u)' /\ ~ th'[u].made
  BY <1>1 DEF Restart, Inv, Shape, Live, Fresh
<1>3. Shape'
  <2>1. late' \in BOOLEAN /\ applock' \in BOOLEAN
    BY Zenon DEF Restart
  <2>2. num' \in Int /\ restarts' \in Nat /\ lock' \in [Instances -> BOOLEAN]
    BY DEF Restart, Inv, Shape
  <2> QED BY <1>2, <2>1, <2>2 DEF Restart, Inv, Shape, files
<1>4. Locking'
  BY <1>1, <1>2 DEF Restart, Inv, Shape, Moved, locks, files, Locking, Locked, AppLocked,
         NoStaleLock, Holds, AppHolds, Live
<1>5. Machines'
  BY <1>1, <1>2 DEF Restart, Inv, Shape, Moved, locks, files, Locking, Machines,
         MachineHasDisk, Locked, Starting, Live
<1>6. Fresh'
  BY <1>1, <1>2 DEF Restart, Inv, Shape, Moved, locks, files, Locking, Fresh, Locked, Live
<1>7. Whole'
  BY <1>1, <1>2 DEF Restart, Inv, Shape, Moved, locks, files, Locking, Whole, Locked,
         AppLocked, Live
<1>8. Counting' /\ RunLimit'
  <2>1. LiveSet' = {} /\ {u \in Threads : th[u].act = "RUN" /\ Live(u)}' = {}
    BY <1>2 DEF LiveSet
  <2> QED BY <2>1, FS_EmptySet, ConstantsOK DEF Restart, Counting, RunLimit
<1> QED BY <1>3, <1>4, <1>5, <1>6, <1>7, <1>8 DEF Inv

\* A new request keeps the invariant: ly_handler_busy has seen every live thread.
LEMMA RequestStep ==
    ASSUME Inv, NEW t \in Threads, NEW a \in Actions, NEW i \in Instances, Request(t, a, i)
    PROVE  Inv'
<1> DEFINE rec == [pc |-> Entry(a), act |-> a, ins |-> i, new |-> status[i] = "NEW",
                   made |-> FALSE, ret |-> "FAILURE"]
<1>1. a \in AllActions
  BY ConstantsOK
<1>2. Entry(a) \in {"lockrun", "lock", "query", "end"}
  BY <1>1 DEF Entry, AllActions
<1>3. /\ NoThread("done") \in ThreadType /\ NoThread("done").pc = "done"
      /\ ~ NoThread("done").made
  BY DEF NoThread, ThreadType, Places, AllActions, Results
<1>4. rec \in ThreadType
  BY <1>1, <1>2 DEF ThreadType, Places, Results
<1>5. status' \in [Instances -> {"NEW", "STOP", "START", "NEED_QUERY", "NOT_EXIST",
                                 "DELETE", "GONE"}]
  BY DEF Request, SetStatus, Inv, Shape
<1>6. ~ Live(t) /\ late = FALSE
  BY DEF Request, Live, Inv, Shape
<1>7. CASE th' = [th EXCEPT ![t] = NoThread("done")] /\ UNCHANGED late
  <2>1. /\ th' \in [Threads -> ThreadType] /\ \A u \in Threads \ {t} : th'[u] = th[u]
        /\ th'[t].pc = "done" /\ ~ th'[t].made
    BY <1>3, <1>7 DEF Inv, Shape
  <2>2. Shape'
    BY <2>1, <1>5, <1>7 DEF Inv, Shape, Live, Request, locks, files
  <2>3. Locking' /\ Machines'
    BY <2>1, <1>6 DEF Inv, Locking, Machines, MachineHasDisk, NoStaleLock, Holds, AppHolds,
                      Locked, AppLocked, Starting, Live, Request, locks, files
  <2>4. Fresh' /\ Whole'
    BY <2>1, <1>6 DEF Inv, Fresh, Whole, Live, Request, files
  <2>5. LiveSet' = LiveSet
    BY <2>1, <1>6 DEF LiveSet, Live
  <2>6. Counting' /\ RunLimit'
    BY <2>1, <2>5, <1>7, FewerRuns DEF Inv, Counting, Live, Request
  <2> QED BY <2>2, <2>3, <2>4, <2>6 DEF Inv
<1>8. CASE (a = "RUN" => ~ HandlerBusy) /\ th' = [th EXCEPT ![t] = rec] /\ late' = TRUE
  <2>1. /\ th' \in [Threads -> ThreadType] /\ \A u \in Threads \ {t} : th'[u] = th[u]
        /\ th'[t].pc \in {"lockrun", "lock", "query", "end"} /\ ~ th'[t].made
        /\ th'[t].ins = i /\ th'[t].act = a
    BY <1>2, <1>4, <1>8 DEF Inv, Shape
  <2>2. late' \in BOOLEAN
    BY Zenon, <1>8
  <2>3. Shape'
    BY <2>1, <2>2, <1>5 DEF Inv, Shape, Live, Request, locks, files
  <2>4. Locking' /\ Machines'
    BY <2>1, <1>6 DEF Inv, Locking, Machines, MachineHasDisk, NoStaleLock, Holds, AppHolds,
                      Locked, AppLocked, Starting, Live, Request, locks, files
  <2>5. Fresh' /\ Whole'
    BY <2>1, <1>6 DEF Inv, Fresh, Whole, Live, Request, files
  <2>6. LiveSet' = LiveSet \cup {t} /\ t \notin LiveSet
    BY <2>1, <1>6 DEF LiveSet, Live
  <2>7. Cardinality(LiveSet') = Cardinality(LiveSet) + 1
    BY <2>6, LiveFinite, FS_AddElement
  <2>8. num = Cardinality(LiveSet) /\ num' = num
    BY <1>6 DEF Inv, Counting, Request, Shape
  <2>9. Counting'
    BY <2>7, <2>8, <1>8 DEF Counting, Inv, Shape
  <2>10. CASE a # "RUN"
    <3>1. RunLimit'
      BY <2>1, <2>10, FewerRuns DEF Inv, Live
    <3> QED BY <3>1, <2>3, <2>4, <2>5, <2>9 DEF Inv
  <2>11. CASE a = "RUN"
    <3> DEFINE R == {u \in Threads : th[u].act = "RUN" /\ Live(u)}
    <3>1. Cardinality(LiveSet) <= ThreadMax
      BY <2>8, <2>11, <1>8, LiveFinite, ConstantsOK DEF HandlerBusy
    <3>2. R' \subseteq LiveSet'
      BY DEF LiveSet
    <3>3. IsFiniteSet(LiveSet')
      BY <2>6, LiveFinite, FS_AddElement
    <3>4. Cardinality(R') <= Cardinality(LiveSet')
      BY <3>2, <3>3, FS_Subset
    <3>5. Cardinality(R') \in Nat
      BY <3>2, <3>3, FS_Subset, FS_CardinalityType
    <3>6. RunLimit'
      BY <3>1, <3>4, <3>5, <2>7, LiveFinite, ConstantsOK DEF RunLimit
    <3> QED BY <3>6, <2>3, <2>4, <2>5, <2>9 DEF Inv
  <2> QED BY <2>10, <2>11
<1> QED BY <1>7, <1>8 DEF Request

---------------------------------------------------------------------------

\* lynode starts in the invariant.
LEMMA InvInit == Init => Inv
<1> SUFFICES ASSUME Init PROVE Inv
  OBVIOUS
<1>1. \A t \in Threads : th[t].pc = "none" /\ ~ th[t].made
  BY DEF Init, NoThread
<1>2. Locking /\ Machines
  BY <1>1 DEF Init, Locking, Machines, MachineHasDisk, NoStaleLock, Locked, AppLocked,
         Starting
<1>3. Fresh /\ Whole
  BY <1>1 DEF Init, Fresh, Whole
<1>4. LiveSet = {} /\ {t \in Threads : th[t].act = "RUN" /\ Live(t)} = {}
  BY <1>1 DEF LiveSet, Live
<1>5. Counting
  <2>1. num = 0 /\ ~ late
    BY DEF Init
  <2>2. Cardinality(LiveSet) = 0
    BY <1>4, FS_EmptySet
  <2> QED BY <2>1, <2>2 DEF Counting
<1>6. RunLimit
  BY <1>4, FS_EmptySet, ConstantsOK DEF RunLimit
<1> QED BY <1>2, <1>3, <1>5, <1>6, ShapeInit DEF Inv

\* Every step keeps the invariant.
LEMMA InvStep == Inv /\ [Next]_vars => Inv'
<1> SUFFICES ASSUME Inv, [Next]_vars PROVE Inv'
  OBVIOUS
<1>1. CASE \E t \in Threads : Thread(t)
  <2>1. PICK t \in Threads : Thread(t)
    BY <1>1
  <2> QED BY <2>1, LockGetStep, LockFailStep, LockPutStep, DomainStopStep,
             DomainAcpirebootStep, DomainDestroyStep, DomainQueryStep, RunCheckStep,
             AppLockGetStep, AppCheckStep, AppDownloadStep, AppLockPutStep, RunDirStep,
             RunDiskStep, RunExtractStep, RunBootStep, EndStep, JobTimeoutStep DEF Thread
<1>2. CASE \E t \in Threads, a \in Actions, i \in Instances : Request(t, a, i)
  BY <1>2, RequestStep
<1>3. CASE CountUp
  BY <1>3, CountUpStep
<1>4. CASE Restart
  BY <1>4, RestartStep
<1>5. CASE \E i \in Instances : GuestOff(i)
  BY <1>5, GuestOffStep
<1>6. CASE UNCHANGED vars
  BY <1>6 DEF vars, Inv, Shape, Locking, Machines, MachineHasDisk, NoStaleLock, Holds,
              AppHolds, Fresh, Whole, Counting, LiveSet, Live, RunLimit
<1> QED BY <1>1, <1>2, <1>3, <1>4, <1>5, <1>6 DEF Next

\* The inductive invariant of the control threads of lynode holds in every state.
THEOREM NodeInvariance == Spec => []Inv
  BY InvInit, InvStep, PTL DEF Spec

\* The variables keep their types; the thread counter stays between -1 and the number
\* of requests.
THEOREM NodeTypeCorrect == Spec => []TypeOK
<1>1. Inv => TypeOK
  <2> SUFFICES ASSUME Inv PROVE TypeOK
    OBVIOUS
  <2>1. Cardinality(LiveSet) <= Cardinality(Threads) /\ Cardinality(Threads) \in Nat
    <3>1. LiveSet \subseteq Threads
      BY DEF LiveSet
    <3> QED BY <3>1, ConstantsOK, FS_Subset, FS_CardinalityType
  <2>2. num \in -1 .. Cardinality(Threads)
    BY <2>1, LiveFinite DEF Inv, Counting, Shape
  <2> QED BY <2>2 DEF Inv, Shape, TypeOK
<1> QED BY <1>1, NodeInvariance, PTL

\* The lock files of lynode work: no two threads are under the lock of one instance, or
\* of the appliance, for any number of threads, instances and restarts.
THEOREM LocksExclude == Spec => []OneAtATime
<1>1. Inv => OneAtATime
  BY DEF Inv, Locking, OneAtATime, Holds, AppHolds
<1> QED BY <1>1, NodeInvariance, PTL

\* No error path of the handlers and no restart leaves a lock file behind.
THEOREM LocksNeverStale == Spec => []NoStaleLock
<1>1. Inv => NoStaleLock
  BY DEF Inv, Locking
<1> QED BY <1>1, NodeInvariance, PTL

\* No DESTROY, failed start or second start takes the disk of a running machine.
THEOREM MachinesHaveDisks == Spec => []MachineHasDisk
<1>1. Inv => MachineHasDisk
  BY DEF Inv, Machines
<1> QED BY <1>1, NodeInvariance, PTL

\* As long as lynode is not restarted no machine is started from half a disk.
THEOREM DisksAreWhole == Spec => []WholeDisk
<1>1. Inv => WholeDisk
  BY DEF Inv, Whole, WholeDisk
<1> QED BY <1>1, NodeInvariance, PTL

\* A disk that a machine has run on goes only by a DESTROY, or by a start that lyclc
\* sent for a new instance.
THEOREM DisksAreKept == Spec => KeepDisk
<1> DEFINE Kept == \A i \in Instances : disk[i] = "used" /\ disk'[i] # "used" =>
                       \E t \in Threads : Holds(t, i) /\ (th[t].act = "DESTROY" \/ th[t].new)
<1>1. ASSUME Inv, [Next]_vars PROVE Kept
  <2>1. ASSUME NEW t \in Threads, DomainDestroy(t) PROVE Kept
    <3>1. \A i \in Instances \ {th[t].ins} : disk'[i] = disk[i]
      BY <1>1, <2>1 DEF DomainDestroy, Cleaned, NotCleaned, Inv, Shape
    <3>2. th[t].pc \in Locked /\ th[t].act = "DESTROY"
      BY <2>1 DEF DomainDestroy, Locked
    <3> QED BY <3>1, <3>2 DEF Holds
  <2>2. ASSUME NEW t \in Threads, RunDir(t) PROVE Kept
    <3>1. \A i \in Instances \ {th[t].ins} : disk'[i] = disk[i]
      BY <1>1, <2>2 DEF RunDir, NotCleaned, Inv, Shape
    <3>2. th[t].pc \in Locked /\ (th[t].new \/ disk[th[t].ins] = "none" \/ disk' = disk)
      BY <1>1, <2>2 DEF RunDir, Locked, Inv, Shape
    <3> QED BY <3>1, <3>2 DEF Holds
  <2>3. ASSUME NEW t \in Threads, RunDisk(t) PROVE Kept
    BY <1>1, <2>3 DEF RunDisk, Inv, Shape
  <2>4. ASSUME NEW t \in Threads, RunExtract(t) PROVE Kept
    <3>1. th[t].pc = "extract"
      BY <2>4 DEF RunExtract
    <3>2. disk[th[t].ins] # "used"
      BY <1>1, <3>1 DEF Inv, Fresh
    <3>3. \A i \in Instances \ {th[t].ins} : disk'[i] = disk[i]
      BY <1>1, <2>4 DEF RunExtract, Inv, Shape
    <3> QED BY <3>2, <3>3
  <2>5. ASSUME NEW t \in Threads, RunBoot(t) PROVE Kept
    BY <1>1, <2>5 DEF RunBoot, Cleaned, NotCleaned, Inv, Shape, Fresh
  <2>6. CASE UNCHANGED disk
    BY <2>6
  <2>7. ASSUME NEW t \in Threads, Thread(t) PROVE Kept
    BY <2>1, <2>2, <2>3, <2>4, <2>5, <2>6, <2>7
       DEF Thread, LockGet, LockFail, LockPut, DomainStop, DomainAcpireboot, DomainQuery,
           RunCheck, AppLockGet, AppCheck, AppDownload, AppLockPut, End, JobTimeout, files
  <2> QED BY <1>1, <2>6, <2>7 DEF Next, Request, CountUp, Restart, GuestOff, files, vars
<1> QED BY <1>1, NodeInvariance, PTL DEF Spec, KeepDisk

\* No more than LY_NODE_THREAD_MAX + 1 starts run, however late threads are counted.
THEOREM RunsAreLimited == Spec => []RunLimit
<1>1. Inv => RunLimit
  BY DEF Inv
<1> QED BY <1>1, NodeInvariance, PTL

=============================================================================
