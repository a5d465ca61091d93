----------------------------- MODULE NodeHandler -----------------------------
(***************************************************************************)
(* The instance control threads of a compute node (platform/src/compute,   *)
(* handler.c). The main thread of lynode starts a thread per request; the  *)
(* threads share the files of instances and appliances, which they guard   *)
(* with lock files, libvirt's domains, and a counter of running threads.   *)
(*                                                                         *)
(* What the abstraction keeps and drops:                                   *)
(*  - One appliance, which all instances are made from: its file is        *)
(*    "none", "part" (being downloaded, or left so) or "full".             *)
(*  - The directory of an instance is "none", "dir" (no disk in it),       *)
(*    "part" (a disk being extracted, or left so), "full" or "used" (a     *)
(*    machine has run on it).                                              *)
(*  - Of the instance row of lyclc only the run state is kept, as far as   *)
(*    requests to this node and their ends set it. A response may be lost. *)
(*  - Waiting is a choice: a thread that waits for a lock may give up, and *)
(*    a job of lyclc may time out. Removing a lock file does not fail.     *)
(*  - Network, storage, kernel and configuration files are left out.       *)
(***************************************************************************)
EXTENDS Integers, FiniteSets

CONSTANTS
    Threads,        \* requests, each served by a thread
    Instances,
    NoInstance,
    Actions,        \* actions lyclc asks for in this instance of the model
    ThreadMax,      \* LY_NODE_THREAD_MAX
    MaxRestarts     \* bound: restarts of lynode

AllActions == {"RUN", "STOP", "SUSPEND", "SAVE", "ACPIREBOOT", "FULLREBOOT",
               "DESTROY", "QUERY"}

ASSUME ConstantsOK ==
    /\ IsFiniteSet(Threads)
    /\ NoInstance \notin Instances
    /\ Actions \subseteq AllActions
    /\ ThreadMax \in Nat /\ MaxRestarts \in Nat

VARIABLES
    th,         \* thread: [pc, act, ins, new, made, ret]
    late,       \* the main thread has yet to count the thread it created
    num,        \* g_handler_thread_num
    lock,       \* lock files of instances
    applock,    \* lock file of the appliance
    app,        \* appliance file
    disk,       \* directory of an instance
    active,     \* libvirt_domain_active
    status,     \* run state in the row of lyclc
    ran,        \* history: a machine of the instance was started
    restarts

vars == <<th, late, num, lock, applock, app, disk, active, status, ran, restarts>>
files == <<app, disk>>
locks == <<lock, applock>>

\* Places of a thread between __file_lock_get and __file_lock_put of its instance.
Locked == {"held", "run", "lockapp", "app", "download", "putapp", "dir", "disk",
           "extract", "boot", "unlock"}
AppLocked == {"app", "download", "putapp"}

Holds(t, i) == th[t].ins = i /\ th[t].pc \in Locked
AppHolds(t) == th[t].pc \in AppLocked

---------------------------------------------------------------------------
(* Requests and the end of a thread.                                       *)

Live(t) == th[t].pc \notin {"none", "done"}

\* A request that no thread works on: before it came, or after it was served.
NoThread(pc) == [pc |-> pc, act |-> "QUERY", ins |-> NoInstance,
                 new |-> FALSE, made |-> FALSE, ret |-> "FAILURE"]

\* db_instance_update_status: the row of a deleted instance stays as it is.
SetStatus(i, s) ==
    IF status[i] \in {"DELETE", "GONE"} THEN status ELSE [status EXCEPT ![i] = s]

\* Variant with a fault: the limit is tested one too high.
HandlerBusyLate == num > ThreadMax + 1

\* ly_handler_busy
HandlerBusy == num > ThreadMax

Entry(a) == CASE a = "RUN" -> "lockrun"
              [] a \in {"STOP", "ACPIREBOOT", "FULLREBOOT", "DESTROY"} -> "lock"
              [] a = "QUERY" -> "query"
              [] a \in {"SUSPEND", "SAVE"} -> "end"

\* ly_handler_instance_control, up to the creation of the thread. A RUN is dropped
\* when too many threads run or the load is too high. The web page marks an
\* instance deleted before it asks for its DESTROY.
Request(t, a, i) ==
    /\ th[t].pc = "none" /\ ~ late /\ status[i] # "GONE"
    /\ \/ a = "RUN" /\ th' = [th EXCEPT ![t] = NoThread("done")] /\ UNCHANGED late
       \/ /\ a = "RUN" => ~ HandlerBusy
          /\ th' = [th EXCEPT ![t] = [pc |-> Entry(a), act |-> a, ins |-> i,
                                      new |-> status[i] = "NEW", made |-> FALSE,
                                      ret |-> "FAILURE"]]
          /\ late' = TRUE
    /\ status' = IF a = "DESTROY" THEN SetStatus(i, "DELETE") ELSE status
    /\ UNCHANGED <<num, locks, files, active, ran, restarts>>

\* Variant with a fault: only starts are counted, and every thread is discounted.
CountUpRuns ==
    /\ late
    /\ late' = FALSE
    /\ num' = num + IF \E t \in Threads : th[t].act = "RUN" THEN 1 ELSE 0
    /\ UNCHANGED <<th, locks, files, active, status, ran, restarts>>

\* The rest of it: __update_thread_num(1), maybe after the thread has ended.
CountUp ==
    /\ late
    /\ late' = FALSE /\ num' = num + 1
    /\ UNCHANGED <<th, locks, files, active, status, ran, restarts>>

\* What the last response of thread t makes of the row (job_update_status and
\* __instance_info_update of lyclc).
Reported(t) ==
    LET i == th[t].ins
    IN  CASE th[t].ret = "STARTING_OSM" -> SetStatus(i, "START")
          [] th[t].act = "STOP" /\ th[t].ret \in {"SUCCESS", "NOT_RUNNING"} ->
                SetStatus(i, "STOP")
          [] th[t].act = "DESTROY" /\ th[t].ret = "SUCCESS" ->
                [status EXCEPT ![i] = "GONE"]
          [] OTHER -> status

\* The last lines of __instance_control_func.
End(t) ==
    /\ th[t].pc = "end"
    /\ th' = [th EXCEPT ![t] = NoThread("done")]
    /\ num' = num - 1
    /\ status' \in {status, Reported(t)}
    /\ UNCHANGED <<late, locks, files, active, ran, restarts>>

\* The job of lyclc that thread t works for times out.
JobTimeout(t) ==
    /\ Live(t)
    /\ status' = SetStatus(th[t].ins, "NEED_QUERY")
    /\ UNCHANGED <<th, late, num, locks, files, active, ran, restarts>>

\* Thread t goes on at pc, with what its function will return so far.
Goto(t, pc, ret) == th' = [th EXCEPT ![t].pc = pc, ![t].ret = ret]

---------------------------------------------------------------------------
(* Locks.                                                                  *)

\* __file_lock_get: link succeeds.
LockGet(t) ==
    LET i == th[t].ins
    IN  /\ th[t].pc \in {"lock", "lockrun"} /\ ~ lock[i]
        /\ lock' = [lock EXCEPT ![i] = TRUE]
        /\ Goto(t, IF th[t].pc = "lock" THEN "held" ELSE "run", "FAILURE")
        /\ UNCHANGED <<late, num, applock, files, active, status, ran, restarts>>

\* Variant with a fault: a thread that gave up takes the way out of those that did not.
LockFailUnlocks(t) ==
    /\ th[t].pc \in {"lock", "lockrun"}
    /\ Goto(t, "unlock", "FAILURE")
    /\ UNCHANGED <<late, num, locks, files, active, status, ran, restarts>>

\* __file_lock_get gives up after ten minutes, or cannot make its file.
LockFail(t) ==
    /\ th[t].pc \in {"lock", "lockrun"}
    /\ Goto(t, "end", "FAILURE")
    /\ UNCHANGED <<late, num, locks, files, active, status, ran, restarts>>

\* __file_lock_put and what the caller does next: a FULLREBOOT whose stop went
\* well reports RUNNING_STOPPED and goes on with __domain_run.
LockPut(t) ==
    /\ th[t].pc = "unlock"
    /\ lock' = [lock EXCEPT ![th[t].ins] = FALSE]
    /\ IF th[t].act = "FULLREBOOT" /\ th[t].ret \in {"SUCCESS", "NOT_RUNNING"}
       THEN Goto(t, "lockrun", "FAILURE")
       ELSE Goto(t, "end", th[t].ret)
    /\ UNCHANGED <<late, num, applock, files, active, status, ran, restarts>>

---------------------------------------------------------------------------
(* The simple actions.                                                     *)

\* __domain_stop: a shutdown, then a forced power off, or neither works.
DomainStop(t) ==
    LET i == th[t].ins
    IN  /\ th[t].pc = "held" /\ th[t].act \in {"STOP", "FULLREBOOT"}
        /\ \/ ~ active[i] /\ Goto(t, "unlock", "NOT_RUNNING") /\ UNCHANGED active
           \/ /\ active[i] /\ Goto(t, "unlock", "SUCCESS")
              /\ active' = [active EXCEPT ![i] = FALSE]
           \/ active[i] /\ Goto(t, "unlock", "FAILURE") /\ UNCHANGED active
        /\ UNCHANGED <<late, num, locks, files, status, ran, restarts>>

\* __domain_acpireboot: the machine stays.
DomainAcpireboot(t) ==
    /\ th[t].pc = "held" /\ th[t].act = "ACPIREBOOT"
    /\ \/ ~ active[th[t].ins] /\ Goto(t, "unlock", "NOT_RUNNING")
       \/ active[th[t].ins] /\ \E r \in {"SUCCESS", "FAILURE"} : Goto(t, "unlock", r)
    /\ UNCHANGED <<late, num, locks, files, active, status, ran, restarts>>

\* Variant with a fault: the files are removed without a look at the machine.
DomainDestroyAnyway(t) ==
    LET i == th[t].ins
    IN  /\ th[t].pc = "held" /\ th[t].act = "DESTROY"
        /\ disk' = [disk EXCEPT ![i] = "none"] /\ Goto(t, "unlock", "SUCCESS")
        /\ UNCHANGED <<late, num, locks, app, active, status, ran, restarts>>

\* __domain_instance_clean, as directories it may leave: it moves file after file
\* and may fail before or after the disk; that rmdir fails is no error.
Cleaned(i) == {[disk EXCEPT ![i] = d] : d \in {"none", "dir"}}
NotCleaned(i) == {disk, [disk EXCEPT ![i] = "dir"]}

\* __domain_destroy
DomainDestroy(t) ==
    LET i == th[t].ins
    IN  /\ th[t].pc = "held" /\ th[t].act = "DESTROY"
        /\ \/ active[i] /\ Goto(t, "unlock", "INS_RUNNING") /\ UNCHANGED disk
           \/ /\ ~ active[i] /\ disk[i] = "none"
              /\ Goto(t, "unlock", "SUCCESS") /\ UNCHANGED disk
           \/ /\ ~ active[i] /\ disk[i] # "none"
              /\ \/ disk' \in Cleaned(i) /\ Goto(t, "unlock", "SUCCESS")
                 \/ disk' \in NotCleaned(i) /\ Goto(t, "unlock", "FAILURE")
        /\ UNCHANGED <<late, num, locks, app, active, status, ran, restarts>>

\* __domain_query: takes no lock, and calls every instance that has a directory
\* stopped. Its response sets the run state of the row.
DomainQuery(t) ==
    LET i == th[t].ins
        s == IF active[i] THEN "START"
             ELSE IF disk[i] # "none" THEN "STOP" ELSE "NOT_EXIST"
    IN  /\ th[t].pc = "query"
        /\ status' \in {status, SetStatus(i, s)}
        /\ Goto(t, "end", "QUERIED")
        /\ UNCHANGED <<late, num, locks, files, active, ran, restarts>>

---------------------------------------------------------------------------
(* __domain_run.                                                           *)

\* A running machine ends it; a new or missing directory needs the appliance.
RunCheck(t) ==
    LET i == th[t].ins
    IN  /\ th[t].pc = "run"
        /\ \/ active[i] /\ Goto(t, "unlock", "INS_RUNNING")
           \/ /\ ~ active[i] /\ (th[t].new \/ disk[i] = "none")
              /\ Goto(t, "lockapp", "FAILURE")
           \/ /\ ~ active[i] /\ ~ th[t].new /\ disk[i] # "none"
              /\ Goto(t, "dir", "FAILURE")
        /\ UNCHANGED <<late, num, locks, files, active, status, ran, restarts>>

\* The lock of the appliance, or giving up.
AppLockGet(t) ==
    /\ th[t].pc = "lockapp"
    /\ \/ ~ applock /\ applock' = TRUE /\ Goto(t, "app", "FAILURE")
       \/ Goto(t, "unlock", "FAILURE") /\ UNCHANGED applock
    /\ UNCHANGED <<late, num, lock, files, active, status, ran, restarts>>

\* A file with the right checksum is kept; any other is removed and downloaded. The
\* directory of an appliance that was never here may not be made.
AppCheck(t) ==
    /\ th[t].pc = "app"
    /\ \/ app = "full" /\ Goto(t, "putapp", "FAILURE") /\ UNCHANGED <<app, applock>>
       \/ app # "full" /\ app' = "part" /\ Goto(t, "download", "FAILURE")
          /\ UNCHANGED applock
       \/ /\ app = "none"
          /\ Goto(t, "unlock", "FAILURE") /\ applock' = FALSE /\ UNCHANGED app
    /\ UNCHANGED <<late, num, lock, disk, active, status, ran, restarts>>

\* Variant with a fault: a failed download leaves the lock of the appliance behind.
AppDownloadKeepsLock(t) ==
    /\ th[t].pc = "download"
    /\ \/ app' = "full" /\ Goto(t, "putapp", "FAILURE") /\ UNCHANGED applock
       \/ app' = "none" /\ Goto(t, "unlock", "FAILURE") /\ UNCHANGED applock
    /\ UNCHANGED <<late, num, lock, disk, active, status, ran, restarts>>

\* lyutil_download and the tests of its result; on failure the file is removed.
AppDownload(t) ==
    /\ th[t].pc = "download"
    /\ \/ app' = "full" /\ Goto(t, "putapp", "FAILURE") /\ UNCHANGED applock
       \/ app' = "none" /\ Goto(t, "unlock", "FAILURE") /\ applock' = FALSE
    /\ UNCHANGED <<late, num, lock, disk, active, status, ran, restarts>>

AppLockPut(t) ==
    /\ th[t].pc = "putapp"
    /\ applock' = FALSE
    /\ Goto(t, "dir", "FAILURE")
    /\ UNCHANGED <<late, num, lock, files, active, status, ran, restarts>>

\* The directory: emptied for a new instance, made when it is missing; the move
\* of a file or mkdir may fail.
RunDir(t) ==
    LET i == th[t].ins
        d == IF th[t].new \/ disk[i] = "none" THEN "dir" ELSE disk[i]
    IN  /\ th[t].pc = "dir"
        /\ \/ disk' = [disk EXCEPT ![i] = d] /\ Goto(t, "disk", "FAILURE")
           \/ /\ th[t].new \/ disk[i] = "none"
              /\ Goto(t, "unlock", "FAILURE")
              /\ disk' \in IF disk[i] = "none" THEN {disk} ELSE NotCleaned(i)
        /\ UNCHANGED <<late, num, locks, app, active, status, ran, restarts>>

\* A missing disk is created, to be extracted from the appliance.
RunDisk(t) ==
    LET i == th[t].ins
    IN  /\ th[t].pc = "disk"
        /\ \/ /\ disk[i] = "dir"
              /\ disk' = [disk EXCEPT ![i] = "part"]
              /\ th' = [th EXCEPT ![t].pc = "extract", ![t].made = TRUE]
           \/ /\ disk[i] # "dir"
              /\ th' = [th EXCEPT ![t].pc = "boot"]
              /\ UNCHANGED disk
        /\ UNCHANGED <<late, num, locks, app, active, status, ran, restarts>>

\* Variant with a fault: a disk that could not be extracted is not removed.
RunExtractLeaves(t) ==
    LET i == th[t].ins
    IN  /\ th[t].pc = "extract"
        /\ \/ /\ app # "none"
              /\ disk' = [disk EXCEPT ![i] = app]
              /\ Goto(t, "boot", "FAILURE")
           \/ UNCHANGED disk /\ Goto(t, "unlock", "FAILURE")
        /\ UNCHANGED <<late, num, locks, app, active, status, ran, restarts>>

\* lyutil_decompress_gz: a truncated appliance is extracted as far as it goes, and
\* that is no error. On failure the disk is removed and, the code then being
\* positive (FAILURE_APP_ERROR), the directory stays.
RunExtract(t) ==
    LET i == th[t].ins
    IN  /\ th[t].pc = "extract"
        /\ \/ /\ app # "none"
              /\ disk' = [disk EXCEPT ![i] = app]
              /\ Goto(t, "boot", "FAILURE")
           \/ disk' = [disk EXCEPT ![i] = "dir"] /\ Goto(t, "unlock", "FAILURE")
        /\ UNCHANGED <<late, num, locks, app, active, status, ran, restarts>>

\* Variant with a fault: a failed start cleans up the directory in every case.
RunBootCleans(t) ==
    LET i == th[t].ins
    IN  /\ th[t].pc = "boot"
        /\ \/ /\ active' = [active EXCEPT ![i] = TRUE]
              /\ ran' = [ran EXCEPT ![i] = TRUE]
              /\ disk' = [disk EXCEPT ![i] = "used"]
              /\ Goto(t, "unlock", "STARTING_OSM")
           \/ /\ disk' = [disk EXCEPT ![i] = "none"]
              /\ Goto(t, "unlock", "FAILURE")
              /\ UNCHANGED <<active, ran>>
        /\ UNCHANGED <<late, num, locks, app, status, restarts>>

\* Kernel and configuration files, libvirt_domain_create. When one of them fails
\* an instance that this request created is removed again.
RunBoot(t) ==
    LET i == th[t].ins
    IN  /\ th[t].pc = "boot"
        /\ \/ /\ active' = [active EXCEPT ![i] = TRUE]
              /\ ran' = [ran EXCEPT ![i] = TRUE]
              /\ disk' = [disk EXCEPT ![i] = "used"]
              /\ Goto(t, "unlock", "STARTING_OSM")
           \/ /\ disk' \in IF th[t].made THEN Cleaned(i) \cup NotCleaned(i) ELSE {disk}
              /\ Goto(t, "unlock", "FAILURE")
              /\ UNCHANGED <<active, ran>>
        /\ UNCHANGED <<late, num, locks, app, status, restarts>>

---------------------------------------------------------------------------

\* A machine shuts itself down.
GuestOff(i) ==
    /\ active[i]
    /\ active' = [active EXCEPT ![i] = FALSE]
    /\ UNCHANGED <<th, late, num, locks, files, status, ran, restarts>>

\* lynode ends and starts again: threads are gone, files and machines stay, and
\* __clean_lockfile removes the locks.
Restart ==
    /\ restarts < MaxRestarts
    /\ restarts' = restarts + 1
    /\ th' = [t \in Threads |-> IF Live(t) THEN NoThread("done") ELSE th[t]]
    /\ late' = FALSE /\ num' = 0
    /\ lock' = [i \in Instances |-> FALSE] /\ applock' = FALSE
    /\ UNCHANGED <<files, active, status, ran>>

Init ==
    /\ th = [t \in Threads |-> NoThread("none")]
    /\ late = FALSE /\ num = 0 /\ restarts = 0
    /\ lock = [i \in Instances |-> FALSE] /\ applock = FALSE
    /\ app = "none" /\ disk = [i \in Instances |-> "none"]
    /\ active = [i \in Instances |-> FALSE]
    /\ status = [i \in Instances |-> "NEW"]
    /\ ran = [i \in Instances |-> FALSE]

Thread(t) ==
    \/ LockGet(t) \/ LockFail(t) \/ LockPut(t)
    \/ DomainStop(t) \/ DomainAcpireboot(t) \/ DomainDestroy(t) \/ DomainQuery(t)
    \/ RunCheck(t) \/ AppLockGet(t) \/ AppCheck(t) \/ AppDownload(t) \/ AppLockPut(t)
    \/ RunDir(t) \/ RunDisk(t) \/ RunExtract(t) \/ RunBoot(t)
    \/ End(t) \/ JobTimeout(t)

Next ==
    \/ \E t \in Threads : Thread(t)
    \/ \E t \in Threads, a \in Actions, i \in Instances : Request(t, a, i)
    \/ CountUp \/ Restart
    \/ \E i \in Instances : GuestOff(i)

Spec == Init /\ [][Next]_vars

---------------------------------------------------------------------------
(* Properties.                                                             *)

Places == {"none", "lock", "lockrun", "query", "end", "done"} \cup Locked
Results == {"FAILURE", "SUCCESS", "NOT_RUNNING", "INS_RUNNING", "STARTING_OSM",
            "QUERIED"}
ThreadType == [pc : Places, act : AllActions, ins : Instances \cup {NoInstance}, new : BOOLEAN,
               made : BOOLEAN, ret : Results]

\* Every variable has the shape its comment gives. The counter of threads, which two
\* threads bring up to date in either order, is at least -1.
TypeOK ==
    /\ th \in [Threads -> ThreadType]
    /\ late \in BOOLEAN /\ num \in -1 .. Cardinality(Threads) /\ restarts \in Nat
    /\ lock \in [Instances -> BOOLEAN] /\ applock \in BOOLEAN
    /\ app \in {"none", "part", "full"}
    /\ disk \in [Instances -> {"none", "dir", "part", "full", "used"}]
    /\ active \in [Instances -> BOOLEAN]
    /\ status \in [Instances -> {"NEW", "STOP", "START", "NEED_QUERY", "NOT_EXIST",
                            "DELETE", "GONE"}]
    /\ ran \in [Instances -> BOOLEAN]

\* The lock files work: two threads are never between __file_lock_get and
\* __file_lock_put of the same instance, or of the appliance.
OneAtATime ==
    \A t, u \in Threads : t # u =>
        /\ \A i \in Instances : ~ (Holds(t, i) /\ Holds(u, i))
        /\ ~ (AppHolds(t) /\ AppHolds(u))

\* A lock file is there only while a thread works under it: no error path of the
\* handlers, and no restart, leaves one behind to stop all later requests.
NoStaleLock ==
    /\ \A i \in Instances : lock[i] => \E t \in Threads : Holds(t, i)
    /\ applock => \E t \in Threads : AppHolds(t)

\* A running machine has its disk: a DESTROY, a failed start or a new start of the
\* same instance never takes it away.
MachineHasDisk == \A i \in Instances : active[i] => disk[i] = "used"

\* A machine is never started from half a disk: one extracted from an appliance still
\* under download by another thread, or left by a failed start. (A restart of lynode may
\* leave a disk half extracted; the start after it uses that.)
WholeDisk ==
    restarts = 0 =>
        \A t \in Threads : th[t].pc = "boot" => disk[th[t].ins] \in {"full", "used"}

\* A disk a machine has run on goes only when a DESTROY holds the instance, or a
\* start that lyclc sent for a new instance: no failed start removes user data.
KeepDisk ==
    [][\A i \in Instances : disk[i] = "used" /\ disk'[i] # "used" =>
          \E t \in Threads : Holds(t, i) /\ (th[t].act = "DESTROY" \/ th[t].new) ]_vars

\* The limit of ly_handler_busy holds for starts, although the counter is brought
\* up to date by two threads, after the thread it counts has begun.
RunLimit ==
    Cardinality({t \in Threads : th[t].act = "RUN" /\ Live(t)}) <= ThreadMax + 1

\* luoyun.h on DOMAIN_S_STOP: "domain has run at least once, but now stopped".
StoppedHasRun == \A i \in Instances : status[i] = "STOP" => ran[i]

==============================================================================
