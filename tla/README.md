# LuoYunCloud in TLA+: jobs, instances, connections and quotas

LuoYunCloud runs virtual machines ("instances") on compute nodes. Users act
through a web application; a controller daemon turns their requests into work
for node daemons, and an OS manager inside each instance reports back. This
directory models the part that makes those actors agree, the job queue of the
controller; the part that does the work, the control threads of a node; the
connection of the OS manager, by which the controller learns how an instance is;
and what the web application hands out to users: storages, domains, instances,
addresses and ports. All paths below are relative to `src/`.

## The system

| part | source | state | operations |
|---|---|---|---|
| web application (lyweb, Python) | `lyweb/app`, `lyweb/tool` | rows of the database, iptables rules, nginx files | one server process per CPU; a handler checks, commits (once or several times), creates a job row and sends its id to lyclc |
| controller (lyclc, C) | `platform/src/clc` | job queue `g_job_list`, entity store (one entity per connection), database | event loop: one handler per readable socket, `job_dispatch` every few seconds |
| node daemon (lynode, C) | `platform/src/compute` | connection to lyclc, worker threads, libvirt domains | registers, serves instance control requests in threads, reports resources |
| OS manager (Python; older C and Windows programs) | `osmanager/bin/pyosm`, `platform/src/osmanager`, `win-osmanager` | connection to lyclc, last status reported | authenticates, registers, runs the status script, reports |
| shared code | `platform/src/util` | packet buffers, authentication | framing, XML, files |

lyclc is one thread, so its handlers are atomic with respect to one another. What
makes it hard is everything around it: nodes work on requests in threads while
lyclc times the job out, cancels it or restarts; connections are closed, half-open
or replaced; a job refers to its connection by a slot number that may be reused;
one handler consists of several database statements and sends, each of which may
fail; and the dispatch walk runs handlers that take jobs off the list it walks.

The status column of an instance has many writers: the OS manager's registration and
reports, the node's answers to jobs and to queries, closed connections, timeouts and the
start of lyclc. They arrive over different connections in any order.

In the web application the handlers of different processes interleave between a check
and the commit that relies on it, and a handler that changes two records (an address and
the config that names it, a port row and an iptables rule) may end between. The shipped
settings fork one process per CPU (`lyweb/settings.py:7`, `lyweb/site.py:202`), and the
limits, the addresses, the iptables chain and the nginx files are shared by all of them.

Which properties make each part correct:

- **job queue** (`lyjob.c`): conflicting jobs on a target are kept apart, no job is
  forgotten, every job ends, an end is final, the walk is safe under removals;
- **scheduler** (`node.c`): a node never gets more starts than its limit, the
  counter behind the limit is neither leaked nor negative, a pinned instance never
  runs twice;
- **entity store** (`entity.c`): one entity per row id, no reuse of a slot that is
  still referred to;
- **node threads** (`handler.c`): one thread at a time on the files of an instance, no
  lock left behind, no disk lost or used half made, the limit of starts kept;
- **OS manager** (`pyosm`, `ev_osm.c`, `lyjob2.c`): one entity per instance, a status that
  follows the newest connection, and a guest that goes down or comes up is noticed;
- **node handshake** (`ev_node.c`, `compute/events.c`): both sides agree on who is
  registered;
- **packets** (`lypacket.c`): the packets received are the packets sent;
- **web resources** (`lyweb/app`): limits are kept, up to what other processes had in
  flight; a deleted instance holds nothing; copies of an address agree with the table.

`PROJECT.json` lists every part with its status, and the hazards with the line where
each bites.

## Modules

- `ClcJobs.tla`: the job queue with everything that acts on it. Proof-friendly: no
  recursion, one action per handler.
- `MCClcJobs.tla`, `MCClcQueue.tla`, `Clc*.cfg`: instances for TLC. A behaviour of `MCClcQueue`
  is about the jobs of one instance or about starts over two nodes.
- `ClcJobsProofs.tla`: theorems about `ClcJobs` for every value of its constants.
- `ClcTablesProofs.tla`: theorems about the order of the queue, the jobs that are not
  forgotten and the refinement of `JobTable`.
- `ClcStartProofs.tla`: theorems about what the scheduler promises, the limit of starts and
  the one machine of an instance.
- `NodeHandler.tla`: the instance control threads of one lynode, with the lock files,
  the files of appliance and instances, the domains and the thread counter.
- `MCNodeHandler.tla`, `Node*.cfg`: instances for TLC.
- `NodeHandlerProofs.tla`: theorems about `NodeHandler`.
- `JobTable.tla`: the abstract specification of the job and instance tables, as the web
  application may rely on them. `ClcJobs` implements it: `Table` is the instance with the
  refinement mapping (a row whose status is not an ended one is open), `KeepsTables` the
  property.
- `OsmLink.tla`, `OsmLink.cfg`: one instance, its OS manager, the entities lyclc has for
  it, its job, the queries of `lyjob2.c` and the status column.
- `OsmLinkProofs.tla`: theorems about `OsmLink`.
- `WebQuota.tla`: storages, domains and instances of a user under their limits, with
  several server processes.
- `WebNetwork.tla`: addresses, the config column, port mappings, iptables rules and virtual
  hosts, with several server processes whose requests may fail at any step.
- `MCWeb.tla`, `Web*.cfg`: instances of these two for TLC.
- `WebQuotaProofs.tla`, `WebNetworkProofs.tla`: theorems about them.

The two meet at the request: `NodeStep` of `ClcJobs` is a thread of `NodeHandler` as
lyclc sees it (which machine it starts or stops, what it answers), and `Request` and
`Reported` of `NodeHandler` are lyclc as the threads see it (which run state comes with a
request, what an answer makes of it).

### ClcJobs: how the state corresponds to the code

| variable | code |
|---|---|
| `row` | table `job`: action, target, status |
| `note` | the socket of `_job_notify`: ids sent and not yet handled |
| `pos`, `tail` | `g_job_list`; the place of a job in it, 0 for a job not in it |
| `mem` | `LYJobInfo`: `j_status`; `j_pending_nr` (-1 not busy, 0 counted, 1 pending); `j_ent_id` |
| `elapsed` | `j_started` and `j_last_run` compared with the timeouts |
| `walk` | `job` of `list_for_each_entry_safe` in `job_dispatch`, fetched ahead |
| `ent` | `g_entity_store`: type, db_id, status bits, enabled bit, `ins_job_busy_nr`, whether the node has room, whether a join request is under way |
| `ins` | table `instance`: live, marked deleted or gone; `node_id` |
| `en` | table `node`: enabled |
| `wire` | the request of a job: the node (or, -1, the OS manager) that serves it, whether a reboot has stopped the machine, the answer under way |
| `vm`, `ran` | libvirt's active domains; nodes a machine was ever started on (history) |

### ClcJobs: how the actions correspond to the code

| action | code |
|---|---|
| `WebCreate`, `WebDelete` | `run_job`, the delete handler (`lyweb/app/instance/views.py`), also when the controller is not reached and when `run_job` returns early |
| `WebJob` | `__process_web_job` with `job_check` (`Blockers`, `Replaced`) and `job_insert` |
| `DispatchBegin`, `DispatchStep` | `job_dispatch`, a job at a time; `JobRun` is `__job_run` and below it one operator per `__job_*` function |
| `NodeStep` | a step of a lynode thread (`__instance_control_func`) up to its next answer |
| `NodeResponse` | `__process_node_xml_response`, `eh_process_osm_query` |
| `NodeAuth`, `NodeReauth`, `NodeRegister`, `NodeReport`, `NodeClose` | `eh_process_node_auth`, the join of an ENABLE, `__node_xml_register`, `__node_resource_update`, a closed socket |
| `OsmAuth`, `OsmAdvance`, `OsmClose` | `eh_process_osm_auth`, register and report, a closed socket |
| `Restart` | lyclc ends and runs `job_init` |
| `Elapse` | time passes a limit |

`JobUpdateStatus` is `job_update_status` with all that it triggers: the row, the node
recorded on LY_S_WAITING_STARTING_OSM, the busy counter, released OSM entities, the
deletion of a destroyed instance, `job_remove`. It is a function on a record of the
five variables (`Now`), so that a handler that calls it several times stays one action.

Abstractions: the statuses of a range (say all LY_S_RUNNING_*) are one name; ip,
keys and the run state of an instance are left out, and with them the internal
queries of `lyjob2.c`, which only refresh them; because the run state is left out
the delete handler may always be used (the code refuses it for an instance the row
says is running); the 60 second pause of `run_job` is a choice; cpu, memory, load
and storage of a node are one bit, `room`; a connection may take any free slot.
`Spend` bounds the failures; each `Max*` constant bounds one kind of event.

### NodeHandler: how state and actions correspond to the code

`th` is the stack of a control thread: where it is (`pc`), the action, the instance and
whether lyclc called it new (`ci`), `ins_create_new` (`made`), what the function will
return (`ret`). `num` is `g_handler_thread_num`, `late` the moment between
`pthread_create` and `__update_thread_num(1)`. `lock` and `applock` are the links
`.forlock.<id>`, `app` and `disk` the files, `active` libvirt's answer, `status` the run
state in the row of lyclc, `ran` history.

| action | code |
|---|---|
| `Request`, `CountUp` | `ly_handler_instance_control`, split where the new thread may run |
| `LockGet`, `LockFail`, `LockPut` | `__file_lock_get`, `__file_lock_put`; `LockPut` goes on with the second half of `__domain_fullreboot` |
| `DomainStop`, `DomainAcpireboot`, `DomainDestroy`, `DomainQuery` | the function of that name |
| `RunCheck` ... `RunBoot` | `__domain_run`, split where another thread may see the difference: domain test, appliance lock, checksum, download, directory, disk, extraction, start |
| `End` | the last response and the count at the end of `__instance_control_func` |
| `JobTimeout` | the timeout branch of `job_update_status`, which makes the row NEED_QUERY |
| `Restart` | lynode ends and comes back through `__clean_lockfile` |
| `GuestOff` | a machine powers off by itself |

Abstractions: one appliance; network, storage, kernel and configuration files of a start
are part of `RunBoot`, which may fail; a response is handled or lost at once; removing a
lock file does not fail; one lynode per node.

### OsmLink: how state and actions correspond to the code

`osm` is the process of `lyosm.py`: where it is, `sock`, whether `Config.status` is
registered, `notify`, and `APP_Status`. A connection `c` has two ends: `cl[c]`, the socket
in the guest, and `sv[c]`, the status flag of the entity in lyclc, with the packets under
way in `up[c]` and `down[c]`. `job` is the RUN, FULLREBOOT or STOP job of the instance, or the
state it waits in; `nlink` is the connection of the node, `node` the request it works on and
`ans` its answers, in order; `placed` says whether the row has a `node_id`; `query` has the
internal queries under way, `db` is the status column. `cur`, `late` and `ghosts` are history
that the properties need to name their exceptions.

| action | code |
|---|---|
| `OsmAuthRequest`, `OsmAuthReply`, `OsmRegister`, `OsmReported` | `eh_process_osm_auth`, `eh_process_osm_register`, `eh_process_osm_report` |
| `OsmGone` | `ly_epoll_entity_recv` when `recv` returns 0 or an error |
| `NewJob` | `__job_start_instance` and `__job_control_instance_simple` of a job that `job_check` lets pass |
| `Started`, `Stopped`, `Ended`, `RebootStopped`, `NoSuchJob` | `__process_node_xml_response` and `job_update_status` for each kind of answer; `RebootStopped` is the release of the entity on LY_S_RUNNING_STOPPED, which only a FULLREBOOT sends |
| `WaitForOsm`, `JobTimeout` | `__job_start_instance` in its waiting states, the timeout of `job_dispatch` |
| `QueryAll`, `InstanceInfo` | `__query_instance_all`, `__instance_info_update`; `job_internal_query_instance` sends nothing without a `node_id` or a registered node |
| `ClcRestart` | lyclc ends; `job_init` with `db_instance_init_status` |
| `Connect`, `Challenged`, `RegisterDone`, `RegisterFailed` | `regclc`, the last with its `finally` |
| `ReadPacket`, `SocketClosed`, `RunScript` | the loop of `lyosm.py`, `lyapp.run` |
| `NodeRun`, `NodeStop`, `NodeFails`, `NodeQuery` | the node, as `NodeHandler` has it, down to what lyclc sees; a FULLREBOOT is `NodeStop` and then `NodeRun` |
| `NodeRegistered`, `NodeCut`, `NodeGone` | the connection of the node comes, is lost with what is in it, and is seen closed (`job_clean_on_entity`) |
| `GuestDies`, `GuestReboots`, `LinkCut`, `AppChange` | what happens outside; an ACPIREBOOT job is a `GuestReboots` that may take the place of a waiting job |

Abstractions: the digests (both sides have the key), traffic counts and addresses. At
most one request to the node and one query answer of each kind are under way. Left to
`ClcJobs`: DESTROY, a FULLREBOOT that queues behind a start that waits, and a node that
connects again before its old connection was seen to be gone. Starts go to the node of the
instance (NODE_SELECT_LAST_ONLY).

### WebQuota and WebNetwork: how state and actions correspond to the code

In `WebQuota` the tables are `inst`, `stor`, `dom`, the column `used` of a pool `poolUsed`, and
`req[p]` is what the handler in process `p` has read and not yet committed. Each handler is
split at its commits and where a later query may see other rows: `StorageAdd` is
`StorageAddPrepare` (count of storages), `StorageAddValidate` (`StorageForm`: pool and quota) and
`StorageAddCommit`; likewise `StorageEdit`, `DomainAdd`, `DomainEdit` and `InstanceCreate`;
`InstanceDelete` is a check, two commits and the job. `Fail` ends a request anywhere, as a kill
or an exception does. `ClcDeleteRow` is `db_instance_delete`, which foreign keys may refuse.
`on_finish(column, session)` says what is left of an assignment made after the last commit:
the column as it was.

In `WebNetwork` the tables are `stat` (instances), `owner` (ippool) and `port` (port_mapping);
`conf` is the list of addresses in the config column, `rules` the PREROUTING chain (a rule is the
row whose gateway port it matches and its destination, and the first that matches wins), `vhost`
the nginx files. `at[p]` is the request that process `p` serves: its next step and what it has
read. The reads between two commits or commands are one step; every commit and every command
is a step of its own; the steps of all processes and of lyclc interleave.

| action | code |
|---|---|
| `InstanceCreate`, `set_ip`, `set_secret` | `InstanceCreate.post` and what it calls |
| `NetworkAdd`, `TakeIp` | checks and first commit of `NetworkAdd.post` (and of `set_ip`) |
| `NetworkDelete`, `DropIp` | checks and first commit of `NetworkDelete.get` |
| `update_network`, `CommitNetwork` | `Instance.update_network` and the commit after it |
| `SetConfig`, `SaveConfig` | `Instance.set` and its commit in the handlers of passwords, keys and domains: the whole text is written back |
| `LifeRun`, `LifeStop`, `binding_domain`, `unbinding_domain` | `LifeControl.run` and `stop`, `tool/domain.py` with its error paths |
| `InstanceDelete`, `DeleteMark`, `DeleteRead`, `DeleteFree` | `InstanceDelete.post`, split at its commits; the iptables rules stay |
| `PortMappingAdd`, `AddPort`, `binding_iptables`, `InsertRule` | `PortMappingAdd.post`, `Prerouting.add`, which quits when the destination has a rule |
| `PortMappingDelete`, `DeleteRule`, `FreePort` | `PortMappingDelete.get`, `Prerouting.delete`, by the index that was read |
| `RequestFails` | a process is killed or a handler raises |
| `ClcStatus`, `ClcDestroyed` | `db_instance_update_status`, `db_instance_delete` |

No commit checks again what was read, so with several processes the copies of an address can
really come apart. Three history variables name where: `half` the instances whose config was
left or put out of date (a request ended before its `update_network`, an address was taken or
freed by another process, an older config was put over a newer one), `bare` the port rows whose
rule was not made or lost, `kept` the instances whose virtual host a delete left. The properties
say that nothing else goes wrong, and an `update_network` takes its instance out of `half`. A
LifeControl request with a list of ids is several requests; that `iptables -S` fails is left
out. `SetConfig` asks for a row only, since `DomainEdit` does not look whether the instance is
marked deleted.

In `WebQuota` the storages of an instance are read again when the form is validated, while the
session of the code keeps what `prepare` read (`views.py:309`). The bounds hold for both: a stale
count is one that another process has made stale, and the bounds allow for each of them.
There is no bound on ports among the properties: `PortMappingAdd` counts the mappings of
addresses that an instance has, so a mapping whose address was given back counts for nobody.

Both leave out cpu and memory limits, root passwords, keys, logos and page texts.

## What TLC checks

| run | properties | instance | states |
|---|---|---|---|
| ClcQueue | TargetDiscipline, NoJobForgotten, StartLimit, OneVm | 3 jobs out of 6 actions on an instance and one node; 3 starts, 2 instances, 2 nodes, 2 slots, limit 1 | 2,016,000 |
| ClcFaults | TypeOK, BusyNoLeak, WalkSafe, KeepsTables | 2 jobs out of 8 actions, one fault, one restart, one takeover | 2,320,000 |
| ClcLive | JobsEnd | 2 jobs, NODE_SELECT_ANY, busy node, OS manager | 156,000 |
| ClcTakeover | StartLimit violated | reconnection over a half-open socket | |
| ClcPinned | PinnedToRan violated | a start that fails on the node | |
| ClcOrphan | NoOrphan violated | DESTROY after RUN | |
| ClcReboot | RebootAlone violated | FULLREBOOT after RUN | |
| NodeThreads | TypeOK, OneAtATime, NoStaleLock, MachineHasDisk, WholeDisk, RunLimit, KeepDisk | 3 requests out of 6 actions, 2 instances, limit 1, one restart | 4,180,000 |
| NodeStatus | StoppedHasRun violated | a QUERY during a first RUN | |
| OsmLink | OTypeOK, OneEntity, DbFollowsOsm, WaitsForThisRun, OffIsNoticed, UpIsNoticed | 2 connections, 2 jobs, one fault, a node that comes and goes | 1,359,000 |
| Web | QTypeOK, StorageOvershoot, StoragePerInstance, DomainOvershoot, InstanceOvershoot, DeleteLeaves; NTypeOK, ConfigMatches, NetworkOvershoot, MappingIsServed, DeletedHasNoVhost | 2 processes, 3 instances, 3 storages or domains; 2 instances, 3 addresses in 2 pools, 2 ports | 2,234,000 |
| WebPool | PoolLimit violated | one process, two storages of 1G, a pool of 1G | |

- **TargetDiscipline**: no job stands in the queue before one that `job_check` would not have
  let pass it. Queries and CONFIG pass everything, and a FULLREBOOT passes everything but
  another one and a DESTROY; the stronger claim of the comment at `lyjob.c:126` is RebootAlone,
  which fails. Three jobs are needed: the third meets a queue from which the second has
  already cancelled something.
- **NoJobForgotten**: a job that is not over is on its way to lyclc or in the queue,
  with the same status in memory and in its row.
- **StartLimit**: counts the requests at nodes of starts that lyclc still waits for, not the
  counter. A start that timed out or was cancelled gave back its place though the node may go
  on with it; the limit of the node itself is RunLimit.
- **OneVm**: with LAST_ONLY an instance has one machine, although timeouts and
  cancellations make lyclc forget starts that go on. Two nodes with a slot each and
  a third start are enough for a start to move.
- **BusyNoLeak**: the counter of a node is at most the number of queued jobs that
  will still take it down.
- **WalkSafe**: the job fetched ahead is not freed.
- **KeepsTables**: refinement. Whatever fails, restarts or reconnects, a reader of the tables
  sees a job created once, open, then over with one status for good, and an instance row go
  only in the step in which a DESTROY of it succeeds.
- **JobsEnd**: every start, reboot and query ends.
- **OneAtATime**, **NoStaleLock**: the lock files exclude, and none is left without its
  thread, through all error paths, timeouts of the wait and a restart.
- **MachineHasDisk**: a running machine has its disk, although a FULLREBOOT gives up the
  lock half way and machines come and go by themselves.
- **WholeDisk**: a machine is not started from half a disk. After a restart it may be
  (hazard at `handler.c:1284`), so the property is about runs without one.
- **KeepDisk**: an action property; a disk that was used goes only by a DESTROY or a start
  that lyclc sent as new. lyclc may do so wrongly when the response of the first start was
  lost (hazard at `handler.c:1262`).
- **RunLimit**: although the counter is late and read without its mutex.
- **OneEntity**: at most one entity is mapped to an instance, though a guest reconnects
  while its old connection is half-open.
- **DbFollowsOsm**: while the OS manager is registered the column says what it said last. The
  exception is a 411 answer that is handled after the registration: it writes START, and no
  report is news to the entity then (hazard at `lyjob.c:239`).
- **WaitsForThisRun**: the entity a RUN or FULLREBOOT waits for is of the guest it started, never
  of the guest that the FULLREBOOT has just ended. The exceptions are connections that no job
  released: of a guest that died or rebooted by itself, of a stop whose answer found no job or
  no connection, and those still to be authenticated.
- **OffIsNoticed**, **UpIsNoticed**: liveness. A guest that stays off is not shown as running for
  ever, though it said no goodbye and one connection or lyclc itself may be lost, if its node
  stays connected: with the node away `job_internal_query_instance` asks nobody and the column
  may stay. A service that stays up is shown as serving, after any failed registration. A job
  that waits or a status that needs a query does not stand in the way.
- **StorageOvershoot**, **StoragePerInstance**, **DomainOvershoot**, **InstanceOvershoot**: exact bounds
  on what interleaved requests may add beyond a limit. With one process each is the limit
  itself; every further process adds what one request may.
- **DeleteLeaves**: after the DESTROY job exists an instance holds at most what requests begun
  earlier add. (They can: the row then stays, since `db_instance_delete` fails.)
- **ConfigMatches**: the config of an instance names its addresses, or a request is about to call
  or commit `update_network`; it is behind for longer only where an accident is recorded in
  `half`, and until the next `update_network`.
- **NetworkOvershoot**: an instance has at most one address beyond `max_network` for each further
  process, although `update_network` and other requests interleave with the check.
- **MappingIsServed**: of the rules of its gateway port the first leads to the destination of the
  row, though deletes of instances leave their rules and rows and addresses are reused. The
  rows in `bare` are exempt.
- **DeletedHasNoVhost**: a deleted instance has no virtual host file, except where it could not be
  removed or was bound again during the delete (`kept`).
- **NTypeOK** includes that an address belongs to a row that exists, while lyclc deletes rows.

The bounds: two jobs suffice for the properties about one job and the one it meets;
the slots exceed the connections of a node by one where a takeover or reuse matters;
one fault at every possible place; one restart at every possible place. On the node
three threads are two in conflict and one between them, two instances share the appliance,
and a limit of one start lets two starts and a FULLREBOOT meet. Every run
sets CHECK_DEADLOCK FALSE because the system comes to rest once the bounded jobs are
over. Job ids are never compared, so the safety runs reduce by their symmetry; the property
of ClcFaults that is about steps, KeepsTables, treats all jobs alike and is no liveness
property. Likewise processes, instances and virtual machines in Web.

In OsmLink two connections are the newest and one that is half-open, two jobs are a start, stop
or reboot after any other, and the one fault comes at every place. In
Web two processes and limits of one let each limit be passed; of the three storages or
domains one is beyond the bound that is checked. A behaviour of Web is about one `part` of
`MCWeb`: the storages or the domains, which share no variable but the instances; and of the
network the addresses, the life of an instance, the ports of instances that keep their addresses,
or the ports of an address that changes hands. Three instance ids and three addresses let a
pool run out and an address be reused. The theorems are about all requests together.

**Fairness** (`FairSpec`): weak fairness of the dispatch, because the main loop of
`lyclc.c` calls `job_dispatch` every CLC_JOB_DISPATCH_INTERVAL and a walk is a finite
loop; strong fairness of `WebJob`, because a readable socket stays readable while
dispatches come and go and epoll reports it; weak fairness of `Elapse`: time passes.
Nothing is assumed of nodes, networks or OS managers: they may be silent for ever.
SAVE is left out of the liveness run: `__job_run` does nothing with it and it never ends.

`Fairness` of OsmLink: weak fairness of what lyclc does with a readable socket (`ClcRecv`; keepalive
makes a dead one readable), of its query timer and the handling of the answer (`QueryAll`,
`InstanceInfo`), of the node's answer to a query it has received (`NodeQuery`), and of the
loop of the OS manager (`Osm`), which has no exit but a signal and waits at most a second for a
packet. Nothing makes a job be carried out, a node connect, or a job, a fault, a change of the
service or a restart happen.

### Findings

1. `ClcTakeover`: `ly_entity_update` releases the old entity of a node that reconnects,
   together with its counter, while its jobs go on. The limit is exceeded.
2. `ClcPinned`: the node of an instance is recorded before the request is sent, and a
   failed start leaves it. The configuration file speaks of the node the instance "was
   successfully run" on.
3. `ClcOrphan`: a DESTROY cancels a RUN in the queue only. The row was marked deleted before
   the RUN was dispatched, so no node is recorded for it; lyclc then finds no node to ask, ends
   the DESTROY by itself and deletes the row. The node, which has the request of the RUN, starts
   the machine afterwards.
4. `NodeStatus`: a QUERY reports an instance stopped that never ran ("domain has run at
   least once, but now stopped" says `luoyun.h`), because it takes a directory for a run.
   The row has then left NEW, and the next start takes the files as they are.
5. `ClcReboot`: "no any control action actvie before running instance" says `job_check` of a
   FULLREBOOT, and refuses only another FULLREBOOT. It is sent to the node while a RUN before it
   waits for its OS manager.
6. `WebPool`: `update_used` is called after the last commit of each storage handler, and
   `on_finish` removes the session. `used` stays 0, `remain` stays `total`, and a pool is given
   away more than once, by a single process.

## What is proved

`ClcJobsProofs.tla` proves, for all jobs, instances, nodes, slots, limits and bounds
that satisfy `ConstantsOK`:

- `TypeCorrect`: `Spec => []TypeOK`
- `BusyNeverLeaks`: `Spec => []BusyNoLeak`
- `WalkIsSafe`: `Spec => []WalkSafe`

all from `Invariance`: `Spec => []Inv`. None of them is inductive alone:

- BusyNoLeak needs to know that only node entities count (`NodeSlots`), that a job that
  waits for its turn holds no count (`FreshIdle`) and, for the restart, that only starts
  are PENDING (`PendingStarts`);
- that a job whose row is over is not queued (`OverIsOut`) and that a notification under way is
  for a job that is not over (`NoteOK`) are part of it for the refinement below;
- WalkSafe needs an argument about the queue. Running a DISABLE ends the jobs on the
  node's entity, and the next job of the walk must not be one of them. `BehindOK` says
  that a job behind a DISABLE that has not run has no entity: the walk goes from front to
  back, and no job that stands behind gets its entity before the DISABLE is reached.
  `WalkOK` says that the DISABLEs not yet run are at the walk or behind it, and
  `OrderOK` that places are distinct and at most `tail`.

The proof has three layers. Lemmas on the operators of the model say what they return.
For each operator that a handler uses a lemma says that it keeps `StateOK` and that it is
`Tame`: it may end jobs, never queue one, writes rows of queued jobs only, and moves no
job to an entity but the one it serves. A lemma per action then establishes
`Inv'` and that final rows are kept. The cardinalities of `BusyHeld` are reasoned about
with the theorems on finite sets.

`ClcTablesProofs.tla` goes on from there, with what a step does to queue and rows. A step is
calm (it takes jobs off the queue and ends them), or it is the web application, a
notification or a restart, and each proof goes through these four:

- `NoneForgotten`: `Spec => []NoJobForgotten`. As long as no fault was spent and lyclc was not
  restarted, a handler that takes a job off the queue has written its final status, and a
  job enters through a notification only. The counter of faults carries the argument: every
  failed statement raises it (`FailsCounted`), so a step that leaves it alone wrote all its rows.
- `QueueIsDisciplined`: `Spec => []TargetDiscipline`. `job_check` ends what may not stand
  before the new job or refuses the new one, and every other step only removes jobs from their
  places.
- `TablesAreKept`: `Spec => KeepsTables`. The rows a step ends and the instances it removes are
  given as witnesses for every kind of step; an instance goes only where its DESTROY is ended
  as FINISHED. Final rows come from `OverIsOut` and `NoteOK` of `Inv`.

`ClcStartProofs.tla` proves what the scheduler promises. Both promises are about requests at
nodes, of which lyclc sees nothing, so the invariant ties each request to what lyclc holds for
it (`RequestsAreHeld`):

- `Alone`: a node has one entity;
- `Full`: the counter of an entity is at least the number of queued jobs that hold it, and at
  most the limit. It is the other direction of BusyNoLeak;
- `Placed`: a request of a queued start job belongs to a RUNNING job that holds the entity of
  that very node. A job whose row still says NONE, INITIATED or PENDING has no request; this is
  what a restart needs, which loads the PENDING rows, and a notification, which queues an
  INITIATED one.

The theorems:

- `StartsAreLimited`: `Spec => [](faults = 0 /\ takeovers = 0 => StartLimit)`. The starts a node
  works on and lyclc waits for all hold its one entity, so they are no more than its counter says.
- `MachinesAreSingle`: `Spec => [](faults = 0 /\ takeovers = 0 => OneVm)` when `NodeSelect` is
  LAST_ONLY. `Tied` and `Home` say that the requests and the machine of an instance that is not
  deleted are at the node of its row. The first start meets neither; every later one goes to that
  node; and the answer of a node, which writes the row again, writes the same node because of
  `Placed`.

Restarts of lyclc are allowed in both, and so are timeouts, cancellations and lost connections.
The two hypotheses are needed. TLC finds StartLimit violated with one takeover (the run
ClcTakeover) or one failed statement, and OneVm violated with one takeover or one failed
statement as soon as three connections are allowed: a job then stays in the queue with the
number of an entity that was released, another node gets that entity, and the late answer writes
the wrong node into the row.

`NodeHandlerProofs.tla` proves every property of the run NodeThreads, for all requests,
instances, limits and restarts: `NodeTypeCorrect`, `LocksExclude`, `LocksNeverStale`,
`MachinesHaveDisks`, `DisksAreWhole`, `DisksAreKept` and `RunsAreLimited`, from
`NodeInvariance`. Its invariant ties places of threads to files:

- `Locking`: a thread under a lock has the lock file, and no other thread is under it;
- `Machines`: while a start prepares files its machine is off. Only the thread under the
  lock can start it, so the test of the domain at the beginning is good until the end;
- `Fresh`: `ins_create_new` is set only in the start that made the disk, and no machine has
  run on it yet. The clean-up of a failed start therefore never meets user data;
- `Whole`: without a restart, the appliance is whole as soon as any directory exists, so a
  start that skips the appliance (row not NEW) still extracts from a whole file;
- `Counting`: the counter plus the one outstanding count is the number of live threads.
  The main thread counts before it takes the next request, so `ly_handler_busy` sees all.

`WebQuotaProofs.tla` proves `QuotaTypeCorrect`, `StoragePerInstanceHolds`, `DomainOvershootHolds`,
`InstanceOvershootHolds`, `DeleteLeavesHolds` and `StorageOvershootHolds` from `QuotaInvariance`, for any number of
processes and rows. A bound on rows alone is not inductive: a commit adds a row without looking.
The invariant counts rows together with the requests that have passed the check and not
committed: rows plus pending requests never exceed the limit plus the other processes, since
the last request to pass its check found fewer rows than the limit. For `DeleteLeaves` it
says that rows on a destroyed instance plus requests pending on it are at most the processes
other than the one that deleted it. The cardinalities are those of finite sets, with the library's
theorems. For `StorageOvershoot` a sum of sizes is the cardinality of a set of units, one pair of
storage and gigabyte for each gigabyte, so that no induction is needed. `RoomInv` counts the
gigabytes stored together with those of requests past `StorageForm`: at most one limit per process.
The check subtracts what is stored and not what others have in flight, and a process that passes
it had nothing in flight itself.

`WebNetworkProofs.tla` proves `NetworkTypeCorrect`, `ConfigAlwaysMatches`, `NetworkOvershootHolds`,
`MappingsAreServed` and `DeletedNeverServed` from `NetworkInvariance`, for any number of processes,
instances, addresses and ports. The parts of the invariant:

- `Place`: what a request at each step has read (one address to take, a row that is there);
- `Marked` and `NoRow`: while a delete frees the addresses its instance is marked, and an id that
  is not used yet has an empty config;
- `ConfFollows`: for an instance not in `half`, a config that differs from the table has a request
  that will put it right (`Fresh`): one before its `update_network`, or one whose read is still what
  the table says. ConfigMatches alone does not say the latter and is not inductive;
- `Hosts`: an instance with a virtual host that is not in `kept` is not deleted, and no process that
  deletes it is past its unbinding, so the mark that follows finds no file;
- `Ports`: for a row not in `bare`, at most one request is between the row and its rule (`Sole`),
  what it is about to insert is what the row says (`Right`), and otherwise the row is served.
  A leftover rule for the same gateway port stands behind it, because `-I` inserts at the front;
- `Counted`: addresses of an instance plus the requests about to take one are at most
  `max_network` and one for each other process.

`OsmLinkProofs.tla` proves `EntityIsUnique` and `ColumnFollowsOsm` from `LinkInvariance`, for any
number of connections, jobs and faults. Its invariant says what may stand in the queues of a
connection that is not mapped yet (`Early`): nothing has been answered on it, so the OS manager
cannot have sent its reply or its registration. A report or a registration therefore always comes
from the one mapped entity, and never maps a second one next to it. Two more theorems follow:

- `JobsWaitForThisRun`: `Spec => []WaitsForThisRun`. `RunInv` says that an entity that is not
  released belongs to the present run of the guest, is counted as a ghost, or belongs to a run
  whose end is still under way: the node has stopped the guest and its answer, which will release
  the entity or make it a ghost, stands in the connection before any 411.
- `OsmTypes`: `Spec => []OTypeOK`. The bounds on packets under way need the protocol:
  `Counting` says that a connection carries at most one request that is not answered, that no
  request stands behind an answer, and that during authentication nothing else is on its way.

Only model-checked: JobsEnd, OffIsNoticed and UpIsNoticed. They are liveness under fairness, which
is beyond the prover. Every invariant and action property of the passing runs has its theorem.

## Plan

Done: `ClcJobs` and `NodeHandler` with their invariants, liveness and proofs, every invariant proved;
`JobTable` and the refinement; `OsmLink`; `WebQuota` and `WebNetwork`.

Left, most important first:

1. `EntityStore`: listening, web, node and OSM entities, `ly_entity_init` on released slots,
   packets that follow in a buffer.
2. `NodeLink`: the registration handshake between `ev_node.c` and `compute/events.c` with
   authentication, tags, lost connections and rejoin; that both sides agree.
3. `Packet`: reassembly of packets in `lypacket.c`, against the sequence that was sent.

## Not modelled

- libvirt, XML and configuration parsing, multicast: I/O without protocol state.
- The older C and the Windows OS managers: the same protocol as the Python one.
- Users, forum, messages, site and administration pages of the web application: each request
  reads or writes single rows, and no other part depends on the order.
- The vendored libraries under `lyweb/lib` (SQLAlchemy, tornado, wtforms and others), which
  make up most of the Python in the repository. The models use what the handlers rely on: a
  session that is rolled back when it is removed, unique columns and foreign keys.
- Code the program never reaches: the query of an OS manager (`procOSMQuery`), which no page
  creates a job for; SAVE, which `__job_run` only logs.
- A storage made smaller when two processes edit it (`views.py:412` compares with the size it
  read); cpu and memory of nodes beyond the bit `room`, and with them a report that overwrites
  what lyclc holds for a start (`ev_node.c:688`).
