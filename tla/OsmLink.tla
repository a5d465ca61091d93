------------------------------ MODULE OsmLink ------------------------------
(* One instance: the OS manager in its guest (src/osmanager/bin/pyosm),    *)
(* the entities that clc keeps for its connections (ev_osm.c, entity.c,    *)
(* events.c), the job that starts, stops or reboots it (lyjob.c), the      *)
(* connection of its node with what is in it, the queries that clc sends   *)
(* by itself (lyjob2.c) and the status column of the instance, which all   *)
(* of them write.                                                          *)
(*                                                                         *)
(* A connection is a pair of queues and its two ends: cl[c] is the socket  *)
(* of the guest, sv[c] the status flag of the entity in clc.  A guest that *)
(* is switched off, or a cut cable, leaves the end of clc open until recv  *)
(* returns 0 or keepalive notices.  Instances do not interact here, so one *)
(* is enough.                                                              *)
(*                                                                         *)
(* Left out: the contents of challenges (both sides have the key), the     *)
(* search for clc by multicast, traffic counts and addresses, the job that *)
(* queries an OSM (the web never creates it), DESTROY, a FULLREBOOT that   *)
(* queues behind a start that waits, and a node that connects again before *)
(* its old connection was seen to be gone (all three in ClcJobs).  An      *)
(* answer of the node that the disk does not exist stands under STOP.      *)
(* Starts go to the node of the instance (NODE_SELECT_LAST_ONLY).  At most *)
(* one request to the node and one query answer of each kind are under way.*)
EXTENDS Integers, Sequences, FiniteSets

CONSTANTS
  Conns,       \* connections
  NoConn,      \* the OSM has no socket
  MaxUp,       \* packets of the OSM waiting in clc's socket
  MaxJobs,     \* jobs created for the instance
  MaxFaults    \* timeouts, cut connections, failed requests, deaths of the guest

ASSUME BoundsAssumption ==
  NoConn \notin Conns /\ MaxUp \in Nat /\ MaxJobs \in Nat /\ MaxFaults \in Nat

(* The status flags of an entity, in their order.                          *)
Released == -1
Fresh == 0
Online == 1
Authenticated == 2
Registered == 3
Running == 4
Serving == 5

VARIABLES
  vm,     \* is the guest running?
  app,    \* does the status script of the guest report a running service?
  osm,    \* the OS manager: where it is, its socket, Config.status, notify
          \* and APP_Status
  cl, sv, \* the ends of each connection
  up,     \* packets from the OSM
  down,   \* packets to the OSM
  job,    \* the job of the instance: its action, or for a start or reboot that
          \* waits for the OSM the state it waits in
  placed, \* does the row of the instance have a node_id?
  nlink,  \* connection of the node: "up", "cut" (clc has not noticed) or "none"
  node,   \* the request that the node works on
  ans,    \* the node's answers to it under way
  query,  \* queries of clc under way: "asked", or the answer
  db,     \* status column of the instance
  cur,    \* connections of this run of the guest (history)
  late,   \* entities that were registered when 411 overwrote the status (history)
  ghosts, \* connections of a run of the guest that ended without clc knowing,
          \* or before they were mapped to the instance (history)
  jobs, faults

vars == <<vm, app, osm, cl, sv, up, down, job, placed, nlink, node, ans, query, db,
          cur, late, ghosts, jobs, faults>>
link == <<cl, sv, up, down>>
guest == <<vm, app, osm>>
wire == <<nlink, node, ans>>
history == <<cur, late, ghosts>>
bounds == <<jobs, faults>>

AppStates == {"running", "unknown"}
OsmOff == [at |-> "off", conn |-> NoConn, registered |-> FALSE, notify |-> FALSE,
           told |-> "nothing"]
Live == {"START", "RUNNING", "SERVING"}
Requests == {"start", "reboot", "stop"}
Waiting == {"411", "412", "421"}
NodeAnswers == {"411", "RUNNING_STOPPED", "stopped", "ended"}

(* Every variable has the shape its comment gives, the OSM has a socket    *)
(* exactly while it registers or is up, and no packet is left over.        *)
OTypeOK ==
  /\ vm \in BOOLEAN /\ app \in AppStates
  /\ osm \in [at : {"off", "idle", "auth", "reg", "up"}, conn : Conns \cup {NoConn},
              registered : BOOLEAN, notify : BOOLEAN,
              told : AppStates \cup {"nothing"}]
  /\ osm.at \in {"auth", "reg", "up"} <=> osm.conn # NoConn
  /\ cl \in [Conns -> {"open", "gone"}]
  /\ sv \in [Conns -> Released .. Serving]
  /\ \A c \in Conns : Len(up[c]) <= MaxUp + 2 /\ Len(down[c]) <= 2
  /\ job \in {"none"} \cup Requests \cup Waiting
  /\ placed \in BOOLEAN /\ nlink \in {"up", "cut", "none"}
  /\ node \in {"none", "rebooting"} \cup Requests
  /\ ans \in Seq(NodeAnswers) /\ Len(ans) <= 2
  /\ query \subseteq {"asked", "START", "STOP"}
  /\ db \in Live \cup {"STOP", "QUERY"}
  /\ cur \subseteq Conns /\ late \subseteq Conns /\ ghosts \subseteq Conns
  /\ jobs \in 0 .. MaxJobs /\ faults \in 0 .. MaxFaults

(* job_init has run: no connection, no job, and db_instance_init_status    *)
(* has left no status that says the guest runs.  It may run all the same,  *)
(* its OSM registered before.                                              *)
Init ==
  /\ vm \in BOOLEAN /\ app = "unknown"
  /\ osm = IF vm THEN [OsmOff EXCEPT !.at = "idle", !.registered = TRUE] ELSE OsmOff
  /\ cl = [c \in Conns |-> "gone"] /\ sv = [c \in Conns |-> Released]
  /\ up = [c \in Conns |-> <<>>] /\ down = [c \in Conns |-> <<>>]
  /\ job = "none" /\ placed \in BOOLEAN /\ (vm => placed)
  /\ nlink = "none" /\ node = "none" /\ ans = <<>> /\ query = {}
  /\ db = IF vm THEN "QUERY" ELSE "STOP"
  /\ cur = {} /\ late = {} /\ ghosts = {}
  /\ jobs = 0 /\ faults = 0

Fault == faults < MaxFaults /\ faults' = faults + 1

-----------------------------------------------------------------------------
(* The entities of clc.                                                    *)

Unreleased == {c \in Conns : sv[c] # Released}
Mapped == {c \in Conns : sv[c] >= Online}      \* those that have the db id
is_registered == \E c \in Mapped : sv[c] >= Registered

Drop(S) == [c \in Conns |-> IF c \in S THEN <<>> ELSE up[c]]
Forget(S) == late' = late \ S /\ cur' = cur \ S /\ ghosts' = ghosts \ S

ly_entity_release(S) ==
  /\ sv' = [c \in Conns |-> IF c \in S THEN Released ELSE sv[c]]
  /\ up' = Drop(S)

(* Variant with a fault: the older entity stays.                           *)
ly_entity_updateKeepsOld(c, flag) == sv' = [sv EXCEPT ![c] = flag]

(* ly_entity_update with a db id releases the entity that had it.          *)
ly_entity_update(c, flag) ==
  sv' = [d \in Conns |-> IF d = c THEN flag
                         ELSE IF d \in Mapped THEN Released ELSE sv[d]]

Pop(c) == up' = [up EXCEPT ![c] = Tail(@)]
Send(c, m) == down' = [down EXCEPT ![c] = IF cl[c] = "open" THEN Append(@, m) ELSE @]
Has(c, t) == sv[c] # Released /\ up[c] # <<>> /\ Head(up[c])[1] = t

(* A handler whose answer cannot be sent leaves the rest undone.           *)
SendFails(c) ==
  /\ cl[c] # "open"
  /\ Pop(c)
  /\ UNCHANGED <<cl, sv, down, db, history>>

(* eh_process_osm_auth, a request: answer, challenge, and the entity is    *)
(* online; the entity that was mapped to the instance goes.                *)
OsmAuthRequest(c) ==
  /\ Has(c, "auth request")
  /\ \/ SendFails(c)
     \/ /\ Send(c, "auth")
        /\ ly_entity_update(c, Online)
        /\ up' = [Drop(Mapped \ {c}) EXCEPT ![c] = Tail(up[c])]
        /\ Forget(Mapped \ {c})
        /\ UNCHANGED <<cl, db>>
  /\ UNCHANGED <<guest, job, placed, wire, query, bounds>>

OsmAuthReply(c) ==
  /\ Has(c, "auth reply")
  /\ Pop(c)
  /\ sv' = [sv EXCEPT ![c] = IF @ >= Authenticated THEN @ ELSE Authenticated]
  /\ UNCHANGED <<guest, cl, down, job, placed, wire, query, db, history, bounds>>

(* eh_process_osm_register: a request follows the reply in the same        *)
(* stream, so the entity is authenticated when it comes.                   *)
OsmRegister(c) ==
  /\ Has(c, "register")
  /\ \/ SendFails(c)
     \/ /\ Send(c, "registered")
        /\ Pop(c)
        /\ db' = "RUNNING"
        /\ ly_entity_update(c, Registered)
        /\ late' = late \ {c}
        /\ UNCHANGED <<cl, cur, ghosts>>
  /\ UNCHANGED <<guest, job, placed, wire, query, bounds>>

(* eh_process_osm_report writes the status only when the flag of the       *)
(* entity says that it is news; an entity that is not online has no db id  *)
(* and its report changes nothing that anyone reads.                       *)
ReportIsNews(c, s) ==
  IF s = "running" THEN sv[c] \in Online .. Running
                   ELSE sv[c] \in (Online .. Registered) \cup {Serving}

OsmReported(c) ==
  LET s == Head(up[c])[2] IN
  /\ Has(c, "report")
  /\ Pop(c)
  /\ IF ReportIsNews(c, s)
     THEN /\ db' = IF s = "running" THEN "SERVING" ELSE "RUNNING"
          /\ sv' = [sv EXCEPT ![c] = IF s = "running" THEN Serving ELSE Running]
          /\ late' = late \ {c}
     ELSE UNCHANGED <<db, sv, late>>
  /\ UNCHANGED <<guest, cl, down, job, placed, wire, query, cur, ghosts, bounds>>

(* job_internal_query_instance sends nothing when the instance has no      *)
(* node_id or its node no registered entity, and what it sends over a cut  *)
(* connection is lost.                                                     *)
job_internal_query_instance ==
  query' = IF placed /\ nlink = "up" THEN query \cup {"asked"} ELSE query

(* recv returns 0, or keepalive has given up: the status needs a query.    *)
OsmGone(c) ==
  /\ sv[c] # Released /\ up[c] = <<>> /\ cl[c] # "open"
  /\ IF c \in Mapped THEN db' = "QUERY" /\ job_internal_query_instance
                     ELSE UNCHANGED <<db, query>>
  /\ ly_entity_release({c}) /\ Forget({c})
  /\ UNCHANGED <<guest, cl, down, job, placed, wire, bounds>>

ClcRecv(c) ==
  OsmAuthRequest(c) \/ OsmAuthReply(c) \/ OsmRegister(c) \/ OsmReported(c) \/ OsmGone(c)

-----------------------------------------------------------------------------
(* The jobs in clc.                                                        *)

(* __job_start_instance (RUN, FULLREBOOT) and                              *)
(* __job_control_instance_simple (STOP) of a job that job_check lets pass: *)
(* a RUN or FULLREBOOT when there is no job, a STOP also in place of one   *)
(* that waits.  The node_id is written before the request is sent; a       *)
(* request over a cut connection is lost.                                  *)
NewJob(a) ==
  LET start == a \in {"start", "reboot"}
      online == nlink # "none" /\ (placed \/ start)
  IN
  /\ job = "none" \/ (job \in Waiting /\ ~start)
  /\ node = "none" /\ ans = <<>>
  /\ jobs < MaxJobs /\ jobs' = jobs + 1
  /\ job' = IF online THEN a ELSE "none"
  /\ placed' = (placed \/ (start /\ online))
  /\ node' = IF nlink = "up" /\ online THEN a ELSE "none"
  /\ IF a = "stop" /\ ~placed        \* no node to ask: the STOP is done
     THEN ly_entity_release(Mapped) /\ Forget(Mapped) /\ db' = "STOP"
     ELSE UNCHANGED <<sv, up, db, history>>
  /\ UNCHANGED <<guest, cl, down, nlink, ans, query, faults>>

NextAnswer(m) == ans # <<>> /\ Head(ans) = m /\ ans' = Tail(ans)

(* job_update_status(LY_S_WAITING_STARTING_OSM), the node's answer to a    *)
(* start: the status is START whatever the OSM has said meanwhile.         *)
Started ==
  /\ NextAnswer("411") /\ job \in {"start", "reboot"}
  /\ job' = "411"
  /\ db' = "START"
  /\ late' = late \cup {c \in Mapped : sv[c] >= Registered}
  /\ UNCHANGED <<guest, link, placed, nlink, node, query, cur, ghosts, bounds>>

(* The node found the guest running, or failed: the job ends.              *)
Ended ==
  /\ NextAnswer("ended") /\ job # "none"
  /\ job' = "none"
  /\ UNCHANGED <<guest, link, placed, nlink, node, query, db, history, bounds>>

(* Variant with a fault: the entity outlives the guest.                    *)
RebootStoppedKeepsEntity ==
  /\ NextAnswer("RUNNING_STOPPED") /\ job = "reboot"
  /\ UNCHANGED <<guest, link, job, placed, nlink, node, query, db, history, bounds>>

(* LY_S_RUNNING_STOPPED, half way through a FULLREBOOT: "release entity    *)
(* during instance shutting down".                                         *)
RebootStopped ==
  /\ NextAnswer("RUNNING_STOPPED") /\ job = "reboot"
  /\ ly_entity_release(Mapped) /\ Forget(Mapped)
  /\ UNCHANGED <<guest, cl, down, job, placed, nlink, node, query, db, bounds>>

Stopped ==
  /\ NextAnswer("stopped") /\ job = "stop"
  /\ ly_entity_release(Mapped) /\ Forget(Mapped)
  /\ db' = "STOP" /\ job' = "none"
  /\ UNCHANGED <<guest, cl, down, placed, nlink, node, query, bounds>>

StopAnswers == {"stopped", "RUNNING_STOPPED"}
StopUnderWay == \E k \in DOMAIN ans : ans[k] \in StopAnswers

(* An answer for a job that is no longer there.                            *)
NoSuchJob ==
  /\ \E m \in NodeAnswers : NextAnswer(m) /\ ghosts' = IF m \in StopAnswers
                          THEN ghosts \cup (Unreleased \ cur) ELSE ghosts
  /\ job = "none"
  /\ UNCHANGED <<guest, link, job, placed, nlink, node, query, db, cur, late, bounds>>

(* __job_start_instance in the waiting states, from the dispatch loop.     *)
WaitForOsm ==
  /\ \/ job = "411" /\ Mapped # {} /\ job' = "412"
     \/ job = "412" /\ is_registered /\ job' = "421"
     \/ job = "421" /\ (\E c \in Mapped : sv[c] >= Running) /\ job' = "none"
     \/ job \in {"412", "421"} /\ Mapped = {} /\ job' = "none"
  /\ UNCHANGED <<guest, link, placed, wire, query, db, history, bounds>>

(* job_dispatch ends a job that takes too long.                            *)
JobTimeout ==
  /\ job # "none"
  /\ Fault
  /\ job' = "none"
  /\ ly_entity_release(Mapped) /\ Forget(Mapped)
  /\ db' = "QUERY" /\ job_internal_query_instance
  /\ UNCHANGED <<guest, cl, down, placed, wire, jobs>>

(* Variant with a fault: an instance whose OSM never came is not asked for.*)
QueryAllConnected ==
  /\ db \in {"RUNNING", "SERVING"} /\ query = {}
  /\ job_internal_query_instance
  /\ UNCHANGED <<guest, link, job, placed, wire, db, history, bounds>>

(* __query_instance_all, every CLC_JOB_QUERY_INSTANCE_INTERVAL seconds,    *)
(* long enough for the last answer to have come.                           *)
QueryAll ==
  /\ db \in Live /\ query = {}
  /\ job_internal_query_instance
  /\ UNCHANGED <<guest, link, job, placed, wire, db, history, bounds>>

(* Variant with a fault: the answer of the node is written in any case.    *)
InstanceInfoAlways ==
  /\ \E s \in query \ {"asked"} : query' = query \ {s} /\ db' = s
  /\ UNCHANGED <<guest, link, job, placed, wire, history, bounds>>

(* __instance_info_update: an OSM that has registered knows better.        *)
InstanceInfo ==
  /\ \E s \in query \ {"asked"} :
       /\ query' = query \ {s}
       /\ db' = IF is_registered THEN db ELSE s
  /\ UNCHANGED <<guest, link, job, placed, wire, history, bounds>>

-----------------------------------------------------------------------------
(* The node.                                                               *)

Answer(m) == ans' = IF nlink = "up" THEN Append(ans, m) ELSE ans

(* The guest goes, and its sockets with it.                                *)
SwitchOff ==
  /\ osm' = OsmOff /\ vm' = FALSE /\ app' = "unknown" /\ cur' = {}
  /\ cl' = [c \in Conns |-> "gone"] /\ down' = [c \in Conns |-> <<>>]

(* __domain_run, also the second half of __domain_fullreboot.              *)
NodeRun ==
  /\ node \in {"start", "rebooting"} /\ node' = "none"
  /\ IF vm THEN Answer("ended") /\ UNCHANGED <<vm, osm>>
     ELSE Answer("411") /\ osm' = [OsmOff EXCEPT !.at = "idle"] /\ vm' = TRUE
  /\ UNCHANGED <<app, link, job, placed, nlink, query, db, history, bounds>>

(* __domain_stop, which a FULLREBOOT calls first and reports as            *)
(* LY_S_RUNNING_STOPPED.  A guest that is not running is stopped at once.  *)
NodeStop ==
  /\ node \in {"stop", "reboot"}
  /\ node' = IF node = "reboot" THEN "rebooting" ELSE "none"
  /\ Answer(IF node = "reboot" THEN "RUNNING_STOPPED" ELSE "stopped")
  /\ SwitchOff
  /\ ghosts' = ghosts \cup {c \in Unreleased : sv[c] = Fresh \/ nlink # "up"}
  /\ UNCHANGED <<sv, up, job, placed, nlink, query, db, late, bounds>>

NodeFails ==
  /\ node # "none" /\ node' = "none"
  /\ Fault
  /\ Answer("ended")
  /\ UNCHANGED <<guest, link, job, placed, nlink, query, db, history, jobs>>

NodeQuery ==
  /\ "asked" \in query
  /\ query' = (query \ {"asked"}) \cup {IF vm THEN "START" ELSE "STOP"}
  /\ UNCHANGED <<guest, link, job, placed, wire, db, history, bounds>>

(* The node loses its connection to clc, and what was in it: answers,      *)
(* queries and a request that the node has not read.                       *)
NodeCut ==
  /\ nlink = "up" /\ nlink' = "cut"
  /\ Fault
  /\ query' = {} /\ ans' = <<>>
  /\ node' \in {node} \cup (IF node = "rebooting" THEN {} ELSE {"none"})
  /\ ghosts' = IF StopUnderWay THEN ghosts \cup (Unreleased \ cur) ELSE ghosts
  /\ UNCHANGED <<guest, link, job, placed, db, cur, late, jobs>>

(* recv returns 0 or keepalive gives up: job_clean_on_entity.              *)
NodeGone ==
  /\ nlink = "cut" /\ nlink' = "none"
  /\ job' = "none"
  /\ UNCHANGED <<guest, link, placed, node, ans, query, db, history, bounds>>

(* The node connects, authenticates and registers.                         *)
NodeRegistered ==
  /\ nlink = "none" /\ nlink' = "up"
  /\ UNCHANGED <<guest, link, job, placed, node, ans, query, db, history, bounds>>

GuestDies ==
  /\ vm
  /\ Fault
  /\ SwitchOff
  /\ ghosts' = ghosts \cup Unreleased
  /\ UNCHANGED <<sv, up, job, placed, wire, query, db, late, jobs>>

(* The guest boots again by itself, or because the ACPIREBOOT job asked    *)
(* for it: that job takes the place of one that waits, and neither its     *)
(* request nor its answer does anything else here.                         *)
GuestReboots ==
  /\ vm
  /\ Fault
  /\ osm' = [OsmOff EXCEPT !.at = "idle"] /\ app' = "unknown" /\ cur' = {}
  /\ cl' = [c \in Conns |-> "gone"] /\ down' = [c \in Conns |-> <<>>]
  /\ ghosts' = ghosts \cup Unreleased
  /\ job' \in {job} \cup (IF job \in Waiting THEN {"none"} ELSE {})
  /\ UNCHANGED <<vm, sv, up, placed, wire, query, db, late, jobs>>

LinkCut ==
  /\ \E c \in Conns : /\ cl[c] = "open"
                      /\ cl' = [cl EXCEPT ![c] = "gone"]
                      /\ up' = [up EXCEPT ![c] = <<>>]
                      /\ down' = [down EXCEPT ![c] = <<>>]
  /\ Fault
  /\ UNCHANGED <<guest, sv, job, placed, wire, query, db, history, jobs>>

(* lyclc stops and starts: sockets, queue and answers are gone, and        *)
(* job_init writes off what the status column said.                        *)
ClcRestart ==
  /\ Fault
  /\ ly_entity_release(Conns) /\ Forget(Conns)
  /\ job' = "none" /\ query' = {} /\ ans' = <<>> /\ nlink' = "none"
  /\ node' \in {node} \cup (IF node = "rebooting" THEN {} ELSE {"none"})
  /\ db' = IF db \in Live THEN "QUERY" ELSE db
  /\ UNCHANGED <<guest, cl, down, placed, jobs>>

AppChange ==
  /\ vm
  /\ app' \in AppStates \ {app}
  /\ UNCHANGED <<vm, osm, link, job, placed, wire, query, db, history, bounds>>

-----------------------------------------------------------------------------
(* The OS manager: regclc, and the loop of lyosm.py.                       *)

socksend(c, ms) ==
  up' = [up EXCEPT ![c] = IF sv[c] = Released \/ cl[c] # "open" THEN @ ELSE @ \o ms]

(* regclc opens a new socket and sends its challenge.                      *)
Connect ==
  /\ osm.at = "idle"
  /\ \E c \in Conns :
       /\ cl[c] = "gone" /\ sv[c] = Released
       /\ cl' = [cl EXCEPT ![c] = "open"]
       /\ sv' = [sv EXCEPT ![c] = Fresh]
       /\ up' = [up EXCEPT ![c] = << <<"auth request">> >>]
       /\ osm' = [osm EXCEPT !.at = "auth", !.conn = c]
       /\ cur' = cur \cup {c}
  /\ UNCHANGED <<vm, app, down, job, placed, wire, query, db, late, ghosts, bounds>>

Got(at, m) ==
  /\ osm.at = at
  /\ down[osm.conn] # <<>> /\ Head(down[osm.conn]) = m
  /\ down' = [down EXCEPT ![osm.conn] = Tail(@)]

Challenged ==
  /\ Got("auth", "auth")
  /\ socksend(osm.conn, << <<"auth reply">>, <<"register">> >>)
  /\ osm' = [osm EXCEPT !.at = "reg"]
  /\ UNCHANGED <<vm, app, cl, sv, job, placed, wire, query, db, history, bounds>>

(* Variant with a fault: a new registration does not ask for a report.     *)
RegisterDoneNoNotify ==
  /\ Got("reg", "registered")
  /\ osm' = [osm EXCEPT !.at = "up", !.registered = TRUE]
  /\ UNCHANGED <<vm, app, cl, sv, up, job, placed, wire, query, db, history, bounds>>

RegisterDone ==
  /\ Got("reg", "registered")
  /\ osm' = [osm EXCEPT !.at = "up", !.registered = TRUE, !.notify = TRUE]
  /\ UNCHANGED <<vm, app, cl, sv, up, job, placed, wire, query, db, history, bounds>>

Disconnected == sv[osm.conn] = Released \/ cl[osm.conn] = "gone"

(* Variant with a fault: the socket is closed and not forgotten.           *)
CloseKeepsSocket ==
  /\ osm' = [osm EXCEPT !.at = "idle"]
  /\ cl' = [cl EXCEPT ![osm.conn] = "gone"] /\ down' = [down EXCEPT ![osm.conn] = <<>>]

Close ==
  /\ osm' = [osm EXCEPT !.at = "idle", !.conn = NoConn]
  /\ cl' = [cl EXCEPT ![osm.conn] = "gone"] /\ down' = [down EXCEPT ![osm.conn] = <<>>]

(* The finally of regclc after a timeout or a closed socket: Config.status *)
(* still says registered when an earlier connection had got that far, and  *)
(* then the socket is kept as if the registration had gone through.        *)
RegisterFailed ==
  /\ osm.at \in {"auth", "reg"}
  /\ (Disconnected /\ UNCHANGED faults) \/ Fault
  /\ IF osm.registered
     THEN osm' = [osm EXCEPT !.at = "up", !.notify = TRUE] /\ UNCHANGED <<cl, down>>
     ELSE Close
  /\ UNCHANGED <<vm, app, sv, up, job, placed, wire, query, db, history, jobs>>

(* The loop reads a packet (one of a registration that it gave up), or     *)
(* finds the socket closed.                                                *)
ReadPacket ==
  /\ osm.at = "up" /\ down[osm.conn] # <<>>
  /\ down' = [down EXCEPT ![osm.conn] = Tail(@)]
  /\ UNCHANGED <<guest, cl, sv, up, job, placed, wire, query, db, history, bounds>>

SocketClosed ==
  /\ osm.at = "up" /\ Disconnected
  /\ Close
  /\ UNCHANGED <<vm, app, sv, up, job, placed, wire, query, db, history, bounds>>

(* lyapp.run: the status script, when a report is due or the hour is over; *)
(* what it says is sent if it is news or asked for.  notify stays when     *)
(* socksend failed.                                                        *)
RunScript ==
  /\ osm.at \in {"idle", "up"}
  /\ osm.notify \/ osm.told # app
  /\ IF osm.at = "idle"
     THEN osm' = [osm EXCEPT !.told = app, !.notify = FALSE] /\ UNCHANGED up
     ELSE /\ Len(up[osm.conn]) < MaxUp
          /\ socksend(osm.conn, << <<"report", app>> >>)
          /\ \E failed \in IF Disconnected THEN BOOLEAN ELSE {FALSE} :
               osm' = [osm EXCEPT !.told = app, !.notify = failed /\ @]
  /\ UNCHANGED <<vm, app, cl, sv, down, job, placed, wire, query, db, history, bounds>>

-----------------------------------------------------------------------------
Clc == Started \/ Ended \/ RebootStopped \/ Stopped \/ NoSuchJob
Node == NodeRun \/ NodeStop
Osm == Connect \/ Challenged \/ RegisterDone \/ RegisterFailed \/ SocketClosed \/ RunScript

Next ==
  \/ \E c \in Conns : ClcRecv(c)
  \/ \E a \in Requests : NewJob(a)
  \/ Clc \/ WaitForOsm \/ JobTimeout \/ QueryAll \/ InstanceInfo
  \/ Node \/ NodeFails \/ NodeQuery \/ NodeCut \/ NodeGone \/ NodeRegistered
  \/ GuestDies \/ GuestReboots \/ LinkCut \/ ClcRestart \/ AppChange
  \/ Osm \/ ReadPacket

(* clc's loop serves every socket that is ready and runs its timers; the   *)
(* node answers a query; the OSM never leaves its loop.  Nothing makes a   *)
(* fault happen, a job be created or carried out, the service change or a  *)
(* node connect: the properties do not need it.                            *)
Fairness ==
  /\ \A c \in Conns : WF_vars(ClcRecv(c))
  /\ WF_vars(QueryAll) /\ WF_vars(NodeQuery) /\ WF_vars(InstanceInfo)
  /\ WF_vars(Osm)

Spec == Init /\ [][Next]_vars /\ Fairness

-----------------------------------------------------------------------------
(* At most one entity is mapped to the instance ("make sure each entity    *)
(* maps to a unique db_id", entity.c): what the jobs and the queries look  *)
(* up is the newest connection, never one of two.                          *)
OneEntity == \A c, d \in Mapped : c = d

(* While the OSM is registered, the status column says what the flag of    *)
(* its entity says, whoever wrote the column last: no query answer, closed *)
(* connection or ended job puts an older status over it.  The exception is *)
(* a 411 of the node that came after the registration.                     *)
DbFollowsOsm ==
  \A c \in Mapped \ late :
    /\ sv[c] = Serving => db = "SERVING"
    /\ sv[c] \in {Registered, Running} => db = "RUNNING"

(* A RUN or FULLREBOOT waits for the guest it started: the entity it looks *)
(* at in its last two states belongs to a connection of this run of the    *)
(* guest, never to the one that a FULLREBOOT has just ended.  The          *)
(* exceptions are connections that no job released: those of a guest that  *)
(* died or rebooted by itself, of a stop whose answer found no job or no   *)
(* connection, and those that were still to be authenticated.              *)
WaitsForThisRun == job \in {"412", "421"} => Mapped \subseteq cur \cup ghosts

(* A guest that is off for good is not shown as running for ever, if its   *)
(* node stays connected: its silent connections die by keepalive, and clc  *)
(* asks the node.  With the node away nobody is asked and the column stays.*)
OffIsNoticed == <>[](~vm /\ nlink = "up") => <>[](db \notin Live)

(* A service that is up for good is shown as serving in the end, whatever  *)
(* connections, jobs and queries failed before: the OSM reconnects and     *)
(* reports again.  The exception is again the late 411, which nothing      *)
(* repairs.                                                                *)
UpIsNoticed == <>[](vm /\ app = "running") => <>[](db = "SERVING" \/ late \cap Mapped # {})
=============================================================================
