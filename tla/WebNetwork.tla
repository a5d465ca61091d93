---------------------------- MODULE WebNetwork ----------------------------
(* The addresses of instances in the web application: which row of ippool  *)
(* an instance owns, the copy of it in the config column of the instance   *)
(* (what the node configures the guest with), the virtual host in nginx    *)
(* and the port mappings in the database and in iptables.                  *)
(* (src/lyweb/app/myun/instance/views.py, app/instance/views.py and        *)
(* models.py, app/network/models.py, tool/firewall.py, tool/domain.py)     *)
(*                                                                         *)
(* One server process per CPU (DEBUG is off) serves requests, and at[p] is *)
(* the request process p serves.  A handler reads its rows, and commits    *)
(* or runs a command later: the reads between two commits or commands are  *)
(* one step, each commit and each command is a step of its own, and the    *)
(* steps of the processes and of clc interleave.  No commit looks whether  *)
(* what was read still holds, so requests that overlap can put older       *)
(* values over newer ones.  The three history variables name the           *)
(* instances and rows this or a failure has happened to: the properties    *)
(* say that nothing else goes wrong.                                       *)
(*                                                                         *)
(* Left out: masks, gateways, MAC addresses and names; the job that a      *)
(* handler creates (ClcJobs); PREROUTING rules of other origin; listings   *)
(* of iptables that fail.  All instances belong to one user.  A rule is    *)
(* the row whose gateway port it matches and its destination.  The id of   *)
(* an instance comes from a sequence and is used once.                     *)
EXTENDS Integers, FiniteSets, SequencesExt

CONSTANTS
  Servers,    \* processes of the web application
  Vms,        \* ids of instance rows
  Ips,        \* rows of ippool, numbered in the order of their ids
  NetPools,   \* network pools: disjoint sets of rows of ippool
  PortRows,   \* rows of port_mapping of the gateway, numbered likewise
  LocalPorts, \* ports of an instance that a user asks to map
  QuotaPort,  \* the port limit of the profile
  Nobody      \* no instance, no row

ASSUME AddressAssumption ==
  /\ Ips \subseteq Nat /\ PortRows \subseteq Nat
  /\ IsFiniteSet(Ips) /\ IsFiniteSet(PortRows) /\ IsFiniteSet(Servers)
  /\ UNION NetPools = Ips
ASSUME NobodyAssumption ==
  Nobody \notin Vms \cup Ips \cup PortRows /\ Nobody \notin Ips \X LocalPorts

VARIABLES
  stat,   \* status of an instance: "none" (no row yet), "run" (any status
          \* that is_running holds of), "stop" (any other), "deleted", and
          \* "gone" once clc has removed the row
  owner,  \* column instance_id of each row of ippool
  conf,   \* the addresses in the config column of each instance
  port,   \* destination <<ip, port>> of each row of port_mapping, or Nobody
  rules,  \* PREROUTING rules <<row, destination>>, the first that matches wins
  vhost,  \* instances that have a virtual host file
  at,     \* the request each process serves: its next step and what it read
  doomed, \* deleted instances for which a DESTROY_INSTANCE job was created
  half,   \* history: instances whose config was left or put out of date
  bare,   \* history: rows of port_mapping whose rule was not made or was lost
  kept    \* history: instances whose virtual host a delete left behind

nvars == <<stat, owner, conf, port, rules, vhost, at, doomed, half, bare, kept>>

Destinations == Ips \X LocalPorts

Stages == {"none", "setIp", "takeIp", "dropIp", "net", "netCommit", "secret", "key",
           "saveConf", "bind", "unbind", "mark", "free", "freeCommit", "addPort",
           "addRule", "insert", "delRule", "freePort"}

Afters == {"none", "secret", "key", "bind", "mark"}

(* A request: its next step, the step after update_network or a commit of  *)
(* the config, its instance, the addresses and port rows it has read, and  *)
(* for a port mapping the row, its destination and the index of the rule.  *)
NetRequests == [next : Stages, then : Afters, i : Vms \cup {Nobody},
                seen : SUBSET Ips, rows : SUBSET PortRows,
                row : PortRows \cup {Nobody}, dest : Destinations \cup {Nobody}, k : Nat]

Resting == [next |-> "none", then |-> "none", i |-> Nobody, seen |-> {}, rows |-> {},
            row |-> Nobody, dest |-> Nobody, k |-> 0]

is_running(i) == stat[i] = "run"
HasRow(i) == stat[i] \notin {"none", "gone"}
Exists(i) == HasRow(i) /\ stat[i] # "deleted"
ips(i) == {a \in Ips : owner[a] = i}
Free(pool) == {a \in pool : owner[a] = Nobody}
Bound == {r \in PortRows : port[r] # Nobody}

(* The tables hold what their columns can, and an address belongs to an    *)
(* instance whose row exists: clc deletes rows while a request that has    *)
(* read one is under way.                                                  *)
NTypeOK ==
  /\ stat \in [Vms -> {"none", "stop", "run", "deleted", "gone"}]
  /\ owner \in [Ips -> Vms \cup {Nobody}]
  /\ conf \in [Vms -> SUBSET Ips]
  /\ port \in [PortRows -> Destinations \cup {Nobody}]
  /\ rules \in Seq(PortRows \X Destinations)
  /\ at \in [Servers -> NetRequests]
  /\ vhost \subseteq Vms /\ doomed \subseteq Vms /\ half \subseteq Vms
  /\ kept \subseteq Vms /\ bare \subseteq PortRows
  /\ \A a \in Ips : owner[a] # Nobody => HasRow(owner[a])

NInit ==
  /\ stat = [i \in Vms |-> "none"]
  /\ owner = [a \in Ips |-> Nobody]
  /\ conf = [i \in Vms |-> {}]
  /\ port = [r \in PortRows |-> Nobody]
  /\ rules = <<>> /\ vhost = {} /\ doomed = {}
  /\ at = [p \in Servers |-> Resting]
  /\ half = {} /\ bare = {} /\ kept = {}

-----------------------------------------------------------------------------
Begin(p, step, then, i) ==
  /\ at[p] = Resting
  /\ at' = [at EXCEPT ![p] = [Resting EXCEPT !.next = step, !.then = then, !.i = i]]
Resume(p, step) ==
  at' = [at EXCEPT ![p] = IF step = "none" THEN Resting
                          ELSE [Resting EXCEPT !.next = step, !.i = at[p].i]]
Done(p) == at' = [at EXCEPT ![p] = Resting]

(* NetworkPool.get_free_ip and Gateway.get_free_port: the first free row.  *)
get_free_ip(pool) == Min(Free(pool))
get_free_port == Min(PortRows \ Bound)

(* InstanceCreate.post commits the row; set_ip takes the first free        *)
(* address of the first pool that has one, and set_secret follows.         *)
InstanceCreate(p, i) ==
  /\ stat[i] = "none"
  /\ stat' = [stat EXCEPT ![i] = "stop"]
  /\ Begin(p, "setIp", "secret", i)
  /\ UNCHANGED <<owner, conf, port, rules, vhost, doomed, half, bare, kept>>

set_ip(p) ==
  /\ at[p].next = "setIp"
  /\ \/ Free(Ips) = {} /\ Resume(p, "secret")
     \/ \E pool \in NetPools :
          /\ Free(pool) # {}
          /\ at' = [at EXCEPT ![p].next = "takeIp", ![p].seen = {get_free_ip(pool)}]
  /\ UNCHANGED <<stat, owner, conf, port, rules, vhost, doomed, half, bare, kept>>

max_network == 1

NetworkAddOneMore(p, i, pool) ==
  /\ Exists(i) /\ Cardinality(ips(i)) <= max_network
  /\ Free(pool) # {} /\ at[p] = Resting
  /\ at' = [at EXCEPT ![p] = [Resting EXCEPT !.next = "takeIp", !.i = i,
                                             !.seen = {get_free_ip(pool)}]]
  /\ UNCHANGED <<stat, owner, conf, port, rules, vhost, doomed, half, bare, kept>>

(* NetworkAdd: prepare and NetworkForm.                                    *)
NetworkAdd(p, i, pool) ==
  /\ Exists(i) /\ Cardinality(ips(i)) < max_network
  /\ Free(pool) # {} /\ at[p] = Resting
  /\ at' = [at EXCEPT ![p] = [Resting EXCEPT !.next = "takeIp", !.i = i,
                                             !.seen = {get_free_ip(pool)}]]
  /\ UNCHANGED <<stat, owner, conf, port, rules, vhost, doomed, half, bare, kept>>

(* The instance that had the address, when it is not the one the request   *)
(* knows of, loses it and keeps it in its config.                          *)
Robbed(a, i) == {owner[a]} \ {Nobody, i}

(* The first commit of set_ip and of NetworkAdd.post: the address is taken *)
(* even if another process has given it away since it was read.            *)
TakeIp(p) ==
  LET i == at[p].i IN
  /\ at[p].next = "takeIp" /\ HasRow(i)
  /\ \E a \in at[p].seen :
       /\ owner' = [owner EXCEPT ![a] = i]
       /\ half' = half \cup Robbed(a, i)
  /\ at' = [at EXCEPT ![p].next = "net", ![p].seen = {}]
  /\ UNCHANGED <<stat, conf, port, rules, vhost, doomed, bare, kept>>

(* NetworkDelete: the address loses its instance; the port mappings of the *)
(* address stay.                                                           *)
NetworkDelete(p, a) ==
  /\ owner[a] # Nobody /\ at[p] = Resting
  /\ at' = [at EXCEPT ![p] = [Resting EXCEPT !.next = "dropIp", !.i = owner[a], !.seen = {a}]]
  /\ UNCHANGED <<stat, owner, conf, port, rules, vhost, doomed, half, bare, kept>>

DropIpNoUpdate(p) ==
  LET i == at[p].i IN
  /\ at[p].next = "dropIp"
  /\ \E a \in at[p].seen :
       /\ owner' = [owner EXCEPT ![a] = Nobody]
       /\ half' = half \cup Robbed(a, i)
  /\ Done(p)
  /\ UNCHANGED <<stat, conf, port, rules, vhost, doomed, bare, kept>>

DropIp(p) ==
  LET i == at[p].i IN
  /\ at[p].next = "dropIp"
  /\ \E a \in at[p].seen :
       /\ owner' = [owner EXCEPT ![a] = Nobody]
       /\ half' = half \cup Robbed(a, i)
  /\ at' = [at EXCEPT ![p].next = "net", ![p].seen = {}]
  /\ UNCHANGED <<stat, conf, port, rules, vhost, doomed, bare, kept>>

(* Instance.update_network computes the config from the addresses; when    *)
(* its text does not change the session leaves the column out of its       *)
(* UPDATE.                                                                 *)
update_network(p) ==
  LET i == at[p].i IN
  /\ at[p].next = "net" /\ HasRow(i)
  /\ \/ at' = [at EXCEPT ![p].next = "netCommit", ![p].seen = ips(i)]
     \/ conf[i] = ips(i) /\ Resume(p, at[p].then)
  /\ UNCHANGED <<stat, owner, conf, port, rules, vhost, doomed, half, bare, kept>>

(* The commit after update_network.  If the addresses have changed since   *)
(* they were read the config is out of date.                               *)
CommitNetwork(p) ==
  LET i == at[p].i IN
  /\ at[p].next = "netCommit" /\ HasRow(i)
  /\ conf' = [conf EXCEPT ![i] = at[p].seen]
  /\ half' = IF at[p].seen = ips(i) THEN half \ {i} ELSE half \cup {i}
  /\ Resume(p, at[p].then)
  /\ UNCHANGED <<stat, owner, port, rules, vhost, doomed, bare, kept>>

(* Instance.set parses the whole config and stores it again with one item  *)
(* changed: the handlers that set a password, a public key or a domain,    *)
(* set_secret and LifeControl.run write back the addresses they read.      *)
SetConfig(p, i) ==
  /\ HasRow(i) /\ at[p] = Resting
  /\ at' = [at EXCEPT ![p] = [Resting EXCEPT !.next = "saveConf", !.i = i, !.seen = conf[i]]]
  /\ UNCHANGED <<stat, owner, conf, port, rules, vhost, doomed, half, bare, kept>>

set_secret(p) ==
  LET after == IF at[p].next = "secret" THEN "key" ELSE "none" IN
  /\ at[p].next \in {"secret", "key"}
  /\ \/ Resume(p, after)
     \/ at' = [at EXCEPT ![p].next = "saveConf", ![p].then = after, ![p].seen = conf[at[p].i]]
  /\ UNCHANGED <<stat, owner, conf, port, rules, vhost, doomed, half, bare, kept>>

SaveConfig(p) ==
  LET i == at[p].i IN
  /\ at[p].next = "saveConf" /\ HasRow(i)
  /\ conf' = [conf EXCEPT ![i] = at[p].seen]
  /\ half' = IF at[p].seen = conf[i] THEN half ELSE half \cup {i}
  /\ Resume(p, at[p].then)
  /\ UNCHANGED <<stat, owner, port, rules, vhost, doomed, bare, kept>>

-----------------------------------------------------------------------------
(* LifeControl.run stores the password and the storages in the config,     *)
(* creates a job and binds the domains; stop creates a job and unbinds.    *)
LifeRun(p, i) ==
  /\ Exists(i) /\ ~is_running(i) /\ at[p] = Resting
  /\ \/ Begin(p, "bind", "none", i)
     \/ at' = [at EXCEPT ![p] = [Resting EXCEPT !.next = "saveConf", !.then = "bind",
                                                !.i = i, !.seen = conf[i]]]
  /\ UNCHANGED <<stat, owner, conf, port, rules, vhost, doomed, half, bare, kept>>

LifeStop(p, i) ==
  /\ is_running(i)
  /\ Begin(p, "unbind", "none", i)
  /\ UNCHANGED <<stat, owner, conf, port, rules, vhost, doomed, half, bare, kept>>

InstanceDeleteStillBound(p, i) ==
  /\ Exists(i) /\ ~is_running(i)
  /\ Begin(p, "net", "mark", i)
  /\ UNCHANGED <<stat, owner, conf, port, rules, vhost, doomed, half, bare, kept>>

(* InstanceDelete: unbinding_domain with its update_network, a commit of   *)
(* the status, and a commit that frees the ports and the addresses; then   *)
(* the DESTROY_INSTANCE job.  The rules of the ports stay in iptables.     *)
InstanceDelete(p, i) ==
  /\ Exists(i) /\ ~is_running(i)
  /\ Begin(p, "unbind", "mark", i)
  /\ UNCHANGED <<stat, owner, conf, port, rules, vhost, doomed, half, bare, kept>>

(* Process p deletes i and has unbound its domains.                        *)
Unbound(p, i) ==
  at[p].i = i /\ \/ at[p].then = "mark" /\ at[p].next \in {"net", "netCommit"}
                 \/ at[p].next \in {"mark", "free", "freeCommit"}

(* instance_domain_binding writes the file when the instance has an        *)
(* address: the one it reported while running, or its row.  When nginx     *)
(* refuses it the file is deleted, if it can be.  A delete that is past    *)
(* its unbinding does not look at the file again.                          *)
binding_domain(p) ==
  LET i == at[p].i IN
  /\ at[p].next = "bind" /\ HasRow(i)
  /\ \/ UNCHANGED <<vhost, kept>>
     \/ /\ is_running(i) \/ ips(i) # {}
        /\ \/ /\ vhost' = vhost \cup {i}
              /\ kept' = IF Exists(i) /\ \A q \in Servers : ~Unbound(q, i)
                         THEN kept ELSE kept \cup {i}
           \/ vhost' = vhost \ {i} /\ kept' = kept \ {i}
  /\ Resume(p, "net")
  /\ UNCHANGED <<stat, owner, conf, port, rules, doomed, half, bare>>

(* instance_domain_unbinding unlinks the file, or fails before that; its   *)
(* callers log a failure and go on.                                        *)
unbinding_domain(p) ==
  LET i == at[p].i IN
  /\ at[p].next = "unbind"
  /\ \/ vhost' = vhost \ {i} /\ kept' = kept \ {i}
     \/ /\ kept' = IF at[p].then = "mark" THEN kept \cup ({i} \cap vhost) ELSE kept
        /\ UNCHANGED vhost
  /\ at' = [at EXCEPT ![p].next = "net"]
  /\ UNCHANGED <<stat, owner, conf, port, rules, doomed, half, bare>>

DeleteMark(p) ==
  LET i == at[p].i IN
  /\ at[p].next = "mark" /\ HasRow(i)
  /\ stat' = [stat EXCEPT ![i] = "deleted"]
  /\ Resume(p, "free")
  /\ UNCHANGED <<owner, conf, port, rules, vhost, doomed, half, bare, kept>>

DeleteRead(p) ==
  LET i == at[p].i IN
  /\ at[p].next = "free" /\ HasRow(i)
  /\ at' = [at EXCEPT ![p].next = "freeCommit", ![p].seen = ips(i),
                      ![p].rows = {r \in Bound : owner[port[r][1]] = i}]
  /\ UNCHANGED <<stat, owner, conf, port, rules, vhost, doomed, half, bare, kept>>

DeleteFree(p) ==
  LET i == at[p].i IN
  /\ at[p].next = "freeCommit"
  /\ port' = [r \in PortRows |-> IF r \in at[p].rows THEN Nobody ELSE port[r]]
  /\ owner' = [a \in Ips |-> IF a \in at[p].seen THEN Nobody ELSE owner[a]]
  /\ half' = half \cup UNION {Robbed(a, i) : a \in at[p].seen}
  /\ doomed' \in {doomed, doomed \cup {i}}    \* run_job may refuse
  /\ Done(p)
  /\ UNCHANGED <<stat, conf, rules, vhost, bare, kept>>

-----------------------------------------------------------------------------
(* PortMappingAdd: the limit counts the mappings of every address that an  *)
(* instance of the user has; the form refuses a destination that a row     *)
(* has already.                                                            *)
used_port == Cardinality({r \in Bound : owner[port[r][1]] # Nobody})

PortMappingForm(i, a, lp) ==
  owner[a] = i /\ \A r \in PortRows : port[r] # <<a, lp>>

PortMappingAdd(p, i, a, lp) ==
  /\ Exists(i)
  /\ QuotaPort > used_port
  /\ PortMappingForm(i, a, lp)
  /\ Bound # PortRows
  /\ at[p] = Resting
  /\ at' = [at EXCEPT ![p] = [Resting EXCEPT !.next = "addPort", !.i = i,
                                             !.row = get_free_port, !.dest = <<a, lp>>]]
  /\ UNCHANGED <<stat, owner, conf, port, rules, vhost, doomed, half, bare, kept>>

(* Process p has committed row r and not yet made its rule, or it has      *)
(* deleted the rule and not yet committed the row.                         *)
AtRow(p, r) == at[p].row = r /\ at[p].next \in {"addRule", "insert", "freePort"}

(* The commit of PortMappingAdd.post.  Two requests that found the same    *)
(* row free both store their destination in it, and the order of their     *)
(* rules need not be that of their commits.                                *)
AddPort(p) ==
  LET r == at[p].row IN
  /\ at[p].next = "addPort"
  /\ port' = [port EXCEPT ![r] = at[p].dest]
  /\ bare' = IF port[r] = Nobody /\ \A q \in Servers : ~AtRow(q, r)
             THEN bare \ {r} ELSE bare \cup {r}
  /\ at' = [at EXCEPT ![p].next = "addRule", ![p].dest = Nobody]
  /\ UNCHANGED <<stat, owner, conf, rules, vhost, doomed, half, kept>>

(* binding_iptables reads the row again and lists the rules; Prerouting.add *)
(* quits when a rule has the destination, whatever gateway port it is for. *)
binding_iptables(p) ==
  LET r == at[p].row
      exists == \E k \in DOMAIN rules : rules[k][2] = port[r]
  IN
  /\ at[p].next = "addRule"
  /\ \/ port[r] = Nobody /\ Done(p) /\ UNCHANGED bare    \* FP.ip is None
     \/ port[r] # Nobody /\ exists /\ Done(p) /\ bare' = bare \cup {r}
     \/ /\ port[r] # Nobody /\ ~exists
        /\ at' = [at EXCEPT ![p].next = "insert", ![p].dest = port[r]]
        /\ UNCHANGED bare
  /\ UNCHANGED <<stat, owner, conf, port, rules, vhost, doomed, half, kept>>

InsertRuleLast(p) ==
  LET r == at[p].row IN
  /\ at[p].next = "insert"
  /\ \/ rules' = Append(rules, <<r, at[p].dest>>) /\ UNCHANGED bare
     \/ bare' = bare \cup {r} /\ UNCHANGED rules
  /\ Done(p)
  /\ UNCHANGED <<stat, owner, conf, port, vhost, doomed, half, kept>>

(* iptables -I puts the rule before all others, or fails.                  *)
InsertRule(p) ==
  LET r == at[p].row IN
  /\ at[p].next = "insert"
  /\ \/ rules' = Cons(<<r, at[p].dest>>, rules) /\ UNCHANGED bare
     \/ bare' = bare \cup {r} /\ UNCHANGED rules
  /\ Done(p)
  /\ UNCHANGED <<stat, owner, conf, port, vhost, doomed, half, kept>>

(* PortMappingDelete lists the rules and deletes by its index the first    *)
(* that has the destination, then commits the row.                         *)
PortMappingDelete(p, i, r) ==
  LET found == {k \in DOMAIN rules : rules[k][2] = port[r]} IN
  /\ Exists(i)
  /\ r \in Bound /\ owner[port[r][1]] = i
  /\ at[p] = Resting
  /\ at' = [at EXCEPT ![p] =
       IF found = {} THEN [Resting EXCEPT !.next = "freePort", !.i = i, !.row = r]
       ELSE [Resting EXCEPT !.next = "delRule", !.i = i, !.row = r,
                            !.dest = port[r], !.k = Min(found)]]
  /\ UNCHANGED <<stat, owner, conf, port, rules, vhost, doomed, half, bare, kept>>

(* The list may have changed since it was read: iptables -D removes the    *)
(* rule that has the index now, that of any row, or finds none and fails.  *)
DeleteRule(p) ==
  LET k == at[p].k IN
  /\ at[p].next = "delRule"
  /\ \/ UNCHANGED <<rules, bare>>
     \/ /\ k \in DOMAIN rules
        /\ rules' = RemoveAt(rules, k)
        /\ bare' = IF rules[k] = <<at[p].row, at[p].dest>> THEN bare
                   ELSE bare \cup {rules[k][1]}
  /\ at' = [at EXCEPT ![p].next = "freePort"]
  /\ UNCHANGED <<stat, owner, conf, port, vhost, doomed, half, kept>>

FreePort(p) ==
  /\ at[p].next = "freePort"
  /\ port' = [port EXCEPT ![at[p].row] = Nobody]
  /\ Done(p)
  /\ UNCHANGED <<stat, owner, conf, rules, vhost, doomed, half, bare, kept>>

-----------------------------------------------------------------------------
(* clc writes a status it was told or found out (db_instance_update_status *)
(* leaves a deleted row alone) ...                                         *)
ClcStatus(i) ==
  /\ Exists(i)
  /\ \E s \in {"stop", "run"} : stat' = [stat EXCEPT ![i] = s]
  /\ UNCHANGED <<owner, conf, port, rules, vhost, at, doomed, half, bare, kept>>

ClcDestroyedUnchecked(i) ==
  /\ i \in doomed /\ stat[i] = "deleted"
  /\ stat' = [stat EXCEPT ![i] = "gone"]
  /\ conf' = [conf EXCEPT ![i] = {}]
  /\ doomed' = doomed \ {i}
  /\ half' = half \ {i}
  /\ UNCHANGED <<owner, port, rules, vhost, at, bare, kept>>

(* ... and deletes the row of an instance it has destroyed, unless a row   *)
(* of ippool refers to it.                                                 *)
ClcDestroyed(i) ==
  /\ i \in doomed /\ stat[i] = "deleted"
  /\ ips(i) = {}
  /\ stat' = [stat EXCEPT ![i] = "gone"]
  /\ conf' = [conf EXCEPT ![i] = {}]
  /\ doomed' = doomed \ {i}
  /\ half' = half \ {i}
  /\ UNCHANGED <<owner, port, rules, vhost, at, bare, kept>>

(* A request ends early: the process is killed, or a handler raises, as it *)
(* does at the next use of an instance whose row is gone.                  *)
RequestFails(p) ==
  LET i == at[p].i IN
  /\ at[p] # Resting
  /\ half' = IF at[p].next \in {"net", "netCommit"} /\ conf[i] # ips(i)
             THEN half \cup {i} ELSE half
  /\ bare' = bare \cup {r \in PortRows : AtRow(p, r)}
  /\ Done(p)
  /\ UNCHANGED <<stat, owner, conf, port, rules, vhost, doomed, kept>>

AddressRequests(p) ==
  \/ \E i \in Vms : \/ InstanceCreate(p, i) \/ SetConfig(p, i)
                    \/ LifeRun(p, i) \/ LifeStop(p, i) \/ InstanceDelete(p, i)
                    \/ \E pool \in NetPools : NetworkAdd(p, i, pool)
  \/ \E a \in Ips : NetworkDelete(p, a)
  \/ set_ip(p) \/ TakeIp(p) \/ DropIp(p) \/ update_network(p) \/ CommitNetwork(p)
  \/ set_secret(p) \/ SaveConfig(p) \/ binding_domain(p) \/ unbinding_domain(p)
  \/ DeleteMark(p) \/ DeleteRead(p) \/ DeleteFree(p)

PortRequests(p) ==
  \/ \E i \in Vms, a \in Ips, lp \in LocalPorts : PortMappingAdd(p, i, a, lp)
  \/ \E i \in Vms, r \in PortRows : PortMappingDelete(p, i, r)
  \/ AddPort(p) \/ binding_iptables(p) \/ InsertRule(p)
  \/ DeleteRule(p) \/ FreePort(p)

Clc == \E i \in Vms : ClcStatus(i) \/ ClcDestroyed(i)

NNext ==
  \/ \E p \in Servers : AddressRequests(p) \/ PortRequests(p) \/ RequestFails(p)
  \/ Clc

NSpec == NInit /\ [][NNext]_nvars

-----------------------------------------------------------------------------
(* The config of an instance, which the node hands to the guest, names     *)
(* exactly the addresses the database gives it, or a request is about to   *)
(* call or commit update_network (set_ip, NetworkAdd, NetworkDelete,       *)
(* LifeControl, InstanceDelete).  It is out of date for longer only where  *)
(* a request ended before its update_network, where another process took   *)
(* or freed an address it had read before, or where a commit put an older  *)
(* config over a newer one, and only until the next update_network.        *)
ConfigMatches ==
  \A i \in Vms \ half :
    Exists(i) => \/ conf[i] = ips(i)
                 \/ \E p \in Servers : at[p].i = i /\ at[p].next \in {"net", "netCommit"}

(* NetworkAdd and set_ip give an instance at most one address more than    *)
(* max_network for each other process that has read the count, however     *)
(* requests overlap, fail or rob each other.                               *)
NetworkOvershoot ==
  \A i \in Vms : Cardinality(ips(i)) <= max_network + Cardinality(Servers) - 1

(* The first rule of its gateway port leads to the destination of the row. *)
Served(r) ==
  \E k \in DOMAIN rules :
    rules[k] = <<r, port[r]>> /\ \A j \in 1..(k - 1) : rules[j][1] # r

(* A port mapping in the database is the one iptables follows for its      *)
(* gateway port, although the rules of deleted instances stay in the       *)
(* chain, except while a handler is between its row and its rule, and      *)
(* where the rule was not made (the destination had one already, the       *)
(* command failed, the request ended), two requests stored the same row,   *)
(* or a delete by index hit a rule that had moved.                         *)
MappingIsServed ==
  \A r \in Bound \ bare : Served(r) \/ \E p \in Servers : AtRow(p, r)

(* A deleted instance has no virtual host, unless unbinding_domain could   *)
(* not remove it or a start of the instance bound it again while another   *)
(* process was deleting the instance (InstanceDelete, LifeControl.run).    *)
DeletedHasNoVhost ==
  \A i \in vhost \ kept : Exists(i)
=============================================================================
