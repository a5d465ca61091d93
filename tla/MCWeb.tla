------------------------------- MODULE MCWeb -------------------------------
(* The parts of the web application share no table but `instance`, and     *)
(* what they read of it differs: each run of the model picks one part.  Of *)
(* WebQuota it is the storages or the domains, whose handlers touch only   *)
(* their own table next to the instances.  Of WebNetwork it is             *)
(*   address  addresses come and go and other items of the config change;  *)
(*   life     an instance is started, stopped and deleted, with its address *)
(*            and its virtual host;                                        *)
(*   port     port mappings of instances that keep their addresses;        *)
(*   reuse    port mappings of one address while its instance is deleted   *)
(*            and another takes it.                                        *)
(* The theorems of WebNetworkProofs are about all requests together.       *)
EXTENDS WebQuota, WebNetwork

VARIABLE part   \* the part of the application this behaviour is about

(* Both modules are given the same processes and instances.                *)
Sym == Permutations(Procs \cup Servers) \cup Permutations(Instances \cup Vms)

(* WebNetwork makes no more instances than this in a behaviour.            *)
MaxVms == 2
Room == Cardinality({i \in Vms : stat[i] # "none"}) < MaxVms

(* n stopped instances with their addresses, as their creation leaves them. *)
Created(n, owners(_)) ==
  /\ \E S \in SUBSET Vms :
       /\ Cardinality(S) = n
       /\ stat = [i \in Vms |-> IF i \in S THEN "stop" ELSE "none"]
       /\ owner \in owners(S)
  /\ conf = [i \in Vms |-> ips(i)]
  /\ port = [r \in PortRows |-> Nobody] /\ rules = <<>>
  /\ at = [p \in Servers |-> Resting]
  /\ vhost = {} /\ doomed = {} /\ half = {} /\ bare = {} /\ kept = {}

OneEach(S) == {f \in [Ips -> S \cup {Nobody}] :
                 /\ f[Max(Ips)] = Nobody
                 /\ \A i \in S : Cardinality({a \in Ips : f[a] = i}) = max_network}
OnlyFirst(S) == {f \in [Ips -> S \cup {Nobody}] :
                   \A a \in Ips : f[a] = Nobody <=> a # Min(Ips)}
NoneYet(S) == {[a \in Ips |-> Nobody]}

Init ==
  /\ QInit
  /\ \/ part \in {"storage", "domain", "address"} /\ NInit
     \/ part = "life" /\ Created(1, NoneYet)
     \/ part = "port" /\ Created(MaxVms, OneEach)
     \/ part = "reuse" /\ Created(MaxVms, OnlyFirst)

Quota ==
  /\ part \in {"storage", "domain"}
  /\ \/ \E p \in Procs : \/ part = "storage" /\ StorageRequests(p)
                         \/ part = "domain" /\ DomainRequests(p)
                         \/ InstanceRequests(p)
     \/ Outside
  /\ UNCHANGED <<nvars, part>>

(* The requests that give an address of `pools` to an instance or free it. *)
Addressing(p, pools) ==
  \/ \E i \in Vms, pool \in pools : NetworkAdd(p, i, pool)
  \/ \E a \in Ips : NetworkDelete(p, a)
  \/ TakeIp(p) \/ DropIp(p) \/ update_network(p) \/ CommitNetwork(p)
Deleting(p) ==
  \/ \E i \in Vms : InstanceDelete(p, i)
  \/ unbinding_domain(p) \/ DeleteMark(p) \/ DeleteRead(p) \/ DeleteFree(p)

Address(p) ==
  \/ \E i \in Vms : \/ Room /\ InstanceCreate(p, i)
                    \/ SetConfig(p, i)
  \/ set_ip(p) \/ set_secret(p) \/ SaveConfig(p) \/ Addressing(p, NetPools)

Life(p) ==
  \/ \E i \in Vms : SetConfig(p, i) \/ LifeRun(p, i) \/ LifeStop(p, i)
  \/ SaveConfig(p) \/ binding_domain(p) \/ Deleting(p) \/ Addressing(p, NetPools)

Reuse(p) ==
  \/ Addressing(p, {pool \in NetPools : Min(Ips) \in pool})
  \/ Deleting(p) \/ PortRequests(p)

Network ==
  /\ \/ \E p \in Servers : \/ part = "address" /\ Address(p)
                           \/ part = "life" /\ Life(p)
                           \/ part = "port" /\ PortRequests(p)
                           \/ part = "reuse" /\ Reuse(p)
                           \/ RequestFails(p)
     \/ part = "life" /\ Clc
  /\ UNCHANGED <<qvars, part>>

Next == Quota \/ Network

Spec == Init /\ [][Next]_<<qvars, nvars, part>>
=============================================================================
