-------------------------- MODULE WebNetworkProofs --------------------------
(* Proofs about WebNetwork, for any number of processes, addresses, ports, *)
(* pools and instances.                                                    *)
(*                                                                         *)
(* The properties compare tables that no single commit changes together.   *)
(* What makes them inductive says which request still makes up for a       *)
(* difference: one that has not yet read the addresses for its             *)
(* update_network or has read the ones of now (ConfFollows), one that adds *)
(* a mapping and has read the destination of now (Ports), a delete that    *)
(* has not unbound the domains yet (Hosts), one that has found the         *)
(* instance without an address (Counted).                                  *)
EXTENDS WebNetwork, TLAPS, WellFoundedInduction, FiniteSetTheorems

Update == {"net", "netCommit"}
RowStages == {"addRule", "insert", "freePort"}

(* A request has what its step works on.                                   *)
Wellformed(x) ==
  /\ x.next # "none" => x.i \in Vms
  /\ x.then = "mark" => x.next \in {"unbind"} \cup Update
  /\ x.next \in RowStages \cup {"addPort", "delRule"} => x.row \in PortRows
  /\ x.next \in {"addPort", "insert"} => x.dest \in Destinations

Place == \A p \in Servers : Wellformed(at[p])
Marked == \A p \in Servers :
            at[p].next \in {"free", "freeCommit"} => stat[at[p].i] \in {"deleted", "gone"}
NoRow == \A i \in Vms : stat[i] = "none" => conf[i] = {}

(* The request of p will put the config of i right.                        *)
Fresh(p, i) ==
  at[p].i = i /\ \/ at[p].next = "net"
                 \/ at[p].next = "netCommit" /\ at[p].seen = ips(i)
ConfFollows ==
  \A i \in Vms \ half :
    Exists(i) => conf[i] = ips(i) \/ \E p \in Servers : Fresh(p, i)

Hosts == \A i \in vhost \ kept : Exists(i) /\ \A p \in Servers : ~Unbound(p, i)

Adding(p, r) == at[p].row = r /\ at[p].next \in {"addRule", "insert"}
Sole == \A r \in Bound \ bare : \A p, q \in Servers : Adding(p, r) /\ Adding(q, r) => p = q
Right == \A p \in Servers :
           at[p].next = "insert" /\ at[p].row \in Bound \ bare => at[p].dest = port[at[p].row]
Ports == Sole /\ Right /\ MappingIsServed

(* The requests that may still give i an address.                          *)
Pend(i) == {p \in Servers : at[p].i = i /\ at[p].next \in {"setIp", "takeIp"}}
Counted ==
  \A i \in Vms :
    Cardinality(ips(i)) + Cardinality(Pend(i)) <= max_network + Cardinality(Servers) - 1

NInv == /\ NTypeOK /\ Place /\ Marked /\ NoRow
        /\ ConfFollows /\ Hosts /\ Ports /\ Counted

(* Only the request of p changes.                                          *)
Moves(p) == \A q \in Servers \ {p} : at'[q] = at[q]

-----------------------------------------------------------------------------
(* get_free_ip and get_free_port find a row that is free.                  *)

LEMMA MinIn ==
  ASSUME NEW S, S \subseteq Nat, S # {}
  PROVE  Min(S) \in S
<1> DEFINE R == {ss \in Nat \X Nat : ss[1] < ss[2]}
<1>1. IsWellFoundedOn(R, Nat) BY NatLessThanWellFounded DEF OpToRel
<1> HIDE DEF R
<1>2. PICK x \in S : \A y \in S : ~ (<<y, x>> \in R) BY <1>1, WFMin
<1>3. \A y \in S : x <= y
  <2> SUFFICES ASSUME NEW y \in S PROVE x <= y OBVIOUS
  <2>1. <<y, x>> \notin R BY <1>2
  <2>2. ~(y < x) BY <2>1 DEF R
  <2> QED BY <2>2
<1> QED BY <1>3 DEF Min

LEMMA FreeAddress ==
  ASSUME NEW pool \in NetPools, Free(pool) # {}
  PROVE  get_free_ip(pool) \in Ips
<1>1. Free(pool) \subseteq Ips BY AddressAssumption DEF Free
<1>2. get_free_ip(pool) \in Free(pool)
  BY <1>1, MinIn, AddressAssumption DEF get_free_ip
<1> QED BY <1>1, <1>2

LEMMA FreeMapping ==
  ASSUME Bound # PortRows
  PROVE  get_free_port \in PortRows
<1>1. PortRows \ Bound # {} /\ PortRows \ Bound \subseteq Nat
  BY AddressAssumption DEF Bound
<1>2. get_free_port \in PortRows \ Bound BY <1>1, MinIn DEF get_free_port
<1> QED BY <1>2

(* A request that ends and one that goes on to another part of its handler. *)
LEMMA Rests ==
  ASSUME NTypeOK, NEW p \in Servers, Done(p)
  PROVE  /\ at' \in [Servers -> NetRequests] /\ Moves(p)
         /\ at'[p] = Resting /\ Wellformed(at'[p])
         /\ at'[p].next = "none" /\ at'[p].then = "none"
<1>1. Resting \in NetRequests
  BY DEF Resting, NetRequests, Stages, Afters
<1>2. at'[p] = Resting /\ at' \in [Servers -> NetRequests] /\ Moves(p)
  BY <1>1 DEF NTypeOK, Done, Moves
<1> QED BY <1>2 DEF Resting, Wellformed, Update, RowStages

LEMMA Resumes ==
  ASSUME NTypeOK, NEW p \in Servers, at[p].next # "none", Wellformed(at[p]),
         NEW step \in {"none", "secret", "key", "bind", "mark", "net", "free"},
         Resume(p, step)
  PROVE  /\ at' \in [Servers -> NetRequests] /\ Moves(p) /\ Wellformed(at'[p])
         /\ at'[p].next = step /\ at'[p].then = "none"
         /\ step # "none" => at'[p].i = at[p].i
<1>1. CASE step = "none"
  BY <1>1, Rests DEF Resume, Done
<1>2. CASE step # "none"
  <2>1. at[p].i \in Vms BY DEF Wellformed
  <2> DEFINE x == [Resting EXCEPT !.next = step, !.i = at[p].i]
  <2>2. x \in NetRequests
    BY <2>1 DEF Resting, NetRequests, Stages, Afters
  <2>3. x.next = step /\ x.then = "none" /\ x.i = at[p].i /\ x.row = Nobody
    BY DEF Resting
  <2>4. at' = [at EXCEPT ![p] = x] BY <1>2 DEF Resume
  <2> HIDE DEF x
  <2>5. at'[p] = x /\ at' \in [Servers -> NetRequests] /\ Moves(p)
    BY <2>2, <2>4 DEF NTypeOK, Moves
  <2> QED BY <2>1, <2>3, <2>5 DEF Wellformed, Update, RowStages
<1> QED BY <1>1, <1>2

(* A new request.                                                          *)
LEMMA Begins ==
  ASSUME NTypeOK, NEW p \in Servers, NEW x \in NetRequests, Wellformed(x),
         at[p] = Resting, at' = [at EXCEPT ![p] = x]
  PROVE  /\ at' \in [Servers -> NetRequests] /\ Moves(p) /\ at'[p] = x
         /\ Wellformed(at'[p])
         /\ at[p].next = "none" /\ at[p].i = Nobody
BY DEF NTypeOK, Moves, Resting

-----------------------------------------------------------------------------
(* What a step leaves alone.                                               *)

LEMMA PlaceKept ==
  ASSUME Place, NEW p \in Servers, Moves(p), Wellformed(at'[p])
  PROVE  Place'
BY DEF Place, Moves, Wellformed

LEMMA MarkedKept ==
  ASSUME Marked, NEW p \in Servers, Moves(p), stat' = stat,
         at'[p].next \in {"free", "freeCommit"}
           => at[p].next \in {"free", "freeCommit"} /\ at'[p].i = at[p].i
  PROVE  Marked'
BY DEF Marked, Moves

LEMMA ConfKept ==
  ASSUME ConfFollows, NEW p \in Servers, Moves(p), owner' = owner, conf' = conf,
         half \subseteq half',
         \A i \in Vms : Exists(i)' => Exists(i) \/ conf[i] = ips(i),
         \A i \in Vms \ half' : Fresh(p, i) => Fresh(p, i)' \/ conf[i] = ips(i)
  PROVE  ConfFollows'
<1> SUFFICES ASSUME NEW i \in Vms, i \notin half', Exists(i)', conf[i] # ips(i)
             PROVE  \E q \in Servers : Fresh(q, i)'
  BY DEF ConfFollows, ips
<1>1. PICK q \in Servers : Fresh(q, i) BY DEF ConfFollows
<1>2. CASE q = p BY <1>1, <1>2
<1>3. CASE q # p BY <1>1, <1>3 DEF Fresh, Moves, ips
<1> QED BY <1>2, <1>3

LEMMA HostsKept ==
  ASSUME Hosts, NEW p \in Servers, Moves(p), vhost' = vhost, kept' = kept,
         \A i \in vhost \ kept : Exists(i) => Exists(i)',
         \A i \in vhost \ kept : Unbound(p, i)' => Unbound(p, i)
  PROVE  Hosts'
<1> SUFFICES ASSUME NEW i \in vhost \ kept, NEW q \in Servers PROVE ~Unbound(q, i)'
  BY DEF Hosts
<1>1. CASE q = p BY <1>1 DEF Hosts
<1>2. CASE q # p BY <1>2 DEF Hosts, Unbound, Moves
<1> QED BY <1>1, <1>2

LEMMA PortsKept ==
  ASSUME Ports, NEW p \in Servers, Moves(p), port' = port, rules' = rules,
         bare \subseteq bare',
         \A r \in PortRows \ bare' : r \in Bound /\ AtRow(p, r) => AtRow(p, r)',
         \A r \in PortRows : Adding(p, r)' => Adding(p, r),
         at'[p].next = "insert" /\ at'[p].row \in Bound \ bare'
           => at'[p].dest = port[at'[p].row]
  PROVE  Ports'
<1>1. Bound' = Bound /\ Bound \subseteq PortRows BY DEF Bound
<1>2. \A q \in Servers, r \in PortRows : Adding(q, r)' => Adding(q, r)
  BY DEF Adding, Moves
<1>3. Sole' BY <1>1, <1>2 DEF Ports, Sole
<1>4. Right' BY <1>1 DEF Ports, Right, Moves
<1>5. MappingIsServed'
  <2> SUFFICES ASSUME NEW r \in Bound \ bare', ~Served(r)
               PROVE  \E q \in Servers : AtRow(q, r)'
    BY <1>1 DEF MappingIsServed, Served
  <2>1. PICK q \in Servers : AtRow(q, r) BY DEF Ports, MappingIsServed
  <2>2. CASE q = p BY <1>1, <2>1, <2>2
  <2>3. CASE q # p BY <2>1, <2>3 DEF AtRow, Moves
  <2> QED BY <2>2, <2>3
<1> QED BY <1>3, <1>4, <1>5 DEF Ports

LEMMA Fewer ==
  ASSUME Counted,
         \A i \in Vms : ips(i)' \subseteq ips(i) /\ Pend(i)' \subseteq Pend(i)
  PROVE  Counted'
<1> SUFFICES ASSUME NEW i \in Vms
             PROVE  Cardinality(ips(i)') + Cardinality(Pend(i)')
                      <= max_network + Cardinality(Servers) - 1
  BY DEF Counted
<1>1. IsFiniteSet(ips(i)) /\ IsFiniteSet(Pend(i)) /\ IsFiniteSet(Servers)
  BY AddressAssumption, FS_Subset DEF ips, Pend
<1>2. /\ Cardinality(ips(i)') <= Cardinality(ips(i)) /\ IsFiniteSet(ips(i)')
      /\ Cardinality(Pend(i)') <= Cardinality(Pend(i)) /\ IsFiniteSet(Pend(i)')
  BY <1>1, FS_Subset
<1>3. /\ Cardinality(ips(i)) \in Nat /\ Cardinality(Pend(i)) \in Nat
      /\ Cardinality(ips(i)') \in Nat /\ Cardinality(Pend(i)') \in Nat
      /\ Cardinality(Servers) \in Nat
  BY <1>1, <1>2, FS_CardinalityType
<1>4. Cardinality(ips(i)) + Cardinality(Pend(i)) <= max_network + Cardinality(Servers) - 1
  BY DEF Counted
<1> QED BY <1>2, <1>3, <1>4 DEF max_network

(* A step that only reads: the request changes and nothing else.           *)
LEMMA Reads ==
  ASSUME NInv, NEW p \in Servers, at' \in [Servers -> NetRequests], Moves(p),
         Wellformed(at'[p]), Counted',
         UNCHANGED <<stat, owner, conf, port, rules, vhost, doomed, half, bare, kept>>,
         at[p].next \notin Update \cup RowStages,
         at'[p].next \notin {"addRule", "insert"},
         \A i \in Vms : Unbound(p, i)' => Unbound(p, i),
         at'[p].next \in {"free", "freeCommit"}
           => at[p].next \in {"free", "freeCommit"} /\ at'[p].i = at[p].i
  PROVE  NInv'
<1>1. NTypeOK' BY DEF NInv, NTypeOK, HasRow
<1>2. Place' BY PlaceKept DEF NInv
<1>3. Marked' BY MarkedKept DEF NInv
<1>4. NoRow' BY DEF NInv, NoRow
<1>5. ConfFollows'
  <2>1. \A i \in Vms : ~Fresh(p, i) BY DEF Fresh, Update
  <2>2. \A i \in Vms : Exists(i)' => Exists(i) BY DEF Exists, HasRow
  <2> QED BY <2>1, <2>2, ConfKept DEF NInv
<1>6. Hosts'
  <2>1. \A i \in vhost : i \in Vms /\ (Exists(i) => Exists(i)')
    BY DEF NInv, NTypeOK, Exists, HasRow
  <2> QED BY <2>1, HostsKept DEF NInv
<1>7. Ports'
  <2>1. \A r \in PortRows : ~AtRow(p, r) BY DEF AtRow, RowStages
  <2>2. \A r \in PortRows : ~Adding(p, r)' BY DEF Adding
  <2> QED BY <2>1, <2>2, PortsKept DEF NInv
<1> QED BY <1>1, <1>2, <1>3, <1>4, <1>5, <1>6, <1>7 DEF NInv

(* Such a step of a request that asks for no further address.              *)
LEMMA CountKept ==
  ASSUME NInv, NEW p \in Servers, Moves(p), owner' = owner,
         at'[p].next \in {"setIp", "takeIp"}
           => at[p].next \in {"setIp", "takeIp"} /\ at'[p].i = at[p].i
  PROVE  Counted'
<1>1. \A i \in Vms : ips(i)' = ips(i) BY DEF ips
<1>2. \A i \in Vms : Pend(i)' \subseteq Pend(i) BY DEF Pend, Moves
<1> QED BY <1>1, <1>2, Fewer DEF NInv

(* A request of an instance that had no address.                           *)
LEMMA CountMore ==
  ASSUME NInv, NEW p \in Servers, Moves(p), owner' = owner, NEW i \in Vms,
         at'[p].i = i, Cardinality(ips(i)) < max_network
  PROVE  Counted'
<1>1. \A j \in Vms : ips(j)' = ips(j) BY DEF ips
<1>2. \A j \in Vms \ {i} : Pend(j)' \subseteq Pend(j) BY DEF Pend, Moves
<1>3. IsFiniteSet(Servers) /\ Cardinality(Servers) \in Nat
  BY AddressAssumption, FS_CardinalityType
<1>4. \A j \in Vms : /\ IsFiniteSet(Pend(j)) /\ Cardinality(Pend(j)) \in Nat
                     /\ IsFiniteSet(ips(j)) /\ Cardinality(ips(j)) \in Nat
  BY AddressAssumption, FS_Subset, FS_CardinalityType DEF Pend, ips
<1> SUFFICES ASSUME NEW j \in Vms
             PROVE  Cardinality(ips(j)') + Cardinality(Pend(j)')
                      <= max_network + Cardinality(Servers) - 1
  BY DEF Counted
<1>5. CASE j = i
  <2>1. Pend(i)' \subseteq Servers BY DEF Pend
  <2>2. Cardinality(Pend(i)') <= Cardinality(Servers) /\ IsFiniteSet(Pend(i)')
    BY <1>3, <2>1, FS_Subset
  <2>3. Cardinality(Pend(i)') \in Nat BY <2>2, FS_CardinalityType
  <2> QED BY <1>1, <1>3, <1>4, <1>5, <2>2, <2>3 DEF max_network
<1>6. CASE j # i
  <2>1. Cardinality(Pend(j)') <= Cardinality(Pend(j)) /\ IsFiniteSet(Pend(j)')
    BY <1>2, <1>4, <1>6, FS_Subset
  <2>2. Cardinality(Pend(j)') \in Nat BY <2>1, FS_CardinalityType
  <2>3. Cardinality(ips(j)) + Cardinality(Pend(j)) <= max_network + Cardinality(Servers) - 1
    BY DEF NInv, Counted
  <2> QED BY <1>1, <1>3, <1>4, <2>1, <2>2, <2>3 DEF max_network
<1> QED BY <1>5, <1>6

(* Rows of port_mapping are freed, and p stops working at a row only if it *)
(* is one of them.                                                         *)
LEMMA PortsFreed ==
  ASSUME NInv, NEW p \in Servers, Moves(p), NEW rows \in SUBSET PortRows,
         port' = [r \in PortRows |-> IF r \in rows THEN Nobody ELSE port[r]],
         rules' = rules, bare' = bare, at'[p].next = "none",
         \A r \in PortRows : AtRow(p, r) => r \in rows
  PROVE  Ports'
<1>1. Bound' = Bound \ rows /\ \A r \in Bound' : port'[r] = port[r] BY DEF Bound
<1>2. Sole' BY <1>1 DEF NInv, Ports, Sole, Adding, Moves
<1>3. Right' BY <1>1 DEF NInv, Ports, Right, Moves
<1>4. MappingIsServed'
  <2> SUFFICES ASSUME NEW r \in Bound', r \notin bare, ~Served(r)'
               PROVE  \E q \in Servers : AtRow(q, r)'
    BY DEF MappingIsServed
  <2>1. r \in Bound /\ r \notin rows /\ r \in PortRows BY <1>1 DEF Bound
  <2>2. ~Served(r) BY <1>1 DEF Served
  <2>3. PICK q \in Servers : AtRow(q, r) BY <2>1, <2>2 DEF NInv, Ports, MappingIsServed
  <2>4. q # p BY <2>1, <2>3
  <2> QED BY <2>3, <2>4 DEF AtRow, Moves
<1> QED BY <1>2, <1>3, <1>4 DEF Ports

-----------------------------------------------------------------------------
(* One lemma for each step of a request.                                   *)

LEMMA InstanceCreateInv ==
  ASSUME NInv, NEW p \in Servers, NEW i \in Vms, InstanceCreate(p, i)
  PROVE  NInv'
<1> DEFINE x == [Resting EXCEPT !.next = "setIp", !.then = "secret", !.i = i]
<1>1. x \in NetRequests BY DEF Resting, NetRequests, Stages, Afters
<1>2. x.next = "setIp" /\ x.then = "secret" /\ x.i = i BY DEF Resting
<1>3. at[p] = Resting /\ at' = [at EXCEPT ![p] = x] BY DEF InstanceCreate, Begin
<1> HIDE DEF x
<1>4. Wellformed(x) BY <1>2 DEF Wellformed, Update, RowStages
<1>5. /\ at' \in [Servers -> NetRequests] /\ Moves(p) /\ at'[p] = x
      /\ Wellformed(at'[p]) /\ at[p].next = "none"
  BY <1>1, <1>3, <1>4, Begins DEF NInv
<1>6. /\ stat[i] = "none" /\ stat' = [stat EXCEPT ![i] = "stop"]
      /\ UNCHANGED <<owner, conf, port, rules, vhost, doomed, half, bare, kept>>
  BY DEF InstanceCreate
<1>7. ips(i) = {} BY <1>6, NobodyAssumption DEF NInv, NTypeOK, ips, HasRow
<1>8. NTypeOK'
  <2>1. stat' \in [Vms -> {"none", "stop", "run", "deleted", "gone"}]
    BY <1>6 DEF NInv, NTypeOK
  <2>2. \A a \in Ips : owner[a] # Nobody => HasRow(owner[a])'
    BY <1>6 DEF NInv, NTypeOK, HasRow
  <2> QED BY <1>5, <1>6, <2>1, <2>2 DEF NInv, NTypeOK
<1>9. Place' BY <1>5, PlaceKept DEF NInv
<1>10. Marked' BY <1>2, <1>5, <1>6 DEF NInv, NTypeOK, Marked, Moves
<1>11. NoRow' BY <1>6 DEF NInv, NTypeOK, NoRow
<1>12. ConfFollows'
  <2>1. \A j \in Vms : Exists(j)' => Exists(j) \/ conf[j] = ips(j)
    BY <1>6, <1>7 DEF NInv, NTypeOK, NoRow, Exists, HasRow
  <2>2. \A j \in Vms : ~Fresh(p, j) BY <1>5 DEF Fresh
  <2> QED BY <1>5, <1>6, <2>1, <2>2, ConfKept DEF NInv
<1>13. Hosts'
  <2>1. \A j \in vhost : Exists(j) => Exists(j)'
    BY <1>6 DEF NInv, NTypeOK, Exists, HasRow
  <2>2. \A j \in vhost : ~Unbound(p, j)' BY <1>2, <1>5 DEF Unbound
  <2> QED BY <1>5, <1>6, <2>1, <2>2, HostsKept DEF NInv
<1>14. Ports'
  <2>1. \A r \in PortRows : ~AtRow(p, r) /\ ~Adding(p, r)'
    BY <1>2, <1>5 DEF AtRow, Adding
  <2> QED BY <1>2, <1>5, <1>6, <2>1, PortsKept DEF NInv
<1>15. Counted'
  <2>1. Cardinality(ips(i)) < max_network BY <1>7, FS_EmptySet DEF max_network
  <2> QED BY <1>2, <1>5, <1>6, <2>1, CountMore
<1> QED BY <1>8, <1>9, <1>10, <1>11, <1>12, <1>13, <1>14, <1>15 DEF NInv

LEMMA set_ipInv ==
  ASSUME NInv, NEW p \in Servers, set_ip(p)
  PROVE  NInv'
<1>1. /\ at[p].next = "setIp" /\ Wellformed(at[p]) /\ at[p] \in NetRequests
      /\ UNCHANGED <<stat, owner, conf, port, rules, vhost, doomed, half, bare, kept>>
  BY DEF set_ip, NInv, Place, NTypeOK
<1>2. /\ at' \in [Servers -> NetRequests] /\ Moves(p) /\ Wellformed(at'[p])
      /\ at'[p].next \in {"secret", "takeIp"} /\ at'[p].i = at[p].i
  <2>1. CASE Resume(p, "secret") BY <1>1, <2>1, Resumes DEF NInv
  <2>2. ASSUME NEW a \in Ips,
               at' = [at EXCEPT ![p].next = "takeIp", ![p].seen = {a}]
        PROVE  /\ at' \in [Servers -> NetRequests] /\ Moves(p) /\ Wellformed(at'[p])
               /\ at'[p].next \in {"secret", "takeIp"} /\ at'[p].i = at[p].i
    BY <1>1, <2>2 DEF NInv, NTypeOK, NetRequests, Stages, Moves, Wellformed, Update, RowStages
  <2> QED BY <2>1, <2>2, FreeAddress DEF set_ip
<1>3. \A i \in Vms : ~Unbound(p, i)'
  BY <1>2 DEF Unbound
<1>4. Counted' BY <1>1, <1>2, CountKept
<1> QED BY <1>1, <1>2, <1>3, <1>4, Reads DEF Update, RowStages

LEMMA NetworkAddInv ==
  ASSUME NInv, NEW p \in Servers, NEW i \in Vms, NEW pool \in NetPools,
         NetworkAdd(p, i, pool)
  PROVE  NInv'
<1>1. PICK a \in Ips : a = get_free_ip(pool) BY FreeAddress DEF NetworkAdd
<1> DEFINE x == [Resting EXCEPT !.next = "takeIp", !.i = i, !.seen = {a}]
<1>2. x \in NetRequests BY DEF Resting, NetRequests, Stages, Afters
<1>3. x.next = "takeIp" /\ x.then = "none" /\ x.i = i BY DEF Resting
<1>4. /\ at[p] = Resting /\ at' = [at EXCEPT ![p] = x] /\ Cardinality(ips(i)) < max_network
      /\ UNCHANGED <<stat, owner, conf, port, rules, vhost, doomed, half, bare, kept>>
  BY <1>1 DEF NetworkAdd
<1> HIDE DEF x
<1>5. Wellformed(x) BY <1>3 DEF Wellformed, Update, RowStages
<1>6. /\ at' \in [Servers -> NetRequests] /\ Moves(p) /\ at'[p] = x
      /\ Wellformed(at'[p]) /\ at[p].next = "none"
  BY <1>2, <1>4, <1>5, Begins DEF NInv
<1>7. Counted' BY <1>3, <1>4, <1>6, CountMore
<1>8. \A j \in Vms : ~Unbound(p, j)' BY <1>3, <1>6 DEF Unbound
<1> QED BY <1>3, <1>4, <1>6, <1>7, <1>8, Reads DEF Update, RowStages

(* A request that begins by reading rows and asks for no address.          *)
LEMMA BeginsReading ==
  ASSUME NInv, NEW p \in Servers, NEW x \in NetRequests, Wellformed(x),
         at[p] = Resting, at' = [at EXCEPT ![p] = x],
         UNCHANGED <<stat, owner, conf, port, rules, vhost, doomed, half, bare, kept>>,
         x.next \notin {"setIp", "takeIp", "addRule", "insert", "net", "netCommit",
                        "mark", "free", "freeCommit"}
  PROVE  NInv'
<1>1. /\ at' \in [Servers -> NetRequests] /\ Moves(p) /\ at'[p] = x
      /\ Wellformed(at'[p]) /\ at[p].next = "none"
  BY Begins DEF NInv
<1>2. Counted' BY <1>1, CountKept
<1>3. \A i \in Vms : ~Unbound(p, i)' BY <1>1 DEF Unbound
<1> QED BY <1>1, <1>2, <1>3, Reads DEF Update, RowStages

LEMMA NetworkDeleteInv ==
  ASSUME NInv, NEW p \in Servers, NEW a \in Ips, NetworkDelete(p, a)
  PROVE  NInv'
<1>1. PICK i \in Vms : i = owner[a] BY DEF NetworkDelete, NInv, NTypeOK
<1> DEFINE x == [Resting EXCEPT !.next = "dropIp", !.i = i, !.seen = {a}]
<1>2. x \in NetRequests BY DEF Resting, NetRequests, Stages, Afters
<1>3. x.next = "dropIp" /\ x.then = "none" /\ x.i = i BY DEF Resting
<1>4. at[p] = Resting /\ at' = [at EXCEPT ![p] = x] BY <1>1 DEF NetworkDelete
<1> HIDE DEF x
<1>5. Wellformed(x) BY <1>3 DEF Wellformed, Update, RowStages
<1> QED BY <1>2, <1>3, <1>4, <1>5, BeginsReading DEF NetworkDelete

LEMMA SetConfigInv ==
  ASSUME NInv, NEW p \in Servers, NEW i \in Vms, SetConfig(p, i)
  PROVE  NInv'
<1> DEFINE x == [Resting EXCEPT !.next = "saveConf", !.i = i, !.seen = conf[i]]
<1>1. conf[i] \subseteq Ips BY DEF NInv, NTypeOK
<1>2. x \in NetRequests BY <1>1 DEF Resting, NetRequests, Stages, Afters
<1>3. x.next = "saveConf" /\ x.then = "none" /\ x.i = i BY DEF Resting
<1>4. at[p] = Resting /\ at' = [at EXCEPT ![p] = x] BY DEF SetConfig
<1> HIDE DEF x
<1>5. Wellformed(x) BY <1>3 DEF Wellformed, Update, RowStages
<1> QED BY <1>2, <1>3, <1>4, <1>5, BeginsReading DEF SetConfig

LEMMA LifeRunInv ==
  ASSUME NInv, NEW p \in Servers, NEW i \in Vms, LifeRun(p, i)
  PROVE  NInv'
<1> DEFINE x == [Resting EXCEPT !.next = "bind", !.then = "none", !.i = i]
           y == [Resting EXCEPT !.next = "saveConf", !.then = "bind", !.i = i, !.seen = conf[i]]
<1>1. conf[i] \subseteq Ips BY DEF NInv, NTypeOK
<1>2. x \in NetRequests /\ y \in NetRequests
  BY <1>1 DEF Resting, NetRequests, Stages, Afters
<1>3. /\ x.next = "bind" /\ x.then = "none" /\ x.i = i
      /\ y.next = "saveConf" /\ y.then = "bind" /\ y.i = i
  BY DEF Resting
<1>4. at[p] = Resting /\ (at' = [at EXCEPT ![p] = x] \/ at' = [at EXCEPT ![p] = y])
  BY DEF LifeRun, Begin
<1> HIDE DEF x, y
<1>5. Wellformed(x) /\ Wellformed(y) BY <1>3 DEF Wellformed, Update, RowStages
<1>6. UNCHANGED <<stat, owner, conf, port, rules, vhost, doomed, half, bare, kept>>
  BY DEF LifeRun
<1>7. CASE at' = [at EXCEPT ![p] = x] BY <1>2, <1>3, <1>4, <1>5, <1>6, <1>7, BeginsReading
<1>8. CASE at' = [at EXCEPT ![p] = y] BY <1>2, <1>3, <1>4, <1>5, <1>6, <1>8, BeginsReading
<1> QED BY <1>4, <1>7, <1>8

LEMMA UnbindInv ==
  ASSUME NInv, NEW p \in Servers, NEW i \in Vms, LifeStop(p, i) \/ InstanceDelete(p, i)
  PROVE  NInv'
<1>1. PICK then \in {"none", "mark"} : Begin(p, "unbind", then, i)
  BY DEF LifeStop, InstanceDelete
<1> DEFINE x == [Resting EXCEPT !.next = "unbind", !.then = then, !.i = i]
<1>2. x \in NetRequests BY DEF Resting, NetRequests, Stages, Afters
<1>3. x.next = "unbind" /\ x.then = then /\ x.i = i BY DEF Resting
<1>4. at[p] = Resting /\ at' = [at EXCEPT ![p] = x] BY <1>1 DEF Begin
<1> HIDE DEF x
<1>5. Wellformed(x) BY <1>3 DEF Wellformed, Update, RowStages
<1>6. UNCHANGED <<stat, owner, conf, port, rules, vhost, doomed, half, bare, kept>>
  BY DEF LifeStop, InstanceDelete
<1> QED BY <1>2, <1>3, <1>4, <1>5, <1>6, BeginsReading

LEMMA set_secretInv ==
  ASSUME NInv, NEW p \in Servers, set_secret(p)
  PROVE  NInv'
<1>1. /\ at[p].next \in {"secret", "key"} /\ Wellformed(at[p]) /\ at[p] \in NetRequests
      /\ UNCHANGED <<stat, owner, conf, port, rules, vhost, doomed, half, bare, kept>>
  BY DEF set_secret, NInv, Place, NTypeOK
<1>2. PICK after \in {"key", "none"} :
        \/ Resume(p, after)
        \/ at' = [at EXCEPT ![p].next = "saveConf", ![p].then = after,
                            ![p].seen = conf[at[p].i]]
  BY DEF set_secret
<1>3. conf[at[p].i] \subseteq Ips BY <1>1 DEF Wellformed, NInv, NTypeOK
<1>4. /\ at' \in [Servers -> NetRequests] /\ Moves(p) /\ Wellformed(at'[p])
      /\ at'[p].next \in {"saveConf", "key", "none"} /\ at'[p].then # "mark"
  <2>1. CASE Resume(p, after) BY <1>1, <2>1, Resumes DEF NInv
  <2>2. CASE at' = [at EXCEPT ![p].next = "saveConf", ![p].then = after,
                              ![p].seen = conf[at[p].i]]
    BY <1>1, <1>3, <2>2
    DEF NInv, NTypeOK, NetRequests, Stages, Afters, Moves, Wellformed, Update, RowStages
  <2> QED BY <1>2, <2>1, <2>2
<1>5. \A i \in Vms : ~Unbound(p, i)' BY <1>4 DEF Unbound
<1>6. Counted' BY <1>1, <1>4, CountKept
<1> QED BY <1>1, <1>4, <1>5, <1>6, Reads DEF Update, RowStages

LEMMA DeleteReadInv ==
  ASSUME NInv, NEW p \in Servers, DeleteRead(p)
  PROVE  NInv'
<1>1. /\ at[p].next = "free" /\ Wellformed(at[p]) /\ at[p] \in NetRequests
      /\ UNCHANGED <<stat, owner, conf, port, rules, vhost, doomed, half, bare, kept>>
  BY DEF DeleteRead, NInv, Place, NTypeOK
<1>2. PICK mine \in SUBSET Ips, rows \in SUBSET PortRows :
        at' = [at EXCEPT ![p].next = "freeCommit", ![p].seen = mine, ![p].rows = rows]
  BY DEF DeleteRead, ips, Bound
<1>3. /\ at' \in [Servers -> NetRequests] /\ Moves(p) /\ Wellformed(at'[p])
      /\ at'[p].next = "freeCommit" /\ at'[p].i = at[p].i
  BY <1>1, <1>2
  DEF NInv, NTypeOK, NetRequests, Stages, Moves, Wellformed, Update, RowStages
<1>4. \A i \in Vms : Unbound(p, i)' => Unbound(p, i) BY <1>1, <1>3 DEF Unbound
<1>5. Counted' BY <1>1, <1>3, CountKept
<1> QED BY <1>1, <1>3, <1>4, <1>5, Reads DEF Update, RowStages

(* An address changes hands by a commit of p: whoever else had it is in    *)
(* `half`, and p itself goes on to update_network.                         *)
LEMMA AddressMoves ==
  ASSUME NInv, NEW p \in Servers, Moves(p), at[p].next \notin Update, NEW i \in Vms,
         NEW a \in Ips, NEW v \in {i, Nobody}, owner' = [owner EXCEPT ![a] = v],
         stat' = stat, conf' = conf, half' = half \cup Robbed(a, i),
         at'[p].next = "net", at'[p].i = i
  PROVE  ConfFollows' /\ half' \subseteq Vms
<1>1. half' \subseteq Vms BY DEF NInv, NTypeOK, Robbed
<1>2. ConfFollows'
  <2> SUFFICES ASSUME NEW j \in Vms, j \notin half', Exists(j)', conf[j] # ips(j)'
               PROVE  \E q \in Servers : Fresh(q, j)'
    BY DEF ConfFollows
  <2>1. CASE j = i BY <2>1 DEF Fresh
  <2>2. CASE j # i
    <3>1. owner[a] # j BY <2>2, NobodyAssumption DEF Robbed
    <3>2. ips(j)' = ips(j) BY <2>2, <3>1, NobodyAssumption DEF NInv, NTypeOK, ips
    <3>3. Exists(j) /\ j \notin half BY DEF Exists, HasRow
    <3>4. PICK q \in Servers : Fresh(q, j) BY <3>2, <3>3 DEF NInv, ConfFollows
    <3>5. q # p BY <3>4 DEF Fresh, Update
    <3> QED BY <3>2, <3>4, <3>5 DEF Fresh, Moves
  <2> QED BY <2>1, <2>2
<1> QED BY <1>1, <1>2

LEMMA TakeIpInv ==
  ASSUME NInv, NEW p \in Servers, TakeIp(p)
  PROVE  NInv'
<1>1. PICK i \in Vms, a \in Ips :
        /\ i = at[p].i /\ a \in at[p].seen /\ HasRow(i) /\ at[p].next = "takeIp"
        /\ owner' = [owner EXCEPT ![a] = i] /\ half' = half \cup Robbed(a, i)
        /\ UNCHANGED <<stat, conf, port, rules, vhost, doomed, bare, kept>>
  BY DEF TakeIp, NInv, Place, Wellformed, NTypeOK, NetRequests
<1>2. at[p] \in NetRequests /\ Wellformed(at[p]) BY DEF NInv, NTypeOK, Place
<1>3. /\ at' \in [Servers -> NetRequests] /\ Moves(p) /\ Wellformed(at'[p])
      /\ at'[p].next = "net" /\ at'[p].i = i /\ at'[p].then # "mark"
  BY <1>1, <1>2
  DEF TakeIp, NInv, NTypeOK, NetRequests, Stages, Moves, Wellformed, Update, RowStages
<1>4. ConfFollows' /\ half' \subseteq Vms BY <1>1, <1>3, AddressMoves DEF Update
<1>5. NTypeOK'
  <2>1. owner' \in [Ips -> Vms \cup {Nobody}] BY <1>1 DEF NInv, NTypeOK
  <2>2. \A b \in Ips : owner'[b] # Nobody => HasRow(owner'[b])
    BY <1>1 DEF NInv, NTypeOK
  <2>3. \A b \in Ips : owner'[b] # Nobody => HasRow(owner[b])'
    BY <1>1, <2>2 DEF HasRow
  <2> QED BY <1>1, <1>3, <1>4, <2>1, <2>3 DEF NInv, NTypeOK
<1>6. Place' BY <1>3, PlaceKept DEF NInv
<1>7. Marked' BY <1>1, <1>3, MarkedKept DEF NInv
<1>8. NoRow' BY <1>1 DEF NInv, NoRow
<1>9. Hosts'
  <2>1. \A j \in vhost : Exists(j) => Exists(j)' BY <1>1 DEF Exists, HasRow
  <2>2. \A j \in vhost : ~Unbound(p, j)' BY <1>3 DEF Unbound
  <2> QED BY <1>1, <1>3, <2>1, <2>2, HostsKept DEF NInv
<1>10. Ports'
  <2>1. \A r \in PortRows : ~AtRow(p, r) /\ ~Adding(p, r)' BY <1>1, <1>3 DEF AtRow, Adding
  <2> QED BY <1>1, <1>3, <2>1, PortsKept DEF NInv
<1>11. Counted'
  <2> SUFFICES ASSUME NEW j \in Vms
               PROVE  Cardinality(ips(j)') + Cardinality(Pend(j)')
                        <= max_network + Cardinality(Servers) - 1
    BY DEF Counted
  <2>1. /\ IsFiniteSet(ips(j)) /\ IsFiniteSet(Pend(j)) /\ IsFiniteSet(Servers)
    BY AddressAssumption, FS_Subset DEF ips, Pend
  <2>2. /\ Cardinality(ips(j)) \in Nat /\ Cardinality(Pend(j)) \in Nat
        /\ Cardinality(Servers) \in Nat
    BY <2>1, FS_CardinalityType
  <2>3. Cardinality(ips(j)) + Cardinality(Pend(j)) <= max_network + Cardinality(Servers) - 1
    BY DEF NInv, Counted
  <2>4. CASE j # i
    <3>1. ips(j)' \subseteq ips(j) BY <1>1, <2>4 DEF NInv, NTypeOK, ips
    <3>2. Pend(j)' \subseteq Pend(j) BY <1>3 DEF Pend, Moves
    <3>3. /\ Cardinality(ips(j)') <= Cardinality(ips(j)) /\ IsFiniteSet(ips(j)')
          /\ Cardinality(Pend(j)') <= Cardinality(Pend(j)) /\ IsFiniteSet(Pend(j)')
      BY <2>1, <3>1, <3>2, FS_Subset
    <3>4. Cardinality(ips(j)') \in Nat /\ Cardinality(Pend(j)') \in Nat
      BY <3>3, FS_CardinalityType
    <3> QED BY <2>2, <2>3, <3>3, <3>4 DEF max_network
  <2>5. CASE j = i
    <3>1. ips(i)' \subseteq ips(i) \cup {a} BY <1>1 DEF NInv, NTypeOK, ips
    <3>2. p \in Pend(i) /\ Pend(i)' \subseteq Pend(i) \ {p}
      BY <1>1, <1>3 DEF Pend, Moves
    <3>3. /\ IsFiniteSet(ips(i) \cup {a})
          /\ Cardinality(ips(i) \cup {a}) <= Cardinality(ips(i)) + 1
      <4>1. Cardinality(ips(i) \cup {a})
              = IF a \in ips(i) THEN Cardinality(ips(i)) ELSE Cardinality(ips(i)) + 1
        BY <2>1, <2>5, FS_AddElement
      <4>2. IsFiniteSet(ips(i) \cup {a}) BY <2>1, <2>5, FS_AddElement
      <4>3. Cardinality(ips(i)) \in Nat BY <2>2, <2>5
      <4> QED BY <4>1, <4>2, <4>3
    <3>4. /\ IsFiniteSet(Pend(i) \ {p})
          /\ Cardinality(Pend(i) \ {p}) = Cardinality(Pend(i)) - 1
      BY <2>1, <2>5, <3>2, FS_RemoveElement
    <3>5. /\ Cardinality(ips(i)') <= Cardinality(ips(i) \cup {a}) /\ IsFiniteSet(ips(i)')
          /\ Cardinality(Pend(i)') <= Cardinality(Pend(i) \ {p}) /\ IsFiniteSet(Pend(i)')
      BY <3>1, <3>2, <3>3, <3>4, FS_Subset
    <3>6. /\ Cardinality(ips(i)') \in Nat /\ Cardinality(Pend(i)') \in Nat
          /\ Cardinality(ips(i) \cup {a}) \in Nat
      BY <3>3, <3>5, FS_CardinalityType
    <3> QED BY <2>2, <2>3, <2>5, <3>3, <3>4, <3>5, <3>6 DEF max_network
  <2> QED BY <2>4, <2>5
<1> QED BY <1>4, <1>5, <1>6, <1>7, <1>8, <1>9, <1>10, <1>11 DEF NInv

LEMMA DropIpInv ==
  ASSUME NInv, NEW p \in Servers, DropIp(p)
  PROVE  NInv'
<1>1. PICK i \in Vms, a \in Ips :
        /\ i = at[p].i /\ at[p].next = "dropIp"
        /\ owner' = [owner EXCEPT ![a] = Nobody] /\ half' = half \cup Robbed(a, i)
        /\ UNCHANGED <<stat, conf, port, rules, vhost, doomed, bare, kept>>
  BY DEF DropIp, NInv, Place, Wellformed, NTypeOK, NetRequests
<1>2. at[p] \in NetRequests /\ Wellformed(at[p]) BY DEF NInv, NTypeOK, Place
<1>3. /\ at' \in [Servers -> NetRequests] /\ Moves(p) /\ Wellformed(at'[p])
      /\ at'[p].next = "net" /\ at'[p].i = i /\ at'[p].then # "mark"
  BY <1>1, <1>2
  DEF DropIp, NInv, NTypeOK, NetRequests, Stages, Moves, Wellformed, Update, RowStages
<1>4. ConfFollows' /\ half' \subseteq Vms BY <1>1, <1>3, AddressMoves DEF Update
<1>5. NTypeOK'
  <2>1. owner' \in [Ips -> Vms \cup {Nobody}] BY <1>1 DEF NInv, NTypeOK
  <2>2. \A b \in Ips : owner'[b] # Nobody => HasRow(owner'[b])
    BY <1>1 DEF NInv, NTypeOK
  <2>3. \A b \in Ips : owner'[b] # Nobody => HasRow(owner[b])'
    BY <1>1, <2>2 DEF HasRow
  <2> QED BY <1>1, <1>3, <1>4, <2>1, <2>3 DEF NInv, NTypeOK
<1>6. Place' BY <1>3, PlaceKept DEF NInv
<1>7. Marked' BY <1>1, <1>3, MarkedKept DEF NInv
<1>8. NoRow' BY <1>1 DEF NInv, NoRow
<1>9. Hosts'
  <2>1. \A j \in vhost : Exists(j) => Exists(j)' BY <1>1 DEF Exists, HasRow
  <2>2. \A j \in vhost : ~Unbound(p, j)' BY <1>3 DEF Unbound
  <2> QED BY <1>1, <1>3, <2>1, <2>2, HostsKept DEF NInv
<1>10. Ports'
  <2>1. \A r \in PortRows : ~AtRow(p, r) /\ ~Adding(p, r)' BY <1>1, <1>3 DEF AtRow, Adding
  <2> QED BY <1>1, <1>3, <2>1, PortsKept DEF NInv
<1>11. Counted'
  <2>1. \A j \in Vms : ips(j)' \subseteq ips(j)
    BY <1>1, NobodyAssumption DEF NInv, NTypeOK, ips
  <2>2. \A j \in Vms : Pend(j)' \subseteq Pend(j) BY <1>3 DEF Pend, Moves
  <2> QED BY <2>1, <2>2, Fewer DEF NInv
<1> QED BY <1>4, <1>5, <1>6, <1>7, <1>8, <1>9, <1>10, <1>11 DEF NInv

LEMMA DeleteFreeInv ==
  ASSUME NInv, NEW p \in Servers, DeleteFree(p)
  PROVE  NInv'
<1>1. PICK i \in Vms, mine \in SUBSET Ips, rows \in SUBSET PortRows :
        i = at[p].i /\ mine = at[p].seen /\ rows = at[p].rows
  BY DEF DeleteFree, NInv, Place, Wellformed, NTypeOK, NetRequests
<1>2. /\ at[p].next = "freeCommit" /\ Done(p)
      /\ port' = [r \in PortRows |-> IF r \in rows THEN Nobody ELSE port[r]]
      /\ owner' = [a \in Ips |-> IF a \in mine THEN Nobody ELSE owner[a]]
      /\ half' = half \cup UNION {Robbed(a, i) : a \in mine}
      /\ doomed' \in {doomed, doomed \cup {i}}
      /\ UNCHANGED <<stat, conf, rules, vhost, bare, kept>>
  BY <1>1 DEF DeleteFree
<1>3. ~Exists(i) BY <1>1, <1>2 DEF NInv, Marked, Exists, HasRow
<1>4. /\ at' \in [Servers -> NetRequests] /\ Moves(p) /\ at'[p] = Resting
      /\ Wellformed(at'[p]) /\ at'[p].next = "none"
  BY <1>2, Rests DEF NInv
<1>5. half' \subseteq Vms
  <2>1. \A a \in mine : Robbed(a, i) \subseteq Vms BY DEF NInv, NTypeOK, Robbed
  <2> QED BY <1>2, <2>1 DEF NInv, NTypeOK
<1>6. NTypeOK'
  <2>1. /\ port' \in [PortRows -> Destinations \cup {Nobody}]
        /\ owner' \in [Ips -> Vms \cup {Nobody}] /\ doomed' \subseteq Vms
    BY <1>2 DEF NInv, NTypeOK
  <2>2. \A a \in Ips : owner'[a] # Nobody => HasRow(owner[a])'
    BY <1>2 DEF NInv, NTypeOK, HasRow
  <2> QED BY <1>2, <1>4, <1>5, <2>1, <2>2 DEF NInv, NTypeOK
<1>7. Place' BY <1>4, PlaceKept DEF NInv
<1>8. Marked' BY <1>2, <1>4, MarkedKept DEF NInv
<1>9. NoRow' BY <1>2 DEF NInv, NoRow
<1>10. ConfFollows'
  <2> SUFFICES ASSUME NEW j \in Vms, j \notin half', Exists(j)', conf[j] # ips(j)'
               PROVE  \E q \in Servers : Fresh(q, j)'
    BY <1>2 DEF ConfFollows
  <2>1. Exists(j) /\ j \notin half /\ j # i
    BY <1>2, <1>3 DEF Exists, HasRow
  <2>2. \A a \in mine : owner[a] # j
    BY <1>2, <2>1, NobodyAssumption DEF Robbed
  <2>3. ips(j)' = ips(j) BY <1>2, <2>2, NobodyAssumption DEF ips
  <2>4. PICK q \in Servers : Fresh(q, j) BY <2>1, <2>3 DEF NInv, ConfFollows
  <2>5. q # p BY <1>2, <2>4 DEF Fresh
  <2> QED BY <1>4, <2>3, <2>4, <2>5 DEF Fresh, Moves
<1>11. Hosts'
  <2>1. \A j \in vhost : Exists(j) => Exists(j)' BY <1>2 DEF Exists, HasRow
  <2>2. \A j \in vhost : ~Unbound(p, j)' BY <1>4 DEF Unbound, Resting
  <2> QED BY <1>2, <1>4, <2>1, <2>2, HostsKept DEF NInv
<1>12. Ports' BY <1>2, <1>4, PortsFreed DEF AtRow
<1>13. Counted'
  <2>1. \A j \in Vms : ips(j)' \subseteq ips(j)
    BY <1>2, NobodyAssumption DEF ips
  <2>2. \A j \in Vms : Pend(j)' \subseteq Pend(j) BY <1>4 DEF Pend, Moves
  <2> QED BY <2>1, <2>2, Fewer DEF NInv
<1> QED BY <1>6, <1>7, <1>8, <1>9, <1>10, <1>11, <1>12, <1>13 DEF NInv

-----------------------------------------------------------------------------
(* Steps that read addresses or write the config or a virtual host.        *)

LEMMA ConfigStep ==
  ASSUME NInv, NEW p \in Servers, at' \in [Servers -> NetRequests], Moves(p),
         Wellformed(at'[p]),
         UNCHANGED <<stat, owner, port, rules, doomed, bare>>,
         at[p].next \notin RowStages,
         at'[p].next \notin {"addRule", "insert", "setIp", "takeIp", "free", "freeCommit"},
         conf' \in [Vms -> SUBSET Ips], half' \subseteq Vms,
         vhost' \subseteq Vms, kept' \subseteq Vms, NoRow', ConfFollows', Hosts'
  PROVE  NInv'
<1>1. NTypeOK' BY DEF NInv, NTypeOK, HasRow
<1>2. Place' BY PlaceKept DEF NInv
<1>3. Marked' BY MarkedKept DEF NInv
<1>4. Ports'
  <2>1. \A r \in PortRows : ~AtRow(p, r) /\ ~Adding(p, r)' BY DEF AtRow, Adding, RowStages
  <2> QED BY <2>1, PortsKept DEF NInv
<1>5. Counted' BY CountKept
<1> QED BY <1>1, <1>2, <1>3, <1>4, <1>5 DEF NInv

LEMMA update_networkInv ==
  ASSUME NInv, NEW p \in Servers, update_network(p)
  PROVE  NInv'
<1>1. PICK i \in Vms : i = at[p].i
  BY DEF update_network, NInv, Place, Wellformed
<1>2. /\ at[p].next = "net" /\ Wellformed(at[p]) /\ at[p] \in NetRequests
      /\ UNCHANGED <<stat, owner, conf, port, rules, vhost, doomed, half, bare, kept>>
  BY DEF update_network, NInv, Place, NTypeOK
<1>3. at[p].then \in Afters BY <1>2 DEF NetRequests
<1>4. ips(i) \subseteq Ips BY DEF ips
<1>5. /\ at' \in [Servers -> NetRequests] /\ Moves(p) /\ Wellformed(at'[p])
      /\ at'[p].next \in Afters \cup {"netCommit"}
      /\ \A j \in Vms : Fresh(p, j) => Fresh(p, j)' \/ conf[j] = ips(j)
      /\ \A j \in Vms : Unbound(p, j)' => Unbound(p, j)
  <2>1. CASE at' = [at EXCEPT ![p].next = "netCommit", ![p].seen = ips(i)]
    <3>1. /\ at' \in [Servers -> NetRequests] /\ Moves(p) /\ Wellformed(at'[p])
          /\ at'[p].next = "netCommit" /\ at'[p].i = i /\ at'[p].seen = ips(i)
          /\ at'[p].then = at[p].then
      BY <1>1, <1>2, <1>4, <2>1
      DEF NInv, NTypeOK, NetRequests, Stages, Moves, Wellformed, Update, RowStages
    <3>2. ips(i)' = ips(i) BY <1>2 DEF ips
    <3>3. \A j \in Vms : Fresh(p, j) => Fresh(p, j)' BY <1>1, <3>1, <3>2 DEF Fresh
    <3>4. \A j \in Vms : Unbound(p, j)' => Unbound(p, j) BY <1>1, <1>2, <3>1 DEF Unbound
    <3> QED BY <3>1, <3>3, <3>4
  <2>2. CASE conf[i] = ips(i) /\ Resume(p, at[p].then)
    <3>1. /\ at' \in [Servers -> NetRequests] /\ Moves(p) /\ Wellformed(at'[p])
          /\ at'[p].next = at[p].then /\ at'[p].then = "none"
          /\ at[p].then # "none" => at'[p].i = i
      BY <1>1, <1>2, <1>3, <2>2, Resumes DEF NInv, Afters
    <3>2. \A j \in Vms : Fresh(p, j) => conf[j] = ips(j) BY <1>1, <2>2 DEF Fresh
    <3>3. \A j \in Vms : Unbound(p, j)' => Unbound(p, j)
      BY <1>1, <1>2, <1>3, <3>1 DEF Unbound, Afters
    <3> QED BY <1>3, <3>1, <3>2, <3>3
  <2> QED BY <1>1, <2>1, <2>2 DEF update_network
<1>6. ConfFollows'
  <2>1. \A j \in Vms : Exists(j)' => Exists(j) BY <1>2 DEF Exists, HasRow
  <2> QED BY <1>2, <1>5, <2>1, ConfKept DEF NInv
<1>7. Hosts'
  <2>1. \A j \in vhost : j \in Vms /\ (Exists(j) => Exists(j)')
    BY <1>2 DEF NInv, NTypeOK, Exists, HasRow
  <2> QED BY <1>2, <1>5, <2>1, HostsKept DEF NInv
<1>8. NoRow' BY <1>2 DEF NInv, NoRow
<1>9. /\ conf' \in [Vms -> SUBSET Ips] /\ half' \subseteq Vms
      /\ vhost' \subseteq Vms /\ kept' \subseteq Vms
  BY <1>2 DEF NInv, NTypeOK
<1>10. /\ at[p].next \notin RowStages
       /\ at'[p].next \notin {"addRule", "insert", "setIp", "takeIp", "free", "freeCommit"}
  BY <1>2, <1>5 DEF RowStages, Afters
<1> QED BY <1>2, <1>5, <1>6, <1>7, <1>8, <1>9, <1>10, ConfigStep

(* A commit of the config by p leaves that of other instances alone.       *)
LEMMA ConfigCommit ==
  ASSUME NInv, NEW p \in Servers, NEW i \in Vms, i = at[p].i, HasRow(i),
         at[p].next \in {"netCommit", "saveConf"}, Resume(p, at[p].then),
         conf' = [conf EXCEPT ![i] = at[p].seen],
         half' \subseteq Vms, half \ {i} \subseteq half',
         i \notin half' /\ Exists(i) => \/ at[p].seen = ips(i)
                         \/ \E q \in Servers \ {p} : Fresh(q, i),
         UNCHANGED <<stat, owner, port, rules, vhost, doomed, bare, kept>>
  PROVE  NInv'
<1>1. /\ Wellformed(at[p]) /\ at[p] \in NetRequests /\ at[p].then \in Afters
      /\ at[p].seen \subseteq Ips
  BY DEF NInv, Place, NTypeOK, NetRequests
<1>2. /\ at' \in [Servers -> NetRequests] /\ Moves(p) /\ Wellformed(at'[p])
      /\ at'[p].next = at[p].then /\ at'[p].then = "none"
      /\ at[p].then # "none" => at'[p].i = i
  BY <1>1, Resumes DEF NInv, Afters
<1>3. conf' \in [Vms -> SUBSET Ips] BY <1>1 DEF NInv, NTypeOK
<1>4. NoRow' BY DEF NInv, NTypeOK, NoRow, HasRow
<1>5. ConfFollows'
  <2> SUFFICES ASSUME NEW j \in Vms, j \notin half', Exists(j)', conf'[j] # ips(j)'
               PROVE  \E q \in Servers : Fresh(q, j)'
    BY DEF ConfFollows
  <2>1. ips(j)' = ips(j) /\ Exists(j) BY DEF ips, Exists, HasRow
  <2>2. \E q \in Servers \ {p} : Fresh(q, j)
    <3>1. CASE j = i
      BY <2>1, <3>1 DEF NInv, NTypeOK
    <3>2. CASE j # i
      <4>1. conf'[j] = conf[j] /\ j \notin half BY <3>2 DEF NInv, NTypeOK
      <4>2. PICK q \in Servers : Fresh(q, j) BY <2>1, <4>1 DEF NInv, ConfFollows
      <4>3. q # p BY <3>2, <4>2 DEF Fresh
      <4> QED BY <4>2, <4>3
    <3> QED BY <3>1, <3>2
  <2> QED BY <1>2, <2>1, <2>2 DEF Fresh, Moves
<1>6. Hosts'
  <2>1. \A j \in vhost : j \in Vms /\ (Exists(j) => Exists(j)')
    BY DEF NInv, NTypeOK, Exists, HasRow
  <2>2. at[p].then = "mark" => at[p].next = "netCommit" BY <1>1 DEF Wellformed, Update
  <2>3. \A j \in vhost : Unbound(p, j)' => Unbound(p, j)
    BY <1>1, <1>2, <2>2 DEF Unbound, Afters
  <2> QED BY <1>2, <2>1, <2>3, HostsKept DEF NInv
<1>7. vhost' \subseteq Vms /\ kept' \subseteq Vms BY DEF NInv, NTypeOK
<1>8. /\ at[p].next \notin RowStages
      /\ at'[p].next \notin {"addRule", "insert", "setIp", "takeIp", "free", "freeCommit"}
  BY <1>1, <1>2 DEF RowStages, Afters
<1> QED BY <1>2, <1>3, <1>4, <1>5, <1>6, <1>7, <1>8, ConfigStep

LEMMA CommitNetworkInv ==
  ASSUME NInv, NEW p \in Servers, CommitNetwork(p)
  PROVE  NInv'
<1>1. PICK i \in Vms : i = at[p].i BY DEF CommitNetwork, NInv, Place, Wellformed
<1>2. /\ at[p].next = "netCommit" /\ HasRow(i) /\ Resume(p, at[p].then)
      /\ conf' = [conf EXCEPT ![i] = at[p].seen]
      /\ half' = IF at[p].seen = ips(i) THEN half \ {i} ELSE half \cup {i}
      /\ UNCHANGED <<stat, owner, port, rules, vhost, doomed, bare, kept>>
  BY <1>1 DEF CommitNetwork
<1>3. half' \subseteq Vms /\ half \ {i} \subseteq half' BY <1>2 DEF NInv, NTypeOK
<1>4. i \notin half' => at[p].seen = ips(i) BY <1>2
<1> QED BY <1>1, <1>2, <1>3, <1>4, ConfigCommit

LEMMA SaveConfigInv ==
  ASSUME NInv, NEW p \in Servers, SaveConfig(p)
  PROVE  NInv'
<1>1. PICK i \in Vms : i = at[p].i BY DEF SaveConfig, NInv, Place, Wellformed
<1>2. /\ at[p].next = "saveConf" /\ HasRow(i) /\ Resume(p, at[p].then)
      /\ conf' = [conf EXCEPT ![i] = at[p].seen]
      /\ half' = IF at[p].seen = conf[i] THEN half ELSE half \cup {i}
      /\ UNCHANGED <<stat, owner, port, rules, vhost, doomed, bare, kept>>
  BY <1>1 DEF SaveConfig
<1>3. half' \subseteq Vms /\ half \ {i} \subseteq half' BY <1>2 DEF NInv, NTypeOK
<1>4. ASSUME i \notin half', Exists(i)
      PROVE  at[p].seen = ips(i) \/ \E q \in Servers \ {p} : Fresh(q, i)
  <2>1. at[p].seen = conf[i] /\ i \notin half BY <1>2, <1>4
  <2>2. ~Fresh(p, i) BY <1>2 DEF Fresh
  <2> QED BY <1>4, <2>1, <2>2 DEF NInv, ConfFollows
<1> QED BY <1>1, <1>2, <1>3, <1>4, ConfigCommit

LEMMA binding_domainInv ==
  ASSUME NInv, NEW p \in Servers, binding_domain(p)
  PROVE  NInv'
<1>1. PICK i \in Vms : i = at[p].i BY DEF binding_domain, NInv, Place, Wellformed
<1>2. /\ at[p].next = "bind" /\ Resume(p, "net") /\ Wellformed(at[p])
      /\ UNCHANGED <<stat, owner, conf, port, rules, doomed, half, bare>>
  BY DEF binding_domain, NInv, Place
<1>3. /\ at' \in [Servers -> NetRequests] /\ Moves(p) /\ Wellformed(at'[p])
      /\ at'[p].next = "net" /\ at'[p].then = "none" /\ at'[p].i = i
  BY <1>1, <1>2, Resumes DEF NInv
<1>4. \/ UNCHANGED <<vhost, kept>>
      \/ /\ vhost' = vhost \cup {i}
         /\ \/ kept' = kept /\ Exists(i) /\ \A q \in Servers : ~Unbound(q, i)
            \/ kept' = kept \cup {i}
      \/ vhost' = vhost \ {i} /\ kept' = kept \ {i}
  BY <1>1 DEF binding_domain
<1>5. vhost' \subseteq Vms /\ kept' \subseteq Vms BY <1>4 DEF NInv, NTypeOK
<1>6. ConfFollows'
  <2>1. \A j \in Vms : Exists(j)' => Exists(j) BY <1>2 DEF Exists, HasRow
  <2>2. \A j \in Vms : ~Fresh(p, j) BY <1>2 DEF Fresh
  <2> QED BY <1>2, <1>3, <2>1, <2>2, ConfKept DEF NInv
<1>7. Hosts'
  <2> SUFFICES ASSUME NEW j \in vhost' \ kept'
               PROVE  Exists(j)' /\ \A q \in Servers : ~Unbound(q, j)'
    BY DEF Hosts
  <2>1. Exists(j) /\ \A q \in Servers : ~Unbound(q, j) BY <1>4 DEF NInv, Hosts
  <2>2. ~Unbound(p, j)' BY <1>3 DEF Unbound
  <2>3. \A q \in Servers \ {p} : ~Unbound(q, j)' BY <1>3, <2>1 DEF Unbound, Moves
  <2>4. Exists(j)' BY <1>2, <2>1 DEF Exists, HasRow
  <2> QED BY <2>2, <2>3, <2>4
<1>8. NoRow' BY <1>2 DEF NInv, NoRow
<1>9. conf' \in [Vms -> SUBSET Ips] /\ half' \subseteq Vms BY <1>2 DEF NInv, NTypeOK
<1> QED BY <1>2, <1>3, <1>5, <1>6, <1>7, <1>8, <1>9, ConfigStep DEF RowStages

LEMMA unbinding_domainInv ==
  ASSUME NInv, NEW p \in Servers, unbinding_domain(p)
  PROVE  NInv'
<1>1. PICK i \in Vms : i = at[p].i BY DEF unbinding_domain, NInv, Place, Wellformed
<1>2. /\ at[p].next = "unbind" /\ Wellformed(at[p]) /\ at[p] \in NetRequests
      /\ at' = [at EXCEPT ![p].next = "net"]
      /\ UNCHANGED <<stat, owner, conf, port, rules, doomed, half, bare>>
  BY DEF unbinding_domain, NInv, Place, NTypeOK
<1>3. /\ at' \in [Servers -> NetRequests] /\ Moves(p) /\ Wellformed(at'[p])
      /\ at'[p].next = "net" /\ at'[p].then = at[p].then /\ at'[p].i = i
  BY <1>1, <1>2
  DEF NInv, NTypeOK, NetRequests, Stages, Moves, Wellformed, Update, RowStages
<1>4. \/ vhost' = vhost \ {i} /\ kept' = kept \ {i}
      \/ vhost' = vhost /\ kept' = kept /\ at[p].then # "mark"
      \/ vhost' = vhost /\ kept' = kept \cup ({i} \cap vhost)
  BY <1>1 DEF unbinding_domain
<1>5. vhost' \subseteq Vms /\ kept' \subseteq Vms BY <1>4 DEF NInv, NTypeOK
<1>6. ConfFollows'
  <2>1. \A j \in Vms : Exists(j)' => Exists(j) BY <1>2 DEF Exists, HasRow
  <2>2. \A j \in Vms : ~Fresh(p, j) BY <1>2 DEF Fresh
  <2> QED BY <1>2, <1>3, <2>1, <2>2, ConfKept DEF NInv
<1>7. Hosts'
  <2> SUFFICES ASSUME NEW j \in vhost' \ kept'
               PROVE  Exists(j)' /\ \A q \in Servers : ~Unbound(q, j)'
    BY DEF Hosts
  <2>1. j \in vhost \ kept /\ (j = i => at[p].then # "mark") BY <1>4
  <2>2. Exists(j) /\ \A q \in Servers : ~Unbound(q, j) BY <2>1 DEF NInv, Hosts
  <2>3. ~Unbound(p, j)' BY <1>3, <2>1 DEF Unbound
  <2>4. \A q \in Servers \ {p} : ~Unbound(q, j)' BY <1>3, <2>2 DEF Unbound, Moves
  <2>5. Exists(j)' BY <1>2, <2>2 DEF Exists, HasRow
  <2> QED BY <2>3, <2>4, <2>5
<1>8. NoRow' BY <1>2 DEF NInv, NoRow
<1>9. conf' \in [Vms -> SUBSET Ips] /\ half' \subseteq Vms BY <1>2 DEF NInv, NTypeOK
<1> QED BY <1>2, <1>3, <1>5, <1>6, <1>7, <1>8, <1>9, ConfigStep DEF RowStages

LEMMA DeleteMarkInv ==
  ASSUME NInv, NEW p \in Servers, DeleteMark(p)
  PROVE  NInv'
<1>1. PICK i \in Vms : i = at[p].i BY DEF DeleteMark, NInv, Place, Wellformed
<1>2. /\ at[p].next = "mark" /\ HasRow(i) /\ Wellformed(at[p]) /\ Resume(p, "free")
      /\ stat' = [stat EXCEPT ![i] = "deleted"]
      /\ UNCHANGED <<owner, conf, port, rules, vhost, doomed, half, bare, kept>>
  BY <1>1 DEF DeleteMark, NInv, Place
<1>3. /\ at' \in [Servers -> NetRequests] /\ Moves(p) /\ Wellformed(at'[p])
      /\ at'[p].next = "free" /\ at'[p].then = "none" /\ at'[p].i = i
  BY <1>1, <1>2, Resumes DEF NInv
<1>4. \A j \in Vms : /\ HasRow(j) <=> HasRow(j)'
                     /\ Exists(j)' <=> Exists(j) /\ j # i
  BY <1>2 DEF NInv, NTypeOK, HasRow, Exists
<1>5. NTypeOK'
  <2>1. stat' \in [Vms -> {"none", "stop", "run", "deleted", "gone"}]
    BY <1>2 DEF NInv, NTypeOK
  <2>2. \A a \in Ips : owner[a] # Nobody => HasRow(owner[a])'
    BY <1>2, <1>4 DEF NInv, NTypeOK
  <2> QED BY <1>2, <1>3, <2>1, <2>2 DEF NInv, NTypeOK
<1>6. Place' BY <1>3, PlaceKept DEF NInv
<1>7. Marked'
  <2> SUFFICES ASSUME NEW q \in Servers, at'[q].next \in {"free", "freeCommit"}
               PROVE  stat'[at'[q].i] \in {"deleted", "gone"}
    BY DEF Marked
  <2>1. CASE q = p BY <1>2, <1>3, <2>1 DEF NInv, NTypeOK
  <2>2. CASE q # p
    <3>1. at'[q] = at[q] BY <1>3, <2>2 DEF Moves
    <3>2. at[q].i \in Vms BY <3>1 DEF NInv, Place, Wellformed
    <3>3. stat[at[q].i] \in {"deleted", "gone"} BY <3>1 DEF NInv, Marked
    <3> QED BY <1>2, <3>1, <3>2, <3>3 DEF NInv, NTypeOK
  <2> QED BY <2>1, <2>2
<1>8. NoRow' BY <1>2 DEF NInv, NTypeOK, NoRow
<1>9. ConfFollows'
  <2>1. \A j \in Vms : ~Fresh(p, j) BY <1>2 DEF Fresh
  <2> QED BY <1>2, <1>3, <1>4, <2>1, ConfKept DEF NInv
<1>10. Hosts'
  <2>1. Unbound(p, i) BY <1>1, <1>2 DEF Unbound
  <2>2. i \notin vhost \ kept BY <2>1 DEF NInv, Hosts
  <2>3. \A j \in vhost \ kept : j \in Vms /\ j # i BY <2>2 DEF NInv, NTypeOK
  <2>4. \A j \in vhost \ kept : ~Unbound(p, j)' BY <1>3, <2>3 DEF Unbound
  <2> QED BY <1>2, <1>3, <1>4, <2>3, <2>4, HostsKept DEF NInv
<1>11. Ports'
  <2>1. \A r \in PortRows : ~AtRow(p, r) /\ ~Adding(p, r)' BY <1>2, <1>3 DEF AtRow, Adding
  <2> QED BY <1>2, <1>3, <2>1, PortsKept DEF NInv
<1>12. Counted' BY <1>2, <1>3, CountKept
<1> QED BY <1>5, <1>6, <1>7, <1>8, <1>9, <1>10, <1>11, <1>12 DEF NInv

-----------------------------------------------------------------------------
(* Port mappings.                                                          *)

LEMMA PortMappingAddInv ==
  ASSUME NInv, NEW p \in Servers, NEW i \in Vms, NEW a \in Ips, NEW lp \in LocalPorts,
         PortMappingAdd(p, i, a, lp)
  PROVE  NInv'
<1>1. PICK r \in PortRows : r = get_free_port BY FreeMapping DEF PortMappingAdd
<1> DEFINE d == <<a, lp>>
           x == [Resting EXCEPT !.next = "addPort", !.i = i, !.row = r, !.dest = d]
<1>2. d \in Destinations BY DEF Destinations
<1>3. at[p] = Resting /\ at' = [at EXCEPT ![p] = x] BY <1>1 DEF PortMappingAdd
<1> HIDE DEF d
<1>4. x \in NetRequests BY <1>2 DEF Resting, NetRequests, Stages, Afters
<1>5. x.next = "addPort" /\ x.then = "none" /\ x.i = i /\ x.row = r /\ x.dest = d
  BY DEF Resting
<1> HIDE DEF x
<1>6. Wellformed(x) BY <1>2, <1>5 DEF Wellformed, Update, RowStages
<1> QED BY <1>3, <1>4, <1>5, <1>6, BeginsReading DEF PortMappingAdd

LEMMA PortMappingDeleteInv ==
  ASSUME NInv, NEW p \in Servers, NEW i \in Vms, NEW r \in PortRows,
         PortMappingDelete(p, i, r)
  PROVE  NInv'
<1> DEFINE found == {k \in DOMAIN rules : rules[k][2] = port[r]}
           x == [Resting EXCEPT !.next = "freePort", !.i = i, !.row = r]
           y == [Resting EXCEPT !.next = "delRule", !.i = i, !.row = r,
                                !.dest = port[r], !.k = Min(found)]
<1>1. /\ at[p] = Resting
      /\ UNCHANGED <<stat, owner, conf, port, rules, vhost, doomed, half, bare, kept>>
      /\ \/ at' = [at EXCEPT ![p] = x]
         \/ found # {} /\ at' = [at EXCEPT ![p] = y]
  BY DEF PortMappingDelete
<1>2. found \subseteq Nat BY DEF NInv, NTypeOK
<1>3. found # {} => Min(found) \in Nat
  <2> HIDE DEF found
  <2> QED BY <1>2, MinIn
<1>4. port[r] \in Destinations \cup {Nobody} BY DEF NInv, NTypeOK
<1> HIDE DEF found
<1>5. /\ x \in NetRequests
      /\ found # {} => y \in NetRequests
  BY <1>3, <1>4 DEF Resting, NetRequests, Stages, Afters
<1>6. /\ x.next = "freePort" /\ x.then = "none" /\ x.i = i /\ x.row = r
      /\ y.next = "delRule" /\ y.then = "none" /\ y.i = i /\ y.row = r
  BY DEF Resting
<1> HIDE DEF x, y
<1>7. Wellformed(x) /\ Wellformed(y) BY <1>6 DEF Wellformed, Update, RowStages
<1>8. CASE at' = [at EXCEPT ![p] = x] BY <1>1, <1>5, <1>6, <1>7, <1>8, BeginsReading
<1>9. CASE found # {} /\ at' = [at EXCEPT ![p] = y]
  BY <1>1, <1>5, <1>6, <1>7, <1>9, BeginsReading
<1> QED BY <1>1, <1>8, <1>9

(* Steps that change a row of port_mapping or the rules.                   *)
LEMMA PortStep ==
  ASSUME NInv, NEW p \in Servers, at' \in [Servers -> NetRequests], Moves(p),
         Wellformed(at'[p]),
         UNCHANGED <<stat, owner, conf, vhost, doomed, half, kept>>,
         at[p].next \notin Update,
         at'[p].next \in RowStages \cup {"none"},
         port' \in [PortRows -> Destinations \cup {Nobody}],
         rules' \in Seq(PortRows \X Destinations), bare' \subseteq PortRows, Ports'
  PROVE  NInv'
<1>1. NTypeOK' BY DEF NInv, NTypeOK, HasRow
<1>2. Place' BY PlaceKept DEF NInv
<1>3. Marked' BY MarkedKept DEF NInv, RowStages
<1>4. NoRow' BY DEF NInv, NoRow
<1>5. ConfFollows'
  <2>1. \A j \in Vms : Exists(j)' => Exists(j) BY DEF Exists, HasRow
  <2>2. \A j \in Vms : ~Fresh(p, j) BY DEF Fresh, Update
  <2> QED BY <2>1, <2>2, ConfKept DEF NInv
<1>6. Hosts'
  <2>1. \A j \in vhost : Exists(j) => Exists(j)' BY DEF Exists, HasRow
  <2>2. \A j \in vhost : ~Unbound(p, j)' BY DEF Unbound, RowStages
  <2> QED BY <2>1, <2>2, HostsKept DEF NInv
<1>7. Counted' BY CountKept DEF RowStages
<1> QED BY <1>1, <1>2, <1>3, <1>4, <1>5, <1>6, <1>7 DEF NInv

LEMMA AddPortInv ==
  ASSUME NInv, NEW p \in Servers, AddPort(p)
  PROVE  NInv'
<1>1. PICK r \in PortRows, d \in Destinations : r = at[p].row /\ d = at[p].dest
  BY DEF AddPort, NInv, Place, Wellformed
<1>2. /\ at[p].next = "addPort" /\ Wellformed(at[p]) /\ at[p] \in NetRequests
      /\ port' = [port EXCEPT ![r] = d]
      /\ at' = [at EXCEPT ![p].next = "addRule", ![p].dest = Nobody]
      /\ UNCHANGED <<stat, owner, conf, rules, vhost, doomed, half, kept>>
  BY <1>1 DEF AddPort, NInv, Place, NTypeOK
<1>3. \/ bare' = bare \ {r} /\ \A q \in Servers : ~AtRow(q, r)
      \/ bare' = bare \cup {r}
  BY <1>1 DEF AddPort
<1>4. /\ at' \in [Servers -> NetRequests] /\ Moves(p) /\ Wellformed(at'[p])
      /\ at'[p].next = "addRule" /\ at'[p].row = r
  BY <1>1, <1>2
  DEF NInv, NTypeOK, NetRequests, Stages, Moves, Wellformed, Update, RowStages
<1>5. /\ port' \in [PortRows -> Destinations \cup {Nobody}] /\ bare' \subseteq PortRows
      /\ rules' \in Seq(PortRows \X Destinations)
  BY <1>2, <1>3 DEF NInv, NTypeOK
<1>6. \A s \in PortRows \ {r} : port'[s] = port[s] BY <1>2 DEF NInv, NTypeOK
<1>7. \A s \in Bound' \ bare' :
        /\ s \in PortRows
        /\ s # r => s \in Bound \ bare
        /\ s = r => \A q \in Servers : ~AtRow(q, r)
  BY <1>3, <1>6 DEF Bound
<1>8. Sole'
  <2> SUFFICES ASSUME NEW s \in Bound' \ bare', NEW q1 \in Servers, NEW q2 \in Servers,
                      Adding(q1, s)', Adding(q2, s)'
               PROVE  q1 = q2
    BY DEF Sole
  <2>1. CASE s = r
    BY <1>4, <1>7, <2>1 DEF Adding, AtRow, Moves
  <2>2. CASE s # r
    <3>1. q1 # p /\ q2 # p BY <1>4, <2>2 DEF Adding
    <3> QED BY <1>4, <1>7, <2>2, <3>1 DEF NInv, Ports, Sole, Adding, Moves
  <2> QED BY <2>1, <2>2
<1>9. Right'
  <2> SUFFICES ASSUME NEW q \in Servers, at'[q].next = "insert",
                      at'[q].row \in Bound' \ bare'
               PROVE  at'[q].dest = port'[at'[q].row]
    BY DEF Right
  <2>1. q # p /\ at'[q] = at[q] BY <1>4 DEF Moves
  <2>2. at[q].row # r BY <1>7, <2>1 DEF AtRow
  <2> QED BY <1>6, <1>7, <2>1, <2>2 DEF NInv, Ports, Right
<1>10. MappingIsServed'
  <2> SUFFICES ASSUME NEW s \in Bound' \ bare', ~Served(s)'
               PROVE  \E q \in Servers : AtRow(q, s)'
    BY DEF MappingIsServed
  <2>1. CASE s = r BY <1>4, <2>1 DEF AtRow
  <2>2. CASE s # r
    <3>1. ~Served(s) BY <1>2, <1>6, <1>7, <2>2 DEF Served
    <3>2. PICK q \in Servers : AtRow(q, s) BY <1>7, <2>2, <3>1 DEF NInv, Ports, MappingIsServed
    <3>3. q # p BY <1>2, <3>2 DEF AtRow
    <3> QED BY <1>4, <3>2, <3>3 DEF AtRow, Moves
  <2> QED BY <2>1, <2>2
<1>11. Ports' BY <1>8, <1>9, <1>10 DEF Ports
<1> QED BY <1>2, <1>4, <1>5, <1>11, PortStep DEF RowStages, Update

LEMMA binding_iptablesInv ==
  ASSUME NInv, NEW p \in Servers, binding_iptables(p)
  PROVE  NInv'
<1>1. PICK r \in PortRows : r = at[p].row
  BY DEF binding_iptables, NInv, Place, Wellformed, RowStages
<1>2. /\ at[p].next = "addRule" /\ Wellformed(at[p]) /\ at[p] \in NetRequests
      /\ UNCHANGED <<stat, owner, conf, port, rules, vhost, doomed, half, kept>>
  BY DEF binding_iptables, NInv, Place, NTypeOK
<1>3. port[r] \in Destinations \cup {Nobody} BY DEF NInv, NTypeOK
<1>4. /\ at' \in [Servers -> NetRequests] /\ Moves(p) /\ Wellformed(at'[p])
      /\ bare \subseteq bare' /\ bare' \subseteq PortRows
      /\ \/ at'[p].next = "none" /\ (port[r] = Nobody \/ r \in bare')
         \/ at'[p].next = "insert" /\ at'[p].row = r /\ at'[p].dest = port[r]
  <2>1. CASE Done(p) /\ bare' \in {bare, bare \cup {r}} /\ (port[r] = Nobody \/ r \in bare')
    <3>1. bare \subseteq bare' /\ bare' \subseteq PortRows BY <2>1 DEF NInv, NTypeOK
    <3> QED BY <2>1, <3>1, Rests DEF NInv
  <2>2. CASE /\ port[r] # Nobody /\ bare' = bare
             /\ at' = [at EXCEPT ![p].next = "insert", ![p].dest = port[r]]
    <3>1. port[r] \in Destinations BY <1>3, <2>2
    <3>2. bare \subseteq bare' /\ bare' \subseteq PortRows BY <2>2 DEF NInv, NTypeOK
    <3> QED BY <1>1, <1>2, <2>2, <3>1, <3>2
        DEF NInv, NTypeOK, NetRequests, Stages, Moves, Wellformed, Update, RowStages
  <2> QED BY <1>1, <2>1, <2>2 DEF binding_iptables
<1>5. Ports'
  <2>1. \A s \in PortRows \ bare' : s \in Bound /\ AtRow(p, s) => AtRow(p, s)'
    BY <1>1, <1>4 DEF AtRow, Bound
  <2>2. \A s \in PortRows : Adding(p, s)' => Adding(p, s)
    BY <1>1, <1>2, <1>4 DEF Adding
  <2> QED BY <1>2, <1>4, <2>1, <2>2, PortsKept DEF NInv
<1>6. /\ port' \in [PortRows -> Destinations \cup {Nobody}]
      /\ rules' \in Seq(PortRows \X Destinations)
  BY <1>2 DEF NInv, NTypeOK
<1> QED BY <1>2, <1>4, <1>5, <1>6, PortStep DEF RowStages, Update

(* The chain after a rule has been put before the others.                  *)
LEMMA ServedByFirst ==
  ASSUME NInv, NEW e \in PortRows \X Destinations, rules' = Cons(e, rules), port' = port,
         NEW r \in PortRows
  PROVE  /\ rules' \in Seq(PortRows \X Destinations)
         /\ e = <<r, port[r]>> => Served(r)'
         /\ Served(r) /\ e[1] # r => Served(r)'
<1>1. rules \in Seq(PortRows \X Destinations) BY DEF NInv, NTypeOK
<1>2. /\ rules' \in Seq(PortRows \X Destinations) /\ Len(rules') = Len(rules) + 1
      /\ rules'[1] = e /\ \A k \in 1..Len(rules) : rules'[k + 1] = rules[k]
  BY <1>1 DEF Cons
<1>3. DOMAIN rules' = 1..(Len(rules) + 1) /\ DOMAIN rules = 1..Len(rules) /\ Len(rules) \in Nat
  BY <1>1, <1>2
<1>4. ASSUME e = <<r, port[r]>> PROVE Served(r)'
  <2>1. 1 \in DOMAIN rules' /\ rules'[1] = <<r, port'[r]>> BY <1>2, <1>3, <1>4
  <2> QED BY <2>1 DEF Served
<1>5. ASSUME Served(r), e[1] # r PROVE Served(r)'
  <2>1. PICK k \in DOMAIN rules :
          rules[k] = <<r, port[r]>> /\ \A j \in 1..(k - 1) : rules[j][1] # r
    BY <1>5 DEF Served
  <2>2. k + 1 \in DOMAIN rules' /\ rules'[k + 1] = <<r, port'[r]>> BY <1>2, <1>3, <2>1
  <2>3. ASSUME NEW j \in 1..((k + 1) - 1) PROVE rules'[j][1] # r
    <3>1. CASE j = 1 BY <1>2, <1>5, <3>1
    <3>2. CASE j # 1
      <4>1. j - 1 \in 1..(k - 1) /\ j - 1 \in 1..Len(rules) BY <1>3, <3>2
      <4>2. rules'[(j - 1) + 1] = rules[j - 1] BY <1>2, <4>1
      <4>3. (j - 1) + 1 = j OBVIOUS
      <4> QED BY <2>1, <4>1, <4>2, <4>3
    <3> QED BY <3>1, <3>2
  <2> QED BY <2>2, <2>3 DEF Served
<1> QED BY <1>2, <1>4, <1>5

(* The chain after a rule of another row has been removed.                 *)
LEMMA ServedWithout ==
  ASSUME NInv, NEW k \in DOMAIN rules, rules' = RemoveAt(rules, k), port' = port,
         NEW r \in PortRows
  PROVE  /\ rules' \in Seq(PortRows \X Destinations)
         /\ Served(r) /\ rules[k][1] # r => Served(r)'
<1>1. rules \in Seq(PortRows \X Destinations) BY DEF NInv, NTypeOK
<1>2. k \in 1..Len(rules) /\ Len(rules) \in Nat /\ k \in Nat BY <1>1
<1> DEFINE front == SubSeq(rules, 1, k - 1)
           back == SubSeq(rules, k + 1, Len(rules))
<1>3. /\ front \in Seq(PortRows \X Destinations) /\ Len(front) = k - 1
      /\ \A j \in 1..(k - 1) : front[j] = rules[j]
  BY <1>1, <1>2
<1>4. /\ back \in Seq(PortRows \X Destinations) /\ Len(back) = Len(rules) - k
      /\ \A j \in 1..(Len(rules) - k) : back[j] = rules[j + k]
  BY <1>1, <1>2
<1>5. rules' = front \o back BY DEF RemoveAt
<1> HIDE DEF front, back
<1>6. /\ rules' \in Seq(PortRows \X Destinations) /\ Len(rules') = Len(rules) - 1
      /\ \A j \in 1..(k - 1) : rules'[j] = front[j]
      /\ \A j \in k..(Len(rules) - 1) : rules'[j] = back[j - (k - 1)]
  BY <1>2, <1>3, <1>4, <1>5
<1>7. \A j \in 1..(k - 1) : rules'[j] = rules[j] BY <1>3, <1>6
<1>8. ASSUME NEW j \in k..(Len(rules) - 1) PROVE rules'[j] = rules[j + 1]
  <2>1. j - (k - 1) \in 1..(Len(rules) - k) /\ (j - (k - 1)) + k = j + 1 BY <1>2
  <2> QED BY <1>4, <1>6, <2>1
<1>9. DOMAIN rules' = 1..(Len(rules) - 1) /\ DOMAIN rules = 1..Len(rules) BY <1>1, <1>6
<1>10. ASSUME Served(r), rules[k][1] # r PROVE Served(r)'
  <2>1. PICK m \in DOMAIN rules :
          rules[m] = <<r, port[r]>> /\ \A j \in 1..(m - 1) : rules[j][1] # r
    BY <1>10 DEF Served
  <2>2. m # k /\ m \in Nat BY <1>9, <1>10, <2>1
  <2>3. CASE m < k
    <3>1. m \in DOMAIN rules' /\ rules'[m] = <<r, port'[r]>>
      BY <1>2, <1>7, <1>9, <2>1, <2>3
    <3>2. \A j \in 1..(m - 1) : rules'[j][1] # r BY <1>2, <1>7, <2>1, <2>2, <2>3
    <3> QED BY <3>1, <3>2 DEF Served
  <2>4. CASE m > k
    <3>1. m - 1 \in k..(Len(rules) - 1) /\ (m - 1) + 1 = m /\ m - 1 \in DOMAIN rules'
      BY <1>2, <1>9, <2>2, <2>4
    <3>2. rules'[m - 1] = <<r, port'[r]>> BY <1>8, <2>1, <3>1
    <3>3. ASSUME NEW j \in 1..((m - 1) - 1) PROVE rules'[j][1] # r
      <4>1. CASE j < k
        <5>1. j \in 1..(k - 1) /\ j \in 1..(m - 1) BY <1>2, <2>2, <4>1
        <5> QED BY <1>7, <2>1, <5>1
      <4>2. CASE j >= k
        <5>1. j \in k..(Len(rules) - 1) /\ j + 1 \in 1..(m - 1) BY <1>2, <1>9, <2>2, <4>2
        <5> QED BY <1>8, <2>1, <5>1
      <4> QED BY <1>2, <4>1, <4>2
    <3> QED BY <3>1, <3>2, <3>3 DEF Served
  <2> QED BY <1>2, <2>2, <2>3, <2>4
<1> QED BY <1>6, <1>10

LEMMA InsertRuleInv ==
  ASSUME NInv, NEW p \in Servers, InsertRule(p)
  PROVE  NInv'
<1>1. PICK r \in PortRows, d \in Destinations : r = at[p].row /\ d = at[p].dest
  BY DEF InsertRule, NInv, Place, Wellformed, RowStages
<1>2. /\ at[p].next = "insert" /\ Done(p)
      /\ UNCHANGED <<stat, owner, conf, port, vhost, doomed, half, kept>>
  BY DEF InsertRule
<1>3. /\ at' \in [Servers -> NetRequests] /\ Moves(p) /\ Wellformed(at'[p])
      /\ at'[p].next = "none"
  BY <1>2, Rests DEF NInv
<1>4. port' \in [PortRows -> Destinations \cup {Nobody}] BY <1>2 DEF NInv, NTypeOK
<1>5. CASE bare' = bare \cup {r} /\ rules' = rules
  <2>1. \A s \in PortRows \ bare' : ~AtRow(p, s) BY <1>1, <1>5 DEF AtRow
  <2>2. \A s \in PortRows : ~Adding(p, s)' BY <1>3 DEF Adding
  <2>3. Ports' BY <1>2, <1>3, <1>5, <2>1, <2>2, PortsKept DEF NInv
  <2>4. bare' \subseteq PortRows /\ rules' \in Seq(PortRows \X Destinations)
    BY <1>5 DEF NInv, NTypeOK
  <2> QED BY <1>2, <1>3, <1>4, <2>3, <2>4, PortStep DEF RowStages, Update
<1>6. CASE bare' = bare /\ rules' = Cons(<<r, d>>, rules)
  <2> DEFINE e == <<r, d>>
  <2>1. e \in PortRows \X Destinations /\ e[1] = r OBVIOUS
  <2>2. e = <<r, port[r]>> \/ r \notin Bound \ bare
    BY <1>1, <1>2 DEF NInv, Ports, Right
  <2>3. rules' = Cons(e, rules) BY <1>6
  <2> HIDE DEF e
  <2>4. rules' \in Seq(PortRows \X Destinations) BY <1>1, <1>2, <2>1, <2>3, ServedByFirst
  <2>5. Bound' = Bound BY <1>2 DEF Bound
  <2>6. Sole' BY <1>3, <1>6, <2>5 DEF NInv, Ports, Sole, Adding, Moves
  <2>7. Right' BY <1>2, <1>3, <1>6, <2>5 DEF NInv, Ports, Right, Moves
  <2>8. MappingIsServed'
    <3> SUFFICES ASSUME NEW s \in Bound \ bare, ~Served(s)'
                 PROVE  \E q \in Servers : AtRow(q, s)'
      BY <1>6, <2>5 DEF MappingIsServed
    <3>1. s \in PortRows BY DEF Bound
    <3>2. s # r BY <1>2, <2>1, <2>2, <2>3, <3>1, ServedByFirst
    <3>3. ~Served(s) BY <1>2, <2>1, <2>3, <3>1, <3>2, ServedByFirst
    <3>4. PICK q \in Servers : AtRow(q, s) BY <3>3 DEF NInv, Ports, MappingIsServed
    <3>5. q # p BY <1>1, <3>2, <3>4 DEF AtRow
    <3> QED BY <1>3, <3>4, <3>5 DEF AtRow, Moves
  <2>9. Ports' BY <2>6, <2>7, <2>8 DEF Ports
  <2>10. bare' \subseteq PortRows BY <1>6 DEF NInv, NTypeOK
  <2> QED BY <1>2, <1>3, <1>4, <2>4, <2>9, <2>10, PortStep DEF RowStages, Update
<1> QED BY <1>1, <1>5, <1>6 DEF InsertRule

LEMMA DeleteRuleInv ==
  ASSUME NInv, NEW p \in Servers, DeleteRule(p)
  PROVE  NInv'
<1>1. PICK r \in PortRows : r = at[p].row
  BY DEF DeleteRule, NInv, Place, Wellformed
<1>2. /\ at[p].next = "delRule" /\ Wellformed(at[p]) /\ at[p] \in NetRequests
      /\ at' = [at EXCEPT ![p].next = "freePort"]
      /\ UNCHANGED <<stat, owner, conf, port, vhost, doomed, half, kept>>
  BY DEF DeleteRule, NInv, Place, NTypeOK
<1>3. /\ at' \in [Servers -> NetRequests] /\ Moves(p) /\ Wellformed(at'[p])
      /\ at'[p].next = "freePort" /\ at'[p].row = r
  BY <1>1, <1>2
  DEF NInv, NTypeOK, NetRequests, Stages, Moves, Wellformed, Update, RowStages
<1>4. port' \in [PortRows -> Destinations \cup {Nobody}] BY <1>2 DEF NInv, NTypeOK
<1>5. /\ \A s \in PortRows : ~AtRow(p, s) /\ ~Adding(p, s)'
      /\ AtRow(p, r)'
  BY <1>2, <1>3 DEF AtRow, Adding
<1>6. CASE UNCHANGED <<rules, bare>>
  <2>1. Ports' BY <1>2, <1>3, <1>5, <1>6, PortsKept DEF NInv
  <2>2. bare' \subseteq PortRows /\ rules' \in Seq(PortRows \X Destinations)
    BY <1>6 DEF NInv, NTypeOK
  <2> QED BY <1>2, <1>3, <1>4, <2>1, <2>2, PortStep DEF RowStages, Update
<1>7. CASE \E k \in DOMAIN rules :
             /\ rules' = RemoveAt(rules, k)
             /\ bare' = IF rules[k] = <<r, at[p].dest>> THEN bare ELSE bare \cup {rules[k][1]}
  <2>1. PICK k \in DOMAIN rules :
          /\ rules' = RemoveAt(rules, k)
          /\ bare' = IF rules[k] = <<r, at[p].dest>> THEN bare ELSE bare \cup {rules[k][1]}
    BY <1>7
  <2>2. rules[k] \in PortRows \X Destinations BY DEF NInv, NTypeOK
  <2>3. PICK s0 \in PortRows : s0 = rules[k][1] BY <2>2
  <2>4. bare \subseteq bare' /\ bare' \subseteq PortRows /\ (s0 \in bare' \/ s0 = r)
    BY <2>1, <2>3 DEF NInv, NTypeOK
  <2>5. rules' \in Seq(PortRows \X Destinations) BY <1>1, <1>2, <2>1, ServedWithout
  <2>6. Bound' = Bound /\ Bound \subseteq PortRows BY <1>2 DEF Bound
  <2>7. \A q \in Servers, s \in PortRows : Adding(q, s)' => Adding(q, s)
    BY <1>3, <1>5 DEF Adding, Moves
  <2>8. Sole' BY <2>4, <2>6, <2>7 DEF NInv, Ports, Sole
  <2>9. Right' BY <1>2, <1>3, <2>4, <2>6 DEF NInv, Ports, Right, Moves
  <2>10. MappingIsServed'
    <3> SUFFICES ASSUME NEW s \in Bound \ bare', ~Served(s)'
                 PROVE  \E q \in Servers : AtRow(q, s)'
      BY <2>6 DEF MappingIsServed
    <3>1. s \in PortRows /\ s \notin bare BY <2>4, <2>6
    <3>2. CASE s = r BY <1>5, <3>2
    <3>3. CASE s # r
      <4>1. s # rules[k][1] BY <2>3, <2>4, <3>3
      <4>2. ~Served(s) BY <1>2, <2>1, <3>1, <4>1, ServedWithout
      <4>3. PICK q \in Servers : AtRow(q, s) BY <3>1, <4>2 DEF NInv, Ports, MappingIsServed
      <4>4. q # p BY <1>5, <3>1, <4>3
      <4> QED BY <1>3, <4>3, <4>4 DEF AtRow, Moves
    <3> QED BY <3>2, <3>3
  <2>11. Ports' BY <2>8, <2>9, <2>10 DEF Ports
  <2> QED BY <1>2, <1>3, <1>4, <2>4, <2>5, <2>11, PortStep DEF RowStages, Update
<1> QED BY <1>1, <1>6, <1>7 DEF DeleteRule

LEMMA FreePortInv ==
  ASSUME NInv, NEW p \in Servers, FreePort(p)
  PROVE  NInv'
<1>1. PICK r \in PortRows : r = at[p].row
  BY DEF FreePort, NInv, Place, Wellformed, RowStages
<1>2. /\ at[p].next = "freePort" /\ Done(p) /\ port' = [port EXCEPT ![r] = Nobody]
      /\ UNCHANGED <<stat, owner, conf, rules, vhost, doomed, half, bare, kept>>
  BY <1>1 DEF FreePort
<1>3. /\ at' \in [Servers -> NetRequests] /\ Moves(p) /\ Wellformed(at'[p])
      /\ at'[p].next = "none"
  BY <1>2, Rests DEF NInv
<1>4. port' = [s \in PortRows |-> IF s \in {r} THEN Nobody ELSE port[s]]
  BY <1>2 DEF NInv, NTypeOK
<1>5. {r} \in SUBSET PortRows /\ \A s \in PortRows : AtRow(p, s) => s \in {r}
  BY <1>1 DEF AtRow
<1>6. Ports' BY <1>2, <1>3, <1>4, <1>5, PortsFreed
<1>7. /\ port' \in [PortRows -> Destinations \cup {Nobody}] /\ bare' \subseteq PortRows
      /\ rules' \in Seq(PortRows \X Destinations)
  BY <1>2 DEF NInv, NTypeOK
<1> QED BY <1>2, <1>3, <1>6, <1>7, PortStep DEF RowStages, Update

-----------------------------------------------------------------------------
(* Requests that end early, and clc.                                       *)

LEMMA RequestFailsInv ==
  ASSUME NInv, NEW p \in Servers, RequestFails(p)
  PROVE  NInv'
<1>1. /\ Done(p) /\ UNCHANGED <<stat, owner, conf, port, rules, vhost, doomed, kept>>
      /\ bare' = bare \cup {r \in PortRows : AtRow(p, r)}
      /\ half' \in {half, half \cup {at[p].i}}
      /\ at[p].next \in Update /\ conf[at[p].i] # ips(at[p].i) => at[p].i \in half'
  BY DEF RequestFails, Update
<1>2. /\ at' \in [Servers -> NetRequests] /\ Moves(p) /\ Wellformed(at'[p])
      /\ at'[p].next = "none"
  BY <1>1, Rests DEF NInv
<1>3. half \subseteq half' /\ half' \subseteq Vms
  <2>1. CASE at[p].next \in Update
    <3>1. at[p].i \in Vms BY <2>1 DEF NInv, Place, Wellformed, Update
    <3> QED BY <1>1, <3>1 DEF NInv, NTypeOK
  <2>2. CASE at[p].next \notin Update
    BY <2>2 DEF RequestFails, NInv, NTypeOK, Update
  <2> QED BY <2>1, <2>2
<1>4. NTypeOK'
  <2>1. \A a \in Ips : owner[a] # Nobody => HasRow(owner[a])'
    BY <1>1 DEF NInv, NTypeOK, HasRow
  <2> QED BY <1>1, <1>2, <1>3, <2>1 DEF NInv, NTypeOK
<1>5. Place' BY <1>2, PlaceKept DEF NInv
<1>6. Marked' BY <1>1, <1>2, MarkedKept DEF NInv
<1>7. NoRow' BY <1>1 DEF NInv, NoRow
<1>8. ConfFollows'
  <2>1. \A j \in Vms : Exists(j)' => Exists(j) BY <1>1 DEF Exists, HasRow
  <2>2. \A j \in Vms \ half' : Fresh(p, j) => conf[j] = ips(j)
    BY <1>1 DEF Fresh, Update
  <2> QED BY <1>1, <1>2, <1>3, <2>1, <2>2, ConfKept DEF NInv
<1>9. Hosts'
  <2>1. \A j \in vhost : Exists(j) => Exists(j)' BY <1>1 DEF Exists, HasRow
  <2>2. \A j \in vhost : ~Unbound(p, j)' BY <1>1, Rests DEF NInv, Unbound
  <2> QED BY <1>1, <1>2, <2>1, <2>2, HostsKept DEF NInv
<1>10. Ports'
  <2>1. \A r \in PortRows \ bare' : ~AtRow(p, r) BY <1>1
  <2>2. \A r \in PortRows : ~Adding(p, r)' BY <1>2 DEF Adding
  <2> QED BY <1>1, <1>2, <2>1, <2>2, PortsKept DEF NInv
<1>11. Counted' BY <1>1, <1>2, CountKept
<1> QED BY <1>4, <1>5, <1>6, <1>7, <1>8, <1>9, <1>10, <1>11 DEF NInv

LEMMA ClcInv ==
  ASSUME NInv, Clc
  PROVE  NInv'
<1>1. PICK i \in Vms : ClcStatus(i) \/ ClcDestroyed(i) BY DEF Clc
<1>2. UNCHANGED <<owner, port, rules, vhost, at, bare, kept>>
  BY <1>1 DEF ClcStatus, ClcDestroyed
<1>3. PICK s \in {"stop", "run", "gone"} : stat' = [stat EXCEPT ![i] = s]
  BY <1>1 DEF ClcStatus, ClcDestroyed
<1>4. /\ s # "gone" => Exists(i)
      /\ s = "gone" => stat[i] = "deleted" /\ ips(i) = {}
      /\ s # "gone" => conf' = conf /\ half' = half /\ doomed' = doomed
      /\ s = "gone" => /\ conf' = [conf EXCEPT ![i] = {}]
                       /\ half' = half \ {i} /\ doomed' = doomed \ {i}
  <2>1. CASE ClcStatus(i)
    <3>1. stat'[i] \in {"stop", "run"} /\ Exists(i)
          /\ conf' = conf /\ half' = half /\ doomed' = doomed
      BY <2>1 DEF ClcStatus, NInv, NTypeOK
    <3> QED BY <1>3, <3>1 DEF NInv, NTypeOK
  <2>2. CASE ClcDestroyed(i)
    <3>1. /\ stat'[i] = "gone" /\ stat[i] = "deleted" /\ ips(i) = {}
          /\ conf' = [conf EXCEPT ![i] = {}]
          /\ half' = half \ {i} /\ doomed' = doomed \ {i}
      BY <2>2 DEF ClcDestroyed, NInv, NTypeOK
    <3> QED BY <1>3, <3>1 DEF NInv, NTypeOK
  <2> QED BY <1>1, <2>1, <2>2
<1>5. \A j \in Vms : /\ Exists(j)' <=> Exists(j)
                     /\ j # i => stat'[j] = stat[j] /\ conf'[j] = conf[j]
  BY <1>3, <1>4 DEF NInv, NTypeOK, Exists, HasRow
<1>6. NTypeOK'
  <2>1. /\ stat' \in [Vms -> {"none", "stop", "run", "deleted", "gone"}]
        /\ conf' \in [Vms -> SUBSET Ips] /\ half' \subseteq Vms /\ doomed' \subseteq Vms
    BY <1>3, <1>4 DEF NInv, NTypeOK
  <2>2. ASSUME NEW a \in Ips, owner[a] # Nobody PROVE HasRow(owner[a])'
    <3>1. owner[a] \in Vms /\ HasRow(owner[a]) BY <2>2 DEF NInv, NTypeOK
    <3>2. owner[a] = i => s # "gone" BY <1>4 DEF ips
    <3> QED BY <1>2, <1>3, <1>5, <3>1, <3>2 DEF NInv, NTypeOK, HasRow
  <2> QED BY <1>2, <2>1, <2>2 DEF NInv, NTypeOK
<1>7. Place' BY <1>2 DEF NInv, Place, Wellformed
<1>8. Marked'
  <2> SUFFICES ASSUME NEW q \in Servers, at[q].next \in {"free", "freeCommit"}
               PROVE  stat'[at[q].i] \in {"deleted", "gone"}
    BY <1>2 DEF Marked
  <2>1. at[q].i \in Vms /\ stat[at[q].i] \in {"deleted", "gone"}
    BY DEF NInv, Place, Wellformed, Marked
  <2>2. at[q].i = i => s = "gone" BY <1>4, <2>1 DEF Exists, HasRow
  <2> QED BY <1>3, <1>5, <2>1, <2>2 DEF NInv, NTypeOK
<1>9. NoRow' BY <1>3, <1>5 DEF NInv, NTypeOK, NoRow
<1>10. ConfFollows'
  <2> SUFFICES ASSUME NEW j \in Vms, j \notin half', Exists(j)', conf'[j] # ips(j)'
               PROVE  \E q \in Servers : Fresh(q, j)'
    BY DEF ConfFollows
  <2>1. ips(j)' = ips(j) /\ Exists(j) BY <1>2, <1>5 DEF ips
  <2>2. s = "gone" => j # i BY <1>4, <2>1 DEF Exists, HasRow
  <2>3. conf'[j] = conf[j] /\ j \notin half BY <1>4, <1>5, <2>2
  <2>4. PICK q \in Servers : Fresh(q, j) BY <2>1, <2>3 DEF NInv, ConfFollows
  <2> QED BY <1>2, <2>1, <2>4 DEF Fresh
<1>11. Hosts' BY <1>2, <1>5 DEF NInv, NTypeOK, Hosts, Unbound
<1>12. Ports'
  <2>1. Bound' = Bound BY <1>2 DEF Bound
  <2> QED BY <1>2, <2>1
      DEF NInv, Ports, Sole, Right, MappingIsServed, Adding, AtRow, Served
<1>13. Counted'
  <2>1. \A j \in Vms : ips(j)' = ips(j) /\ Pend(j)' = Pend(j) BY <1>2 DEF ips, Pend
  <2> QED BY <2>1, Fewer DEF NInv
<1> QED BY <1>6, <1>7, <1>8, <1>9, <1>10, <1>11, <1>12, <1>13 DEF NInv

-----------------------------------------------------------------------------
LEMMA NInitInv == NInit => NInv
<1> SUFFICES ASSUME NInit PROVE NInv OBVIOUS
<1>1. Resting \in NetRequests /\ Resting.next = "none" /\ Resting.then = "none"
  BY DEF Resting, NetRequests, Stages, Afters
<1>2. \A p \in Servers : at[p] = Resting BY DEF NInit
<1>3. NTypeOK
  <2>1. /\ stat \in [Vms -> {"none", "stop", "run", "deleted", "gone"}]
        /\ owner \in [Ips -> Vms \cup {Nobody}] /\ conf \in [Vms -> SUBSET Ips]
        /\ port \in [PortRows -> Destinations \cup {Nobody}]
        /\ rules \in Seq(PortRows \X Destinations)
    BY DEF NInit
  <2>2. at \in [Servers -> NetRequests] BY <1>1 DEF NInit
  <2> QED BY <2>1, <2>2 DEF NInit, NTypeOK
<1>4. Place BY <1>1, <1>2 DEF Place, Wellformed, Update, RowStages
<1>5. Marked BY <1>1, <1>2 DEF Marked
<1>6. NoRow BY DEF NInit, NoRow
<1>7. ConfFollows BY DEF NInit, ConfFollows, Exists, HasRow
<1>8. Hosts BY DEF NInit, Hosts
<1>9. Ports
  <2>1. Bound = {} BY DEF NInit, Bound
  <2> QED BY <1>1, <1>2, <2>1 DEF Ports, Sole, Right, MappingIsServed
<1>10. Counted
  <2>1. \A i \in Vms : ips(i) = {} BY NobodyAssumption DEF NInit, ips
  <2>2. \A i \in Vms : Pend(i) = {} BY <1>1, <1>2 DEF Pend
  <2>3. Cardinality({}) = 0 /\ Cardinality(Servers) \in Nat
    BY AddressAssumption, FS_EmptySet, FS_CardinalityType
  <2> SUFFICES ASSUME NEW i \in Vms
               PROVE  Cardinality(ips(i)) + Cardinality(Pend(i))
                        <= max_network + Cardinality(Servers) - 1
    BY DEF Counted
  <2>4. Cardinality(ips(i)) = 0 /\ Cardinality(Pend(i)) = 0 BY <2>1, <2>2, <2>3
  <2> QED BY <2>3, <2>4 DEF max_network
<1> QED BY <1>3, <1>4, <1>5, <1>6, <1>7, <1>8, <1>9, <1>10 DEF NInv

LEMMA NNextInv ==
  ASSUME NInv, [NNext]_nvars
  PROVE  NInv'
<1>1. ASSUME NEW p \in Servers, AddressRequests(p) PROVE NInv'
  <2>1. ASSUME NEW i \in Vms, \/ InstanceCreate(p, i) \/ SetConfig(p, i) \/ LifeRun(p, i)
                              \/ LifeStop(p, i) \/ InstanceDelete(p, i)
        PROVE  NInv'
    BY <2>1, InstanceCreateInv, SetConfigInv, LifeRunInv, UnbindInv
  <2>2. ASSUME NEW i \in Vms, NEW pool \in NetPools, NetworkAdd(p, i, pool) PROVE NInv'
    BY <2>2, NetworkAddInv
  <2>3. ASSUME NEW a \in Ips, NetworkDelete(p, a) PROVE NInv' BY <2>3, NetworkDeleteInv
  <2>4. ASSUME \/ set_ip(p) \/ TakeIp(p) \/ DropIp(p) \/ update_network(p)
               \/ CommitNetwork(p) \/ set_secret(p) \/ SaveConfig(p)
        PROVE  NInv'
    BY <2>4, set_ipInv, TakeIpInv, DropIpInv, update_networkInv, CommitNetworkInv,
       set_secretInv, SaveConfigInv
  <2>5. ASSUME \/ binding_domain(p) \/ unbinding_domain(p) \/ DeleteMark(p)
               \/ DeleteRead(p) \/ DeleteFree(p)
        PROVE  NInv'
    BY <2>5, binding_domainInv, unbinding_domainInv, DeleteMarkInv, DeleteReadInv,
       DeleteFreeInv
  <2> QED BY <1>1, <2>1, <2>2, <2>3, <2>4, <2>5 DEF AddressRequests
<1>2. ASSUME NEW p \in Servers, PortRequests(p) PROVE NInv'
  <2>1. ASSUME NEW i \in Vms, NEW a \in Ips, NEW lp \in LocalPorts,
               PortMappingAdd(p, i, a, lp)
        PROVE  NInv'
    BY <2>1, PortMappingAddInv
  <2>2. ASSUME NEW i \in Vms, NEW r \in PortRows, PortMappingDelete(p, i, r) PROVE NInv'
    BY <2>2, PortMappingDeleteInv
  <2>3. ASSUME \/ AddPort(p) \/ binding_iptables(p) \/ InsertRule(p)
               \/ DeleteRule(p) \/ FreePort(p)
        PROVE  NInv'
    BY <2>3, AddPortInv, binding_iptablesInv, InsertRuleInv, DeleteRuleInv, FreePortInv
  <2> QED BY <1>2, <2>1, <2>2, <2>3 DEF PortRequests
<1>3. ASSUME NEW p \in Servers, RequestFails(p) PROVE NInv' BY <1>3, RequestFailsInv
<1>4. ASSUME Clc PROVE NInv' BY <1>4, ClcInv
<1>5. ASSUME UNCHANGED nvars PROVE NInv'
  <2>1. UNCHANGED <<stat, owner, conf, port, rules, vhost, at, doomed, half, bare, kept>>
    BY <1>5 DEF nvars
  <2>2. \A i \in Vms : /\ (HasRow(i)' <=> HasRow(i)) /\ (Exists(i)' <=> Exists(i))
                       /\ ips(i)' = ips(i) /\ Pend(i)' = Pend(i)
    BY <2>1 DEF HasRow, Exists, ips, Pend
  <2>3. NTypeOK' /\ Place' /\ Marked' /\ NoRow'
    BY <2>1 DEF NInv, NTypeOK, HasRow, Place, Wellformed, Marked, NoRow
  <2>4. ConfFollows' BY <2>1, <2>2 DEF NInv, ConfFollows, Fresh
  <2>5. Hosts' BY <2>1, <2>2 DEF NInv, NTypeOK, Hosts, Unbound
  <2>6. Bound' = Bound BY <2>1 DEF Bound
  <2>7. Ports'
    BY <2>1, <2>6 DEF NInv, Ports, Sole, Right, MappingIsServed, Adding, AtRow, Served
  <2>8. Counted' BY <2>2, Fewer DEF NInv
  <2> QED BY <2>3, <2>4, <2>5, <2>7, <2>8 DEF NInv
<1> QED BY <1>1, <1>2, <1>3, <1>4, <1>5 DEF NNext

-----------------------------------------------------------------------------
(* The inductive invariant holds in every reachable state, for any number  *)
(* of server processes.                                                    *)
THEOREM NetworkInvariance == NSpec => []NInv
<1>1. NInit => NInv BY NInitInv
<1>2. NInv /\ [NNext]_nvars => NInv' BY NNextInv
<1> QED BY <1>1, <1>2, PTL DEF NSpec

(* Types, and that an address belongs to an instance whose row exists: clc *)
(* deletes no row that a request, begun before, has given an address.      *)
THEOREM NetworkTypeCorrect == NSpec => []NTypeOK
<1>1. NInv => NTypeOK BY DEF NInv
<1> QED BY <1>1, NetworkInvariance, PTL

(* The config column of an instance names the addresses it owns, or a      *)
(* request is at its update_network, unless one of the accidents that      *)
(* `half` records has happened: with any number of processes nothing else  *)
(* parts the two.                                                          *)
THEOREM ConfigAlwaysMatches == NSpec => []ConfigMatches
<1>1. NInv => ConfigMatches BY DEF NInv, ConfFollows, Fresh, ConfigMatches
<1> QED BY <1>1, NetworkInvariance, PTL

(* An instance has at most max_network addresses and one more for each     *)
(* other process: the check of NetworkAdd and its commit may be parted by  *)
(* any steps of other requests.                                            *)
THEOREM NetworkOvershootHolds == NSpec => []NetworkOvershoot
<1>1. ASSUME NInv PROVE NetworkOvershoot
  <2> SUFFICES ASSUME NEW i \in Vms
               PROVE  Cardinality(ips(i)) <= max_network + Cardinality(Servers) - 1
    BY DEF NetworkOvershoot
  <2>1. IsFiniteSet(ips(i)) /\ IsFiniteSet(Pend(i))
    BY AddressAssumption, FS_Subset DEF ips, Pend
  <2>2. /\ Cardinality(ips(i)) \in Nat /\ Cardinality(Pend(i)) \in Nat
        /\ Cardinality(Servers) \in Nat
    BY <2>1, AddressAssumption, FS_CardinalityType
  <2>3. Cardinality(ips(i)) + Cardinality(Pend(i)) <= max_network + Cardinality(Servers) - 1
    BY <1>1 DEF NInv, Counted
  <2> QED BY <2>2, <2>3 DEF max_network
<1> QED BY <1>1, NetworkInvariance, PTL

(* The rule that iptables follows for the gateway port of a mapping leads  *)
(* to the destination the database has, unless the accidents that `bare`   *)
(* records have happened to the row: rules that deleted instances leave    *)
(* behind never come before the rule of a later mapping of their port.     *)
THEOREM MappingsAreServed == NSpec => []MappingIsServed
<1>1. NInv => MappingIsServed BY DEF NInv, Ports
<1> QED BY <1>1, NetworkInvariance, PTL

(* No deleted instance keeps a virtual host, except one whose unbinding    *)
(* failed or that was bound again during its deletion.                     *)
THEOREM DeletedNeverServed == NSpec => []DeletedHasNoVhost
<1>1. NInv => DeletedHasNoVhost BY DEF NInv, Hosts, DeletedHasNoVhost
<1> QED BY <1>1, NetworkInvariance, PTL
=============================================================================
