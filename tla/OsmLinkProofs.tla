--------------------------- MODULE OsmLinkProofs ---------------------------
(* Proofs about OsmLink, for any number of connections, packets, jobs and  *)
(* faults.                                                                 *)
(*                                                                         *)
(* That one entity at most is mapped to the instance rests on the order of *)
(* the handshake: only an answer to the request of the OSM makes it send   *)
(* its reply and its registration, and that answer is sent together with   *)
(* the mapping of the entity.  So what comes over a connection that is not *)
(* mapped yet is a request, or a report of an OSM that believes it is      *)
(* registered, and neither maps an entity next to another.                 *)
EXTENDS OsmLink, TLAPS, SequenceTheorems

FirstPackets == {<<"auth request">>} \cup {<<"report", s>> : s \in AppStates}
Packets == FirstPackets \cup {<<"auth reply">>, <<"register">>}
Answers == {"auth", "registered"}

LinkOK ==
  /\ app \in AppStates
  /\ cl \in [Conns -> {"open", "gone"}]
  /\ sv \in [Conns -> Released .. Serving]
  /\ up \in [Conns -> Seq(Packets)]
  /\ down \in [Conns -> Seq(Answers)]
  /\ osm \in [at : {"off", "idle", "auth", "reg", "up"}, conn : Conns \cup {NoConn},
              registered : BOOLEAN, notify : BOOLEAN, told : AppStates \cup {"nothing"}]
  /\ osm.at \in {"auth", "reg", "up"} => osm.conn \in Conns

(* A socket that is gone has nothing more to read.                         *)
Closed == \A c \in Conns : cl[c] = "gone" => down[c] = <<>>

(* Nothing has been answered on a connection that is not mapped.           *)
Early == \A c \in Conns : sv[c] = Fresh => down[c] = <<>> /\ up[c] \in Seq(FirstPackets)

OInv == LinkOK /\ Closed /\ Early /\ OneEntity /\ DbFollowsOsm

-----------------------------------------------------------------------------
(* The flags in their order.                                               *)
LEMMA Flags ==
  ASSUME NEW flag \in Released .. Serving
  PROVE  /\ flag \notin {Released, Fresh} => flag >= Online
         /\ flag >= Online => flag \in Online .. Serving
BY DEF Released, Fresh, Online, Serving

(* What may come over a connection that is not mapped.                     *)
LEMMA FirstHeads ==
  ASSUME NEW m \in FirstPackets
  PROVE  m[1] \in {"auth request", "report"}
<1>1. CASE m = <<"auth request">> BY <1>1
<1>2. ASSUME NEW s \in AppStates, m = <<"report", s>> PROVE m[1] = "report" BY <1>2
<1> QED BY <1>1, <1>2 DEF FirstPackets

(* The entity that a later packet comes from is mapped.                    *)
LEMMA Later ==
  ASSUME OInv, NEW c \in Conns, NEW t \in {"auth reply", "register"}, Has(c, t)
  PROVE  c \in Mapped
<1>1. sv[c] # Fresh
  <2> SUFFICES ASSUME sv[c] = Fresh PROVE FALSE OBVIOUS
  <2>1. up[c] \in Seq(FirstPackets) /\ up[c] # <<>> BY DEF OInv, Early, Has
  <2>2. Head(up[c]) \in FirstPackets BY <2>1, HeadTailProperties
  <2> QED BY <2>2, FirstHeads DEF Has
<1>2. sv[c] # Released /\ sv[c] \in Released .. Serving BY DEF Has, OInv, LinkOK
<1>3. sv[c] >= Online BY <1>1, <1>2, Flags
<1> QED BY <1>3 DEF Mapped

LEMMA Tails ==
  ASSUME OInv, NEW c \in Conns, up[c] # <<>>
  PROVE  /\ Tail(up[c]) \in Seq(Packets)
         /\ (up[c] \in Seq(FirstPackets) => Tail(up[c]) \in Seq(FirstPackets))
BY DEF OInv, LinkOK

(* A step that pops a packet of clc and leaves the entities alone.         *)
LEMMA Popped ==
  ASSUME OInv, NEW c \in Conns, up[c] # <<>>, Pop(c)
  PROVE  /\ up' \in [Conns -> Seq(Packets)]
         /\ \A d \in Conns : up[d] \in Seq(FirstPackets) => up'[d] \in Seq(FirstPackets)
BY Tails DEF OInv, LinkOK, Pop

(* A step that leaves connections, entities, column and the OSM alone.     *)
LEMMA Quiet ==
  ASSUME OInv, app' \in AppStates, UNCHANGED <<osm, link, db, late>>
  PROVE  OInv'
BY DEF OInv, LinkOK, Closed, Early, OneEntity, DbFollowsOsm, link, Mapped

(* A step that releases every entity of the instance.                      *)
LEMMA AllReleased ==
  ASSUME OInv, NEW S, Mapped \subseteq S, ly_entity_release(S),
         UNCHANGED <<app, osm, cl, down>>
  PROVE  OInv'
<1>1. \A c \in Conns : sv'[c] = (IF c \in S THEN Released ELSE sv[c])
  BY DEF ly_entity_release
<1>2. Mapped' = {} BY <1>1 DEF Mapped, Released, Online
<1>3. /\ sv' \in [Conns -> Released .. Serving] /\ up' \in [Conns -> Seq(Packets)]
      /\ \A c \in Conns : up[c] \in Seq(FirstPackets) => up'[c] \in Seq(FirstPackets)
  BY DEF OInv, LinkOK, ly_entity_release, Drop, Released, Serving
<1>4. \A c \in Conns : sv'[c] = Fresh => sv[c] = Fresh
  BY <1>1 DEF Released, Fresh
<1>5. LinkOK' /\ Closed' BY <1>3 DEF OInv, LinkOK, Closed
<1>6. Early' BY <1>3, <1>4 DEF OInv, Early
<1>7. OneEntity' /\ DbFollowsOsm' BY <1>2 DEF OneEntity, DbFollowsOsm
<1> QED BY <1>5, <1>6, <1>7 DEF OInv

-----------------------------------------------------------------------------
(* Packets that clc handles.                                               *)

LEMMA SendFailsInv ==
  ASSUME OInv, NEW c \in Conns, NEW t, Has(c, t), SendFails(c), UNCHANGED guest
  PROVE  OInv'
<1>1. up[c] # <<>> /\ Pop(c) BY DEF Has, SendFails
<1>2. UNCHANGED <<app, osm, cl, sv, down, db, late>> BY DEF SendFails, guest, history
<1>3. /\ up' \in [Conns -> Seq(Packets)]
      /\ \A d \in Conns : up[d] \in Seq(FirstPackets) => up'[d] \in Seq(FirstPackets)
  BY <1>1, Popped
<1>4. LinkOK' /\ Closed' BY <1>2, <1>3 DEF OInv, LinkOK, Closed
<1>5. Early' BY <1>2, <1>3 DEF OInv, Early
<1>6. OneEntity' /\ DbFollowsOsm' BY <1>2 DEF OInv, OneEntity, DbFollowsOsm, Mapped
<1> QED BY <1>4, <1>5, <1>6 DEF OInv

(* An answer goes to the connection it is about, if that is open.          *)
LEMMA Sends ==
  ASSUME OInv, NEW c \in Conns, NEW m \in Answers, Send(c, m), UNCHANGED cl
  PROVE  /\ down' \in [Conns -> Seq(Answers)] /\ Closed'
         /\ \A d \in Conns \ {c} : down'[d] = down[d]
<1>1. Append(down[c], m) \in Seq(Answers) BY DEF OInv, LinkOK
<1> QED BY <1>1 DEF OInv, LinkOK, Closed, Send

LEMMA OsmAuthRequestInv ==
  ASSUME OInv, NEW c \in Conns, OsmAuthRequest(c)
  PROVE  OInv'
<1>1. CASE SendFails(c) BY <1>1, SendFailsInv DEF OsmAuthRequest
<1>2. CASE /\ Send(c, "auth") /\ ly_entity_update(c, Online)
           /\ up' = [Drop(Mapped \ {c}) EXCEPT ![c] = Tail(up[c])]
           /\ UNCHANGED <<cl, db>>
  <2>1. UNCHANGED <<app, osm>> BY DEF OsmAuthRequest, guest
  <2>2. /\ sv' \in [Conns -> Released .. Serving] /\ sv'[c] = Online
        /\ \A d \in Conns \ {c} : sv'[d] = (IF d \in Mapped THEN Released ELSE sv[d])
    BY <1>2 DEF OInv, LinkOK, ly_entity_update, Released, Online, Serving
  <2>3. Mapped' = {c}
    BY <2>2 DEF Mapped, Released, Online
  <2>4. /\ down' \in [Conns -> Seq(Answers)] /\ Closed'
        /\ \A d \in Conns \ {c} : down'[d] = down[d]
    BY <1>2, Sends DEF Answers
  <2>5. /\ up' \in [Conns -> Seq(Packets)]
        /\ \A d \in Conns \ {c} : up[d] \in Seq(FirstPackets) => up'[d] \in Seq(FirstPackets)
    <3>1. up[c] # <<>> BY DEF OsmAuthRequest, Has
    <3>2. Tail(up[c]) \in Seq(Packets) BY <3>1, Tails
    <3>3. DOMAIN Drop(Mapped \ {c}) = Conns BY DEF Drop
    <3>4. /\ up'[c] = Tail(up[c]) /\ up' = [d \in Conns |-> up'[d]]
          /\ \A d \in Conns \ {c} : up'[d] = Drop(Mapped \ {c})[d]
      BY <1>2, <3>3
    <3>5. \A d \in Conns : Drop(Mapped \ {c})[d] \in {<<>>, up[d]} BY DEF Drop
    <3>6. \A d \in Conns : up[d] \in Seq(Packets) BY DEF OInv, LinkOK
    <3>7. <<>> \in Seq(Packets) /\ <<>> \in Seq(FirstPackets) OBVIOUS
    <3>8. \A d \in Conns \ {c} : up'[d] = <<>> \/ up'[d] = up[d] BY <3>4, <3>5
    <3>9. \A d \in Conns : up'[d] \in Seq(Packets)
      BY <3>2, <3>4, <3>6, <3>7, <3>8
    <3> QED BY <3>4, <3>7, <3>8, <3>9
  <2>6. LinkOK' BY <1>2, <2>1, <2>2, <2>4, <2>5 DEF OInv, LinkOK
  <2>7. Early'
    <3> SUFFICES ASSUME NEW d \in Conns, sv'[d] = Fresh
                 PROVE  down'[d] = <<>> /\ up'[d] \in Seq(FirstPackets)
      BY DEF Early
    <3>1. d # c /\ sv[d] = Fresh BY <2>2 DEF Fresh, Online, Released
    <3> QED BY <3>1, <2>4, <2>5 DEF OInv, Early
  <2>8. OneEntity' /\ DbFollowsOsm'
    BY <2>2, <2>3 DEF OneEntity, DbFollowsOsm, Online, Registered, Running, Serving
  <2> QED BY <2>4, <2>6, <2>7, <2>8 DEF OInv
<1> QED BY <1>1, <1>2 DEF OsmAuthRequest

(* A packet of a mapped entity that changes its flag, or leaves it.        *)
LEMMA Flagged ==
  ASSUME OInv, NEW c \in Mapped, up[c] # <<>>, Pop(c), NEW flag \in Online .. Serving,
         sv' = [sv EXCEPT ![c] = flag],
         down' \in [Conns -> Seq(Answers)], \A d \in Conns \ {c} : down'[d] = down[d],
         Closed', UNCHANGED <<app, osm, cl>>
  PROVE  LinkOK' /\ Early' /\ Mapped' = {c} /\ sv'[c] = flag /\ OneEntity'
<1>1. c \in Conns /\ Mapped = {c} BY DEF Mapped, OInv, OneEntity
<1>2. /\ sv' \in [Conns -> Released .. Serving] /\ sv'[c] = flag
      /\ \A d \in Conns \ {c} : sv'[d] = sv[d]
  BY <1>1 DEF OInv, LinkOK, Released, Online, Serving
<1>3. /\ up' \in [Conns -> Seq(Packets)]
      /\ \A d \in Conns : up[d] \in Seq(FirstPackets) => up'[d] \in Seq(FirstPackets)
  BY <1>1, Popped
<1>4. LinkOK' BY <1>2, <1>3 DEF OInv, LinkOK
<1>5. Early'
  <2> SUFFICES ASSUME NEW d \in Conns, sv'[d] = Fresh
               PROVE  down'[d] = <<>> /\ up'[d] \in Seq(FirstPackets)
    BY DEF Early
  <2>1. d # c /\ sv[d] = Fresh BY <1>2 DEF Fresh, Online, Serving
  <2> QED BY <2>1, <1>3 DEF OInv, Early
<1>6. Mapped' = {c} BY <1>1, <1>2 DEF Mapped, Online, Serving
<1> QED BY <1>2, <1>4, <1>5, <1>6 DEF OneEntity

LEMMA OsmAuthReplyInv ==
  ASSUME OInv, NEW c \in Conns, OsmAuthReply(c)
  PROVE  OInv'
<1>1. c \in Mapped BY Later DEF OsmAuthReply
<1>2. PICK flag \in Online .. Serving :
        /\ sv' = [sv EXCEPT ![c] = flag]
        /\ flag = sv[c] \/ flag = Authenticated
  <2>1. sv[c] \in Online .. Serving
    BY <1>1, Flags DEF Mapped, OInv, LinkOK
  <2>2. Authenticated \in Online .. Serving BY DEF Authenticated, Online, Serving
  <2> QED BY <2>1, <2>2 DEF OsmAuthReply
<1>3. up[c] # <<>> /\ Pop(c) /\ UNCHANGED <<app, osm, cl, down, db, late>>
  BY DEF OsmAuthReply, Has, guest, history
<1>4. Closed' BY <1>3 DEF OInv, Closed
<1>5. LinkOK' /\ Early' /\ Mapped' = {c} /\ sv'[c] = flag /\ OneEntity'
  BY <1>1, <1>2, <1>3, <1>4, Flagged DEF OInv, LinkOK
<1>6. DbFollowsOsm'
  BY <1>1, <1>2, <1>3, <1>5
     DEF OInv, DbFollowsOsm, Authenticated, Registered, Running, Serving
<1> QED BY <1>4, <1>5, <1>6 DEF OInv

LEMMA OsmRegisterInv ==
  ASSUME OInv, NEW c \in Conns, OsmRegister(c)
  PROVE  OInv'
<1>1. CASE SendFails(c) BY <1>1, SendFailsInv DEF OsmRegister
<1>2. CASE /\ Send(c, "registered") /\ Pop(c) /\ db' = "RUNNING"
           /\ ly_entity_update(c, Registered) /\ UNCHANGED cl
  <2>1. c \in Mapped /\ Mapped = {c} BY Later DEF OsmRegister, OInv, OneEntity
  <2>2. sv' = [sv EXCEPT ![c] = Registered]
    BY <1>2, <2>1 DEF ly_entity_update, OInv, LinkOK
  <2>3. /\ down' \in [Conns -> Seq(Answers)] /\ Closed'
        /\ \A d \in Conns \ {c} : down'[d] = down[d]
    BY <1>2, Sends DEF Answers
  <2>4. up[c] # <<>> /\ UNCHANGED <<app, osm>> BY DEF OsmRegister, Has, guest
  <2>5. LinkOK' /\ Early' /\ Mapped' = {c} /\ sv'[c] = Registered /\ OneEntity'
    BY <1>2, <2>1, <2>2, <2>3, <2>4, Flagged DEF Registered, Online, Serving
  <2>6. DbFollowsOsm' BY <1>2, <2>5 DEF DbFollowsOsm, Registered, Serving
  <2> QED BY <2>3, <2>5, <2>6 DEF OInv
<1> QED BY <1>1, <1>2 DEF OsmRegister

LEMMA OsmReportedInv ==
  ASSUME OInv, NEW c \in Conns, OsmReported(c)
  PROVE  OInv'
<1>1. PICK s : s = Head(up[c])[2] OBVIOUS
<1>2. up[c] # <<>> /\ Pop(c) /\ UNCHANGED <<app, osm, cl, down>>
  BY DEF OsmReported, Has, guest
<1>3. Closed' BY <1>2 DEF OInv, Closed
<1>4. CASE ReportIsNews(c, s)
  <2>1. c \in Mapped
    BY <1>4 DEF ReportIsNews, Mapped, Online, Registered, Running, Serving
  <2>2. PICK flag \in {Running, Serving} :
          /\ sv' = [sv EXCEPT ![c] = flag]
          /\ db' = IF flag = Serving THEN "SERVING" ELSE "RUNNING"
    BY <1>1, <1>4 DEF OsmReported, Running, Serving
  <2>3. LinkOK' /\ Early' /\ Mapped' = {c} /\ sv'[c] = flag /\ OneEntity'
    <3>1. flag \in Online .. Serving BY DEF Online, Running, Serving
    <3>2. down' \in [Conns -> Seq(Answers)] /\ \A d \in Conns \ {c} : down'[d] = down[d]
      BY <1>2 DEF OInv, LinkOK
    <3> QED BY <1>2, <1>3, <2>1, <2>2, <3>1, <3>2, Flagged
  <2>4. DbFollowsOsm'
    BY <2>2, <2>3 DEF DbFollowsOsm, Registered, Running, Serving
  <2> QED BY <1>3, <2>3, <2>4 DEF OInv
<1>5. CASE ~ReportIsNews(c, s)
  <2>1. UNCHANGED <<db, sv, late>> BY <1>1, <1>5 DEF OsmReported
  <2>2. /\ up' \in [Conns -> Seq(Packets)]
        /\ \A d \in Conns : up[d] \in Seq(FirstPackets) => up'[d] \in Seq(FirstPackets)
    BY <1>2, Popped
  <2>3. LinkOK' BY <1>2, <2>1, <2>2 DEF OInv, LinkOK
  <2>4. Early' BY <1>2, <2>1, <2>2 DEF OInv, Early
  <2>5. OneEntity' /\ DbFollowsOsm' BY <2>1 DEF OInv, OneEntity, DbFollowsOsm, Mapped
  <2> QED BY <1>3, <2>3, <2>4, <2>5 DEF OInv
<1> QED BY <1>4, <1>5

LEMMA OsmGoneInv ==
  ASSUME OInv, NEW c \in Conns, OsmGone(c)
  PROVE  OInv'
<1>1. ly_entity_release({c}) /\ UNCHANGED <<app, osm, cl, down>>
  BY DEF OsmGone, guest
<1>2. CASE c \in Mapped
  <2>1. Mapped \subseteq {c} BY <1>2 DEF OInv, OneEntity
  <2> QED BY <1>1, <2>1, AllReleased
<1>3. CASE c \notin Mapped
  <2>1. db' = db /\ late' = late \ {c} BY <1>3 DEF OsmGone, Forget
  <2>2. /\ sv' \in [Conns -> Released .. Serving] /\ up' \in [Conns -> Seq(Packets)]
        /\ \A d \in Conns : up[d] \in Seq(FirstPackets) => up'[d] \in Seq(FirstPackets)
        /\ sv'[c] = Released /\ \A d \in Conns \ {c} : sv'[d] = sv[d]
    BY <1>1 DEF OInv, LinkOK, ly_entity_release, Drop, Released, Serving
  <2>3. Mapped' = Mapped BY <1>3, <2>2 DEF Mapped, Released, Online
  <2>4. LinkOK' /\ Closed' BY <1>1, <2>2 DEF OInv, LinkOK, Closed
  <2>5. Early' BY <1>1, <2>2 DEF OInv, Early, Released, Fresh
  <2>6. OneEntity' BY <2>3 DEF OInv, OneEntity
  <2>7. \A d \in Mapped : sv'[d] = sv[d] /\ (d \in late' <=> d \in late)
    BY <1>3, <2>1, <2>2 DEF Mapped
  <2>8. DbFollowsOsm' BY <2>1, <2>3, <2>7 DEF OInv, DbFollowsOsm
  <2> QED BY <2>4, <2>5, <2>6, <2>8 DEF OInv
<1> QED BY <1>2, <1>3

-----------------------------------------------------------------------------
(* Jobs, queries and the node.                                             *)

LEMMA QuietSteps ==
  ASSUME OInv,
         \/ Ended \/ NoSuchJob \/ WaitForOsm \/ QueryAll
         \/ NodeFails \/ NodeQuery \/ NodeCut \/ NodeGone \/ NodeRegistered \/ AppChange
  PROVE  OInv'
<1>1. CASE Ended \/ NoSuchJob \/ WaitForOsm \/ QueryAll
  <2>1. UNCHANGED <<app, osm, link, db, late>>
    BY <1>1 DEF Ended, NoSuchJob, WaitForOsm, QueryAll, guest, history
  <2> QED BY <2>1, Quiet DEF OInv, LinkOK
<1>2. CASE NodeFails \/ NodeQuery \/ NodeCut \/ NodeGone \/ NodeRegistered
  <2>1. UNCHANGED <<app, osm, link, db, late>>
    BY <1>2 DEF NodeFails, NodeQuery, NodeCut, NodeGone, NodeRegistered, guest, history
  <2> QED BY <2>1, Quiet DEF OInv, LinkOK
<1>3. CASE AppChange
  BY <1>3, Quiet DEF AppChange, history
<1> QED BY <1>1, <1>2, <1>3

LEMMA ReleasingSteps ==
  ASSUME OInv, RebootStopped \/ Stopped \/ JobTimeout \/ ClcRestart
  PROVE  OInv'
<1>1. CASE RebootStopped \/ Stopped \/ JobTimeout
  <2>1. ly_entity_release(Mapped) /\ UNCHANGED <<app, osm, cl, down>>
    BY <1>1 DEF RebootStopped, Stopped, JobTimeout, guest
  <2> QED BY <2>1, AllReleased
<1>2. CASE ClcRestart
  <2>1. Mapped \subseteq Conns BY DEF Mapped
  <2>2. ly_entity_release(Conns) /\ UNCHANGED <<app, osm, cl, down>>
    BY <1>2 DEF ClcRestart, guest
  <2> QED BY <2>1, <2>2, AllReleased
<1> QED BY <1>1, <1>2

(* A job for an instance without a node may end at once.                   *)
LEMMA NewJobInv ==
  ASSUME OInv, NEW a \in Requests, NewJob(a)
  PROVE  OInv'
<1>0. UNCHANGED <<app, osm, cl, down>> BY DEF NewJob, guest
<1>1. CASE a = "stop" /\ ~placed
  <2>1. ly_entity_release(Mapped) BY <1>1 DEF NewJob
  <2> QED BY <1>0, <2>1, AllReleased
<1>2. CASE ~(a = "stop" /\ ~placed)
  <2>1. UNCHANGED <<app, osm, link, db, late>>
    BY <1>0, <1>2 DEF NewJob, link, history
  <2> QED BY <2>1, Quiet DEF OInv, LinkOK
<1> QED BY <1>1, <1>2

(* The column changes and the connections stay.                            *)
LEMMA StartedInv ==
  ASSUME OInv, Started
  PROVE  OInv'
<1>1. UNCHANGED <<app, osm, cl, sv, up, down>> BY DEF Started, guest, link
<1>2. LinkOK' /\ Closed' /\ Early' /\ OneEntity'
  BY <1>1 DEF OInv, LinkOK, Closed, Early, OneEntity, Mapped
<1>3. \A c \in Mapped : sv[c] >= Registered => c \in late' BY DEF Started
<1>4. DbFollowsOsm'
  BY <1>1, <1>3 DEF DbFollowsOsm, Mapped, Registered, Running, Serving
<1> QED BY <1>2, <1>4 DEF OInv

LEMMA InstanceInfoInv ==
  ASSUME OInv, InstanceInfo
  PROVE  OInv'
<1>1. UNCHANGED <<app, osm, cl, sv, up, down, late>>
  BY DEF InstanceInfo, guest, link, history
<1>2. LinkOK' /\ Closed' /\ Early' /\ OneEntity'
  BY <1>1 DEF OInv, LinkOK, Closed, Early, OneEntity, Mapped
<1>3. CASE is_registered
  BY <1>1, <1>2, <1>3 DEF InstanceInfo, OInv, DbFollowsOsm, Mapped
<1>4. CASE ~is_registered
  <2>1. \A c \in Mapped : sv[c] \notin {Registered, Running, Serving}
    BY <1>4 DEF is_registered, Registered, Running, Serving
  <2> QED BY <1>1, <1>2, <2>1 DEF OInv, DbFollowsOsm, Mapped
<1> QED BY <1>3, <1>4

-----------------------------------------------------------------------------
(* The guest and its OS manager: the entities and the column stay.         *)
LEMMA GuestSide ==
  ASSUME OInv, UNCHANGED <<sv, db, late>>, LinkOK', Closed',
         \A c \in Conns : sv[c] = Fresh => down'[c] = <<>> /\ up'[c] \in Seq(FirstPackets)
  PROVE  OInv'
<1>1. Early' BY DEF Early
<1>2. OneEntity' /\ DbFollowsOsm' BY DEF OInv, OneEntity, DbFollowsOsm, Mapped
<1> QED BY <1>1, <1>2 DEF OInv

LEMMA NodeRunInv ==
  ASSUME OInv, NodeRun
  PROVE  OInv'
<1>1. UNCHANGED <<app, cl, sv, up, down, db, late>> BY DEF NodeRun, link, history
<1>2. osm' = [OsmOff EXCEPT !.at = "idle"] \/ osm' = osm BY DEF NodeRun
<1>3. LinkOK' /\ Closed' BY <1>1, <1>2 DEF OInv, LinkOK, Closed, OsmOff
<1> QED BY <1>1, <1>3, GuestSide DEF OInv, Early

LEMMA SwitchOffInv ==
  ASSUME OInv, NodeStop \/ GuestDies \/ GuestReboots
  PROVE  OInv'
<1>1. /\ UNCHANGED <<sv, up, db, late>> /\ app' = "unknown"
      /\ cl' = [c \in Conns |-> "gone"] /\ down' = [c \in Conns |-> <<>>]
      /\ osm' = OsmOff \/ osm' = [OsmOff EXCEPT !.at = "idle"]
  BY DEF NodeStop, GuestDies, GuestReboots, SwitchOff
<1>2. \A c \in Conns : down'[c] = <<>> BY <1>1
<1>3. <<>> \in Seq(Answers) OBVIOUS
<1>4. /\ osm' \in [at : {"off", "idle", "auth", "reg", "up"}, conn : Conns \cup {NoConn},
                   registered : BOOLEAN, notify : BOOLEAN,
                   told : AppStates \cup {"nothing"}]
      /\ osm'.at \notin {"auth", "reg", "up"}
  <2>1. CASE osm' = OsmOff BY <2>1 DEF OsmOff
  <2>2. CASE osm' = [OsmOff EXCEPT !.at = "idle"] BY <2>2 DEF OsmOff
  <2> QED BY <1>1, <2>1, <2>2
<1>5. /\ down' \in [Conns -> Seq(Answers)] /\ cl' \in [Conns -> {"open", "gone"}]
      /\ app' \in AppStates
  BY <1>1, <1>3 DEF AppStates
<1>6. LinkOK' BY <1>1, <1>4, <1>5 DEF OInv, LinkOK
<1>7. Closed' BY <1>2 DEF Closed
<1> QED BY <1>1, <1>2, <1>6, <1>7, GuestSide DEF OInv, Early

LEMMA LinkCutInv ==
  ASSUME OInv, LinkCut
  PROVE  OInv'
<1>1. PICK c \in Conns : /\ cl' = [cl EXCEPT ![c] = "gone"]
                         /\ up' = [up EXCEPT ![c] = <<>>]
                         /\ down' = [down EXCEPT ![c] = <<>>]
  BY DEF LinkCut
<1>2. UNCHANGED <<app, osm, sv, db, late>> BY DEF LinkCut, guest, history
<1>3. /\ <<>> \in Seq(Answers) /\ <<>> \in Seq(Packets) /\ <<>> \in Seq(FirstPackets)
  OBVIOUS
<1>4. LinkOK' BY <1>1, <1>2, <1>3 DEF OInv, LinkOK
<1>5. Closed' BY <1>1 DEF OInv, LinkOK, Closed
<1>6. \A d \in Conns : sv[d] = Fresh => down'[d] = <<>> /\ up'[d] \in Seq(FirstPackets)
  BY <1>1, <1>3 DEF OInv, LinkOK, Early
<1> QED BY <1>2, <1>4, <1>5, <1>6, GuestSide

LEMMA ConnectInv ==
  ASSUME OInv, Connect
  PROVE  OInv'
<1>1. PICK c \in Conns : /\ cl[c] = "gone" /\ sv[c] = Released
                         /\ cl' = [cl EXCEPT ![c] = "open"]
                         /\ sv' = [sv EXCEPT ![c] = Fresh]
                         /\ up' = [up EXCEPT ![c] = << <<"auth request">> >>]
                         /\ osm' = [osm EXCEPT !.at = "auth", !.conn = c]
  BY DEF Connect
<1>2. UNCHANGED <<app, down, db, late>> BY DEF Connect
<1>3. << <<"auth request">> >> \in Seq(FirstPackets)
      /\ << <<"auth request">> >> \in Seq(Packets)
  BY DEF FirstPackets, Packets
<1>4. Fresh \in Released .. Serving BY DEF Fresh, Released, Serving
<1>5. /\ osm'.conn = c
      /\ osm' \in [at : {"off", "idle", "auth", "reg", "up"}, conn : Conns \cup {NoConn},
                  registered : BOOLEAN, notify : BOOLEAN, told : AppStates \cup {"nothing"}]
  BY <1>1 DEF OInv, LinkOK
<1>6. LinkOK' BY <1>1, <1>2, <1>3, <1>4, <1>5 DEF OInv, LinkOK
<1>7. Closed' BY <1>1, <1>2 DEF OInv, LinkOK, Closed
<1>8. Early' BY <1>1, <1>2, <1>3 DEF OInv, LinkOK, Closed, Early
<1>9. /\ sv'[c] = Fresh /\ \A d \in Conns \ {c} : sv'[d] = sv[d]
  BY <1>1 DEF OInv, LinkOK
<1>10. Mapped' = Mapped /\ c \notin Mapped
  <2>1. ~(Released >= Online) /\ ~(Fresh >= Online) BY DEF Fresh, Released, Online
  <2> QED BY <1>1, <1>9, <2>1 DEF Mapped
<1>11. OneEntity' BY <1>10 DEF OInv, OneEntity
<1>12. \A d \in Mapped : sv'[d] = sv[d] BY <1>9, <1>10 DEF Mapped
<1>13. DbFollowsOsm' BY <1>2, <1>10, <1>12 DEF OInv, DbFollowsOsm
<1> QED BY <1>6, <1>7, <1>8, <1>11, <1>13 DEF OInv

(* What the OSM sends over a connection that is mapped, or a report.       *)
LEMMA OsmSends ==
  ASSUME OInv, NEW c \in Conns, NEW ms \in Seq(Packets), socksend(c, ms),
         sv[c] = Fresh => ms \in Seq(FirstPackets)
  PROVE  /\ up' \in [Conns -> Seq(Packets)]
         /\ \A d \in Conns : sv[d] = Fresh => up'[d] \in Seq(FirstPackets)
<1>1. up[c] \o ms \in Seq(Packets) BY DEF OInv, LinkOK
<1>2. sv[c] = Fresh => up[c] \o ms \in Seq(FirstPackets) BY DEF OInv, Early
<1>3. up \in [Conns -> Seq(Packets)] /\ up'[c] \in {up[c], up[c] \o ms}
      /\ up' = [up EXCEPT ![c] = up'[c]]
  BY DEF OInv, LinkOK, socksend
<1> QED BY <1>1, <1>2, <1>3 DEF OInv, Early

(* The OSM has read a packet.                                              *)
LEMMA OsmReads ==
  ASSUME OInv, osm.at \in {"auth", "reg", "up"}, down[osm.conn] # <<>>,
         down' = [down EXCEPT ![osm.conn] = Tail(@)], UNCHANGED cl
  PROVE  /\ osm.conn \in Conns /\ sv[osm.conn] # Fresh
         /\ down' \in [Conns -> Seq(Answers)] /\ Closed'
         /\ \A c \in Conns : sv[c] = Fresh => down'[c] = <<>>
<1>1. osm.conn \in Conns BY DEF OInv, LinkOK
<1>2. sv[osm.conn] # Fresh /\ cl[osm.conn] # "gone" BY <1>1 DEF OInv, Early, Closed
<1>3. Tail(down[osm.conn]) \in Seq(Answers) BY <1>1 DEF OInv, LinkOK
<1>4. /\ down' \in [Conns -> Seq(Answers)]
      /\ \A c \in Conns \ {osm.conn} : down'[c] = down[c]
  BY <1>1, <1>3 DEF OInv, LinkOK
<1> QED BY <1>1, <1>2, <1>4 DEF OInv, Early, Closed

LEMMA ChallengedInv ==
  ASSUME OInv, Challenged
  PROVE  OInv'
<1>1. UNCHANGED <<app, cl, sv, db, late>> BY DEF Challenged, history
<1>2. /\ osm.conn \in Conns /\ sv[osm.conn] # Fresh
      /\ down' \in [Conns -> Seq(Answers)] /\ Closed'
      /\ \A c \in Conns : sv[c] = Fresh => down'[c] = <<>>
  BY <1>1, OsmReads DEF Challenged, Got
<1>3. << <<"auth reply">>, <<"register">> >> \in Seq(Packets) BY DEF Packets
<1>4. /\ up' \in [Conns -> Seq(Packets)]
      /\ \A c \in Conns : sv[c] = Fresh => up'[c] \in Seq(FirstPackets)
  BY <1>2, <1>3, OsmSends DEF Challenged
<1>5. LinkOK' BY <1>1, <1>2, <1>4 DEF Challenged, OInv, LinkOK
<1> QED BY <1>1, <1>2, <1>4, <1>5, GuestSide

LEMMA ReadingSteps ==
  ASSUME OInv, RegisterDone \/ ReadPacket
  PROVE  OInv'
<1>1. UNCHANGED <<app, cl, sv, up, db, late>> BY DEF RegisterDone, ReadPacket, history, guest
<1>2. /\ osm.conn \in Conns
      /\ down' \in [Conns -> Seq(Answers)] /\ Closed'
      /\ \A c \in Conns : sv[c] = Fresh => down'[c] = <<>>
  BY <1>1, OsmReads DEF RegisterDone, ReadPacket, Got
<1>3. osm' = osm \/ osm' = [osm EXCEPT !.at = "up", !.registered = TRUE, !.notify = TRUE]
  BY DEF RegisterDone, ReadPacket, guest
<1>4. LinkOK' BY <1>1, <1>2, <1>3 DEF OInv, LinkOK
<1> QED BY <1>1, <1>2, <1>4, GuestSide DEF OInv, Early

LEMMA ClosingSteps ==
  ASSUME OInv, SocketClosed \/ RegisterFailed
  PROVE  OInv'
<1>1. UNCHANGED <<app, sv, up, db, late>> BY DEF SocketClosed, RegisterFailed, history
<1>2. osm.conn \in Conns BY DEF SocketClosed, RegisterFailed, OInv, LinkOK
<1>3. CASE Close
  <2>1. <<>> \in Seq(Answers) OBVIOUS
  <2>2. LinkOK' BY <1>1, <1>2, <1>3, <2>1 DEF Close, OInv, LinkOK
  <2>3. /\ \A c \in Conns \ {osm.conn} : cl'[c] = cl[c] /\ down'[c] = down[c]
        /\ down'[osm.conn] = <<>>
    BY <1>2, <1>3 DEF Close, OInv, LinkOK
  <2>4. Closed' /\ \A c \in Conns : sv[c] = Fresh => down'[c] = <<>>
    BY <2>3 DEF OInv, Closed, Early
  <2> QED BY <1>1, <2>2, <2>4, GuestSide DEF OInv, Early
<1>4. CASE osm' = [osm EXCEPT !.at = "up", !.notify = TRUE] /\ UNCHANGED <<cl, down>>
  <2>1. LinkOK' /\ Closed' BY <1>1, <1>2, <1>4 DEF OInv, LinkOK, Closed
  <2> QED BY <1>1, <1>4, <2>1, GuestSide DEF OInv, Early
<1> QED BY <1>3, <1>4 DEF SocketClosed, RegisterFailed

LEMMA RunScriptInv ==
  ASSUME OInv, RunScript
  PROVE  OInv'
<1>1. UNCHANGED <<app, cl, sv, down, db, late>> BY DEF RunScript, history
<1>2. /\ up' \in [Conns -> Seq(Packets)]
      /\ \A c \in Conns : sv[c] = Fresh => up'[c] \in Seq(FirstPackets)
  <2>1. CASE osm.at = "idle" BY <2>1 DEF RunScript, OInv, LinkOK, Early
  <2>2. CASE osm.at = "up"
    <3>1. osm.conn \in Conns BY <2>2 DEF OInv, LinkOK
    <3>2. <<"report", app>> \in FirstPackets BY DEF FirstPackets, OInv, LinkOK
    <3>3. << <<"report", app>> >> \in Seq(FirstPackets)
          /\ << <<"report", app>> >> \in Seq(Packets)
      BY <3>2 DEF Packets
    <3> QED BY <2>2, <3>1, <3>3, OsmSends DEF RunScript
  <2> QED BY <2>1, <2>2 DEF RunScript
<1>3. PICK b \in BOOLEAN : osm' = [osm EXCEPT !.told = app, !.notify = b]
  BY DEF RunScript, OInv, LinkOK
<1>4. /\ osm' \in [at : {"off", "idle", "auth", "reg", "up"}, conn : Conns \cup {NoConn},
                  registered : BOOLEAN, notify : BOOLEAN, told : AppStates \cup {"nothing"}]
      /\ osm'.at = osm.at /\ osm'.conn = osm.conn
  BY <1>3 DEF OInv, LinkOK
<1>5. LinkOK' /\ Closed' BY <1>1, <1>2, <1>4 DEF OInv, LinkOK, Closed
<1> QED BY <1>1, <1>2, <1>5, GuestSide DEF OInv, Early

-----------------------------------------------------------------------------
LEMMA OInitInv == Init => OInv
<1> SUFFICES ASSUME Init PROVE OInv OBVIOUS
<1>1. <<>> \in Seq(Answers) /\ <<>> \in Seq(Packets) OBVIOUS
<1>2. osm \in [at : {"off", "idle", "auth", "reg", "up"}, conn : Conns \cup {NoConn},
               registered : BOOLEAN, notify : BOOLEAN, told : AppStates \cup {"nothing"}]
      /\ osm.at \notin {"auth", "reg", "up"}
  BY DEF Init, OsmOff
<1>3. Released \in Released .. Serving /\ Released # Fresh /\ ~(Released >= Online)
  BY DEF Released, Fresh, Online, Serving
<1>4. LinkOK BY <1>1, <1>2, <1>3 DEF Init, LinkOK, AppStates
<1>5. Closed /\ Early BY <1>3 DEF Init, Closed, Early
<1>6. Mapped = {} BY <1>3 DEF Init, Mapped
<1> QED BY <1>4, <1>5, <1>6 DEF OInv, OneEntity, DbFollowsOsm

LEMMA ONextInv == OInv /\ [Next]_vars => OInv'
<1> SUFFICES ASSUME OInv, [Next]_vars PROVE OInv' OBVIOUS
<1>1. ASSUME NEW c \in Conns, ClcRecv(c) PROVE OInv'
  BY <1>1, OsmAuthRequestInv, OsmAuthReplyInv, OsmRegisterInv, OsmReportedInv, OsmGoneInv
     DEF ClcRecv
<1>2. CASE \/ \E a \in Requests : NewJob(a)
           \/ Clc \/ WaitForOsm \/ JobTimeout \/ QueryAll \/ InstanceInfo
  BY <1>2, NewJobInv, QuietSteps, ReleasingSteps, StartedInv, InstanceInfoInv DEF Clc
<1>3. CASE Node \/ NodeFails \/ NodeQuery \/ NodeCut \/ NodeGone \/ NodeRegistered
  BY <1>3, QuietSteps, NodeRunInv, SwitchOffInv DEF Node
<1>4. CASE GuestDies \/ GuestReboots \/ LinkCut \/ ClcRestart \/ AppChange
  BY <1>4, QuietSteps, ReleasingSteps, SwitchOffInv, LinkCutInv
<1>5. CASE Osm \/ ReadPacket
  BY <1>5, ConnectInv, ChallengedInv, ReadingSteps, ClosingSteps, RunScriptInv DEF Osm
<1>6. CASE UNCHANGED vars
  <2>1. UNCHANGED <<app, osm, link, db, late>> BY <1>6 DEF vars, link
  <2> QED BY <2>1, Quiet DEF OInv, LinkOK
<1> QED BY <1>1, <1>2, <1>3, <1>4, <1>5, <1>6 DEF Next

-----------------------------------------------------------------------------
(* The order of the handshake holds on every connection, whatever is lost, *)
(* cut, restarted or given up on either side.                              *)
THEOREM LinkInvariance == Spec => []OInv
BY OInitInv, ONextInv, PTL DEF Spec

(* ly_entity_update keeps the entities of an instance unique although      *)
(* connections overlap.                                                    *)
THEOREM EntityIsUnique == Spec => []OneEntity
<1>1. OInv => OneEntity BY DEF OInv
<1> QED BY <1>1, LinkInvariance, PTL

(* The status column agrees with the entity of a registered OSM, whoever   *)
(* writes it (eh_process_osm_register, eh_process_osm_report,              *)
(* __instance_info_update, job_update_status, a closed socket), but for a  *)
(* late 411.                                                               *)
THEOREM ColumnFollowsOsm == Spec => []DbFollowsOsm
<1>1. OInv => DbFollowsOsm BY DEF OInv
<1> QED BY <1>1, LinkInvariance, PTL

-----------------------------------------------------------------------------
(* The runs of the guest.  The answers of the node come in order, so clc   *)
(* hears that the guest was stopped before it hears that it was started    *)
(* again.  While no such news is under way, an entity that is not of this  *)
(* run of the guest is one that no job could release.                      *)

Shapes == {<<>>, <<"stopped">>, <<"RUNNING_STOPPED">>, <<"411">>, <<"ended">>,
           <<"RUNNING_STOPPED", "411">>, <<"RUNNING_STOPPED", "ended">>}
StopShapes == {<<"stopped">>, <<"RUNNING_STOPPED">>,
               <<"RUNNING_STOPPED", "411">>, <<"RUNNING_STOPPED", "ended">>}
Unheard == {c \in Conns : sv[c] = Fresh}      \* not mapped yet

RunInv ==
  /\ ans \in Shapes
  /\ node \in Requests => ans = <<>>
  /\ node = "rebooting" => ans \in {<<>>, <<"RUNNING_STOPPED">>}
  /\ node \in {"none", "rebooting"} \cup Requests
  /\ job \in Waiting => ans = <<>> /\ node = "none"
  /\ Unheard \subseteq cur \cup ghosts
  /\ ans \notin StopShapes => Unreleased \subseteq cur \cup ghosts

LEMMA ShapeOf ==
  ASSUME NEW a \in Shapes
  PROVE  (\E k \in DOMAIN a : a[k] \in StopAnswers) <=> a \in StopShapes
<1>1. CASE a = <<>> BY <1>1 DEF StopShapes
<1>2. CASE a = <<"stopped">> BY <1>2 DEF StopShapes, StopAnswers
<1>3. CASE a = <<"RUNNING_STOPPED">> BY <1>3 DEF StopShapes, StopAnswers
<1>4. CASE a = <<"411">> BY <1>4 DEF StopShapes, StopAnswers
<1>5. CASE a = <<"ended">> BY <1>5 DEF StopShapes, StopAnswers
<1>6. CASE a = <<"RUNNING_STOPPED", "411">> BY <1>6 DEF StopShapes, StopAnswers
<1>7. CASE a = <<"RUNNING_STOPPED", "ended">> BY <1>7 DEF StopShapes, StopAnswers
<1> QED BY <1>1, <1>2, <1>3, <1>4, <1>5, <1>6, <1>7 DEF Shapes

(* The answer that clc reads next, and what is left.                       *)
LEMMA ReadAnswer ==
  ASSUME ans \in Shapes, NEW m, NextAnswer(m)
  PROVE  \/ m \in {"411", "ended"} /\ ans = <<m>> /\ ans' = <<>>
         \/ m = "stopped" /\ ans = <<m>> /\ ans' = <<>>
         \/ /\ m = "RUNNING_STOPPED" /\ ans \in StopShapes
            /\ ans' \in {<<>>, <<"411">>, <<"ended">>}
<1>1. CASE ans = <<>> BY <1>1 DEF NextAnswer
<1>2. CASE ans = <<"stopped">> BY <1>2 DEF NextAnswer
<1>3. CASE ans = <<"RUNNING_STOPPED">> BY <1>3 DEF NextAnswer, StopShapes
<1>4. CASE ans = <<"411">> BY <1>4 DEF NextAnswer
<1>5. CASE ans = <<"ended">> BY <1>5 DEF NextAnswer
<1>6. CASE ans = <<"RUNNING_STOPPED", "411">> BY <1>6 DEF NextAnswer, StopShapes
<1>7. CASE ans = <<"RUNNING_STOPPED", "ended">> BY <1>7 DEF NextAnswer, StopShapes
<1> QED BY <1>1, <1>2, <1>3, <1>4, <1>5, <1>6, <1>7 DEF Shapes

LEMMA NotStops ==
  /\ <<>> \notin StopShapes /\ <<"411">> \notin StopShapes /\ <<"ended">> \notin StopShapes
  /\ <<>> \in Shapes /\ <<"411">> \in Shapes /\ <<"ended">> \in Shapes
  /\ StopShapes \subseteq Shapes
BY DEF StopShapes, Shapes

(* The wire is left alone: entities are only released, and forgotten, or   *)
(* the guest has a new connection.                                         *)
LEMMA RunKept ==
  ASSUME RunInv, NEW S, Unreleased' \subseteq Unreleased \ S, Unheard' \subseteq Unheard,
         cur' = cur \ S, ghosts' = ghosts \ S, UNCHANGED <<node, ans>>,
         job' \notin Waiting \/ (job \in Waiting /\ node = "none" /\ ans = <<>>)
  PROVE  RunInv'
<1>1. Unheard' \subseteq Unreleased' BY DEF Unheard, Unreleased, Fresh, Released
<1> QED BY <1>1 DEF RunInv

LEMMA RunIdle ==
  ASSUME RunInv, UNCHANGED <<sv, cur, ghosts, node, ans>>,
         job' \notin Waiting \/ (job \in Waiting /\ node = "none" /\ ans = <<>>)
  PROVE  RunInv'
<1>1. UNCHANGED <<Unreleased, Unheard>> BY DEF Unreleased, Unheard
<1> QED BY <1>1 DEF RunInv

(* What ly_entity_release leaves.                                          *)
LEMMA ReleaseLeaves ==
  ASSUME NEW S, ly_entity_release(S)
  PROVE  Unreleased' = Unreleased \ S /\ Unheard' \subseteq Unheard \ S
BY DEF ly_entity_release, Unreleased, Unheard, Fresh, Released

(* After every mapped entity was released only unheard ones are left.      *)
LEMMA MappedReleased ==
  ASSUME OInv, ly_entity_release(Mapped)
  PROVE  Unreleased' \subseteq Unheard \ Mapped /\ Unheard' \subseteq Unheard \ Mapped
<1>1. \A c \in Unreleased : c \in Mapped \/ c \in Unheard
  BY Flags DEF OInv, LinkOK, Unreleased, Mapped, Unheard
<1> QED BY <1>1, ReleaseLeaves

(* Handlers of clc.                                                        *)
LEMMA RecvRun ==
  ASSUME OInv, RunInv, NEW c \in Conns, ClcRecv(c)
  PROVE  RunInv'
<1>0. /\ sv \in [Conns -> Released .. Serving] /\ UNCHANGED <<node, ans, job>>
      /\ job' \notin Waiting \/ (job \in Waiting /\ node = "none" /\ ans = <<>>)
  BY DEF OInv, LinkOK, RunInv, ClcRecv, OsmAuthRequest, OsmAuthReply, OsmRegister,
         OsmReported, OsmGone, wire
<1>1. CASE OsmAuthRequest(c)
  <2>0. sv[c] # Released BY <1>1 DEF OsmAuthRequest, Has
  <2>1. CASE SendFails(c)
    BY <1>0, <2>1, RunIdle DEF SendFails, history
  <2>2. CASE ly_entity_update(c, Online) /\ Forget(Mapped \ {c})
    <3>1. /\ Unreleased' \subseteq Unreleased \ (Mapped \ {c}) /\ Unheard' \subseteq Unheard
      BY <2>0, <2>2 DEF ly_entity_update, Unreleased, Unheard, Online, Released, Fresh
    <3> QED BY <1>0, <2>2, <3>1, RunKept DEF Forget
  <2> QED BY <1>1, <2>1, <2>2 DEF OsmAuthRequest
<1>2. CASE OsmAuthReply(c) \/ OsmRegister(c) \/ OsmReported(c)
  <2>1. /\ Unreleased' \subseteq Unreleased \ {} /\ Unheard' \subseteq Unheard
        /\ cur' = cur \ {} /\ ghosts' = ghosts \ {}
    <3>1. CASE OsmAuthReply(c)
      <4>1. sv[c] # Released /\ UNCHANGED <<cur, ghosts>>
        BY <3>1 DEF OsmAuthReply, Has, history
      <4>2. \A d \in Conns : sv'[d] # sv[d] => d = c /\ sv'[d] = Authenticated
        BY <1>0, <3>1 DEF OsmAuthReply
      <4> QED BY <4>1, <4>2 DEF Unreleased, Unheard, Authenticated, Fresh
    <3>2. CASE OsmRegister(c)
      BY <1>0, <3>2 DEF OsmRegister, SendFails, ly_entity_update, Has, Unreleased, Unheard,
                        history, Registered, Released, Fresh
    <3>3. CASE OsmReported(c)
      BY <1>0, <3>3 DEF OsmReported, Has, Unreleased, Unheard, Running, Serving, Fresh
    <3> QED BY <1>2, <3>1, <3>2, <3>3
  <2> QED BY <1>0, <2>1, RunKept
<1>3. CASE OsmGone(c)
  <2>1. ly_entity_release({c}) /\ Forget({c})
    BY <1>3 DEF OsmGone
  <2> QED BY <1>0, <2>1, ReleaseLeaves, RunKept DEF Forget
<1> QED BY <1>1, <1>2, <1>3 DEF ClcRecv

(* Steps that leave the entities, the node and its answers alone.          *)
LEMMA QuietRun ==
  ASSUME OInv, RunInv,
         \/ WaitForOsm \/ QueryAll \/ InstanceInfo \/ NodeQuery \/ NodeGone
         \/ NodeRegistered \/ LinkCut \/ AppChange \/ Challenged \/ RegisterDone
         \/ SocketClosed \/ RegisterFailed \/ ReadPacket \/ RunScript
  PROVE  RunInv'
<1>1. CASE \/ QueryAll \/ InstanceInfo \/ NodeQuery \/ NodeRegistered \/ LinkCut \/ AppChange
  <2>1. UNCHANGED <<sv, cur, ghosts, node, ans, job>>
    BY <1>1 DEF QueryAll, InstanceInfo, NodeQuery, NodeRegistered, LinkCut, AppChange,
                guest, link, wire, history
  <2> QED BY <2>1, RunIdle DEF RunInv
<1>2. CASE WaitForOsm \/ NodeGone
  <2>1. /\ UNCHANGED <<sv, cur, ghosts, node, ans>>
        /\ job' = "none" \/ job \in Waiting
    BY <1>2 DEF WaitForOsm, NodeGone, Waiting, link, wire, history
  <2> QED BY <2>1, RunIdle DEF RunInv, Waiting
<1>3. CASE \/ Challenged \/ RegisterDone \/ SocketClosed \/ RegisterFailed
           \/ ReadPacket \/ RunScript
  <2>1. UNCHANGED <<sv, cur, ghosts, node, ans, job>>
    BY <1>3 DEF Challenged, RegisterDone, SocketClosed, RegisterFailed,
                ReadPacket, RunScript, guest, wire, history
  <2> QED BY <2>1, RunIdle DEF RunInv
<1> QED BY <1>1, <1>2, <1>3

LEMMA NewJobRun ==
  ASSUME OInv, RunInv, NEW a \in Requests, NewJob(a)
  PROVE  RunInv'
<1>1. /\ ans = <<>> /\ ans' = <<>> /\ node' \in {"none"} \cup Requests
      /\ job' \in {"none"} \cup Requests
  BY DEF NewJob
<1>2. "none" \notin Waiting /\ Requests \cap Waiting = {} /\ "rebooting" \notin Requests
  BY DEF Waiting, Requests
<1>3. CASE UNCHANGED <<sv, cur, ghosts>>
  <2>1. UNCHANGED <<Unreleased, Unheard>> BY <1>3 DEF Unreleased, Unheard
  <2> QED BY <1>1, <1>2, <1>3, <2>1 DEF RunInv
<1>4. CASE ly_entity_release(Mapped) /\ Forget(Mapped)
  <2>1. Unreleased' \subseteq Unheard \ Mapped /\ Unheard' \subseteq Unheard \ Mapped
    BY <1>4, MappedReleased
  <2> QED BY <1>1, <1>2, <1>4, <2>1 DEF RunInv, Forget
<1> QED BY <1>3, <1>4 DEF NewJob, history

(* The handlers of the node's answers.                                     *)
LEMMA AnswerRun ==
  ASSUME OInv, RunInv, Clc
  PROVE  RunInv'
<1>0. ans \in Shapes /\ node' = node BY DEF RunInv, Clc, Started, Ended, RebootStopped, Stopped, NoSuchJob
<1>1. CASE Started \/ Ended
  <2>1. PICK m \in {"411", "ended"} : NextAnswer(m) BY <1>1 DEF Started, Ended
  <2>2. ans = <<m>> /\ ans' = <<>> BY <1>0, <2>1, ReadAnswer
  <2>3. UNCHANGED <<sv, cur, ghosts>> BY <1>1 DEF Started, Ended, link, history
  <2>4. UNCHANGED <<Unreleased, Unheard>> BY <2>3 DEF Unreleased, Unheard
  <2>5. node = "none"
    <3>1. ans # <<>> /\ ans # <<"RUNNING_STOPPED">> BY <2>2
    <3> QED BY <3>1 DEF RunInv
  <2>6. ans \notin StopShapes BY <2>1, <2>2, NotStops
  <2> QED BY <1>0, <2>2, <2>3, <2>4, <2>5, <2>6, NotStops DEF RunInv, Requests
<1>2. CASE RebootStopped \/ Stopped
  <2>1. PICK m \in StopAnswers : NextAnswer(m) BY <1>2 DEF RebootStopped, Stopped, StopAnswers
  <2>2. ans # <<>> /\ ans' \in {<<>>, <<"411">>, <<"ended">>}
    BY <1>0, <2>1, ReadAnswer DEF StopAnswers, NextAnswer
  <2>3. ly_entity_release(Mapped) /\ Forget(Mapped) /\ job' \in {"none", "reboot"}
    BY <1>2 DEF RebootStopped, Stopped
  <2>4. Unreleased' \subseteq Unheard \ Mapped /\ Unheard' \subseteq Unheard \ Mapped
    BY <2>3, MappedReleased
  <2>5. node' \notin Requests /\ (node' = "rebooting" => ans' = <<>>)
    <3>1. CASE node = "rebooting"
      <4>1. ans = <<"RUNNING_STOPPED">> BY <2>2, <3>1 DEF RunInv
      <4> QED BY <1>0, <2>1, <3>1, <4>1 DEF NextAnswer, Requests
    <3>2. CASE node # "rebooting" BY <1>0, <2>2, <3>2 DEF RunInv
    <3> QED BY <3>1, <3>2
  <2>6. job' \notin Waiting BY <2>3 DEF Waiting
  <2> QED BY <1>0, <2>2, <2>3, <2>4, <2>5, <2>6, NotStops DEF RunInv, Forget
<1>3. CASE NoSuchJob
  <2>1. PICK m : NextAnswer(m) /\ ghosts' = (IF m \in StopAnswers
                        THEN ghosts \cup (Unreleased \ cur) ELSE ghosts)
    BY <1>3 DEF NoSuchJob
  <2>2. UNCHANGED <<sv, cur, job>> /\ job = "none" BY <1>3 DEF NoSuchJob, link
  <2>3. UNCHANGED <<Unreleased, Unheard>> BY <2>2 DEF Unreleased, Unheard
  <2>4. ans # <<>> /\ ans' \in {<<>>, <<"411">>, <<"ended">>}
    BY <1>0, <2>1, ReadAnswer DEF NextAnswer
  <2>5. node' \notin Requests /\ (node' = "rebooting" => ans' = <<>>)
    <3>1. CASE node = "rebooting"
      <4>1. ans = <<"RUNNING_STOPPED">> BY <2>4, <3>1 DEF RunInv
      <4> QED BY <1>0, <2>1, <3>1, <4>1 DEF NextAnswer, Requests
    <3>2. CASE node # "rebooting" BY <1>0, <2>4, <3>2 DEF RunInv
    <3> QED BY <3>1, <3>2
  <2>6. Unreleased \subseteq cur \cup ghosts'
    <3>1. CASE m \in StopAnswers BY <2>1, <3>1
    <3>2. CASE m \notin StopAnswers
      <4>1. ans = <<m>> /\ m \in {"411", "ended"}
        BY <1>0, <2>1, <3>2, ReadAnswer DEF StopAnswers
      <4>2. ans \notin StopShapes BY <4>1, NotStops
      <4> QED BY <2>1, <3>2, <4>2 DEF RunInv
    <3> QED BY <3>1, <3>2
  <2>7. Unheard \subseteq Unreleased BY DEF Unheard, Unreleased, Fresh, Released
  <2> QED BY <1>0, <2>2, <2>3, <2>4, <2>5, <2>6, <2>7, NotStops DEF RunInv, Waiting
<1> QED BY <1>1, <1>2, <1>3 DEF Clc

(* Jobs that time out and a restart release the entities.                  *)
LEMMA ReleasingRun ==
  ASSUME OInv, RunInv, JobTimeout \/ ClcRestart
  PROVE  RunInv'
<1>1. CASE JobTimeout
  <2>1. /\ ly_entity_release(Mapped) /\ Forget(Mapped) /\ UNCHANGED <<node, ans>>
        /\ job' \notin Waiting
    BY <1>1 DEF JobTimeout, wire, Waiting
  <2>2. Unreleased' = Unreleased \ Mapped /\ Unheard' \subseteq Unheard
    BY <2>1, ReleaseLeaves
  <2> QED BY <2>1, <2>2, RunKept DEF Forget
<1>2. CASE ClcRestart
  <2>1. /\ ly_entity_release(Conns) /\ ans' = <<>> /\ job' \notin Waiting
        /\ node' \in {node, "none"}
    BY <1>2 DEF ClcRestart, Waiting
  <2>2. Unreleased' = {} /\ Unheard' = {}
    BY <2>1, ReleaseLeaves DEF Unreleased, Unheard
  <2> QED BY <2>1, <2>2, NotStops DEF RunInv
<1> QED BY <1>1, <1>2

(* The node at work: it answers once it is done with a request, and in the *)
(* middle of a reboot.                                                     *)
LEMMA NodeRunRun ==
  ASSUME OInv, RunInv, NodeRun \/ NodeFails
  PROVE  RunInv'
<1>1. /\ UNCHANGED <<sv, cur, ghosts, job>> /\ node' = "none" /\ node # "none"
      /\ node = "rebooting" \/ node \in Requests
  BY DEF NodeRun, NodeFails, Requests, RunInv, link, history
<1>2. PICK m \in {"411", "ended"} : Answer(m) BY DEF NodeRun, NodeFails
<1>3. UNCHANGED <<Unreleased, Unheard>> BY <1>1 DEF Unreleased, Unheard
<1>4. /\ ans \in {<<>>, <<"RUNNING_STOPPED">>} /\ job \notin Waiting
      /\ "none" \notin Requests
  BY <1>1 DEF RunInv, Requests
<1>5. ans' \in Shapes /\ (ans \in StopShapes <=> ans' \in StopShapes)
  <2>1. CASE ans = <<>>
    <3>1. ans' \in {<<>>, <<"411">>, <<"ended">>} BY <1>2, <2>1 DEF Answer
    <3> QED BY <2>1, <3>1, NotStops
  <2>2. CASE ans = <<"RUNNING_STOPPED">>
    <3>1. \A x \in {"411", "ended"} :
            Append(<<"RUNNING_STOPPED">>, x) = <<"RUNNING_STOPPED", x>>
      <4> TAKE x \in {"411", "ended"}
      <4> DEFINE one == <<"RUNNING_STOPPED">>
                 two == <<"RUNNING_STOPPED", x>>
      <4>1. one \in Seq(NodeAnswers) /\ x \in NodeAnswers /\ two \in Seq(NodeAnswers)
        BY DEF NodeAnswers
      <4>2. Append(one, x) \in Seq(NodeAnswers) BY <4>1
      <4>3. Len(Append(one, x)) = 2 /\ Len(two) = 2 BY <4>1
      <4>4. \A k \in 1 .. 2 : Append(one, x)[k] = two[k] BY <4>1
      <4> QED BY <4>1, <4>2, <4>3, <4>4, SeqEqual
    <3>2. \/ ans' = ans \/ ans' = <<"RUNNING_STOPPED", "411">>
          \/ ans' = <<"RUNNING_STOPPED", "ended">>
      BY <1>2, <2>2, <3>1, Zenon DEF Answer
    <3>3. ans' \in StopShapes /\ ans \in StopShapes
      BY <2>2, <3>2, Zenon DEF StopShapes
    <3> QED BY <3>3, NotStops
  <2> QED BY <1>4, <2>1, <2>2
<1> QED BY <1>1, <1>3, <1>4, <1>5 DEF RunInv

LEMMA NodeStopRun ==
  ASSUME OInv, RunInv, NodeStop
  PROVE  RunInv'
<1>1. /\ sv' = sv /\ job' = job /\ node \in Requests /\ cur' = {}
      /\ ghosts' = ghosts \cup {c \in Unreleased : sv[c] = Fresh \/ nlink # "up"}
  BY DEF NodeStop, SwitchOff, Requests
<1>2. UNCHANGED <<Unreleased, Unheard>> BY <1>1 DEF Unreleased, Unheard
<1>3. ans = <<>> /\ job \notin Waiting BY <1>1 DEF RunInv, Requests
<1>4. Unheard \subseteq ghosts' /\ (nlink # "up" => Unreleased \subseteq ghosts')
  BY <1>1 DEF Unheard, Unreleased, Fresh, Released
<1>5. CASE nlink # "up"
  <2>1. ans' = <<>> /\ node' \in {"none", "rebooting"}
    BY <1>3, <1>5 DEF NodeStop, Answer
  <2>2. "none" \notin Requests /\ "rebooting" \notin Requests BY DEF Requests
  <2> QED BY <1>1, <1>2, <1>3, <1>4, <1>5, <2>1, <2>2, NotStops DEF RunInv
<1>6. CASE nlink = "up"
  <2>1. \/ ans' = <<"RUNNING_STOPPED">> /\ node' = "rebooting"
        \/ ans' = <<"stopped">> /\ node' = "none"
    BY <1>3, <1>6 DEF NodeStop, Answer
  <2>2. /\ "none" \notin Requests /\ "rebooting" \notin Requests
        /\ <<"stopped">> \in StopShapes /\ <<"RUNNING_STOPPED">> \in StopShapes
    BY DEF Requests, StopShapes
  <2> QED BY <1>1, <1>2, <1>3, <1>4, <2>1, <2>2, NotStops DEF RunInv
<1> QED BY <1>5, <1>6

LEMMA NodeCutRun ==
  ASSUME OInv, RunInv, NodeCut
  PROVE  RunInv'
<1>1. /\ UNCHANGED <<sv, cur, job>> /\ ans' = <<>> /\ node' \in {node, "none"}
      /\ ghosts' = IF StopUnderWay THEN ghosts \cup (Unreleased \ cur) ELSE ghosts
  BY DEF NodeCut, link
<1>2. StopUnderWay <=> ans \in StopShapes BY ShapeOf DEF RunInv, StopUnderWay
<1>3. UNCHANGED <<Unreleased, Unheard>> BY <1>1 DEF Unreleased, Unheard
<1>4. Unreleased \subseteq cur \cup ghosts' BY <1>1, <1>2 DEF RunInv
<1>5. Unheard \subseteq Unreleased BY DEF Unheard, Unreleased, Fresh, Released
<1> QED BY <1>1, <1>3, <1>4, <1>5, NotStops DEF RunInv

(* The guest goes or boots by itself, the OSM connects.                    *)
LEMMA GuestRun ==
  ASSUME OInv, RunInv, GuestDies \/ GuestReboots \/ Connect
  PROVE  RunInv'
<1>1. CASE GuestDies \/ GuestReboots
  <2>1. /\ UNCHANGED <<sv, node, ans>> /\ ghosts' = ghosts \cup Unreleased
        /\ job' = job \/ job' = "none"
    BY <1>1 DEF GuestDies, GuestReboots, wire
  <2>2. UNCHANGED <<Unreleased, Unheard>> BY <2>1 DEF Unreleased, Unheard
  <2>3. Unheard \subseteq Unreleased BY DEF Unheard, Unreleased, Fresh, Released
  <2> QED BY <2>1, <2>2, <2>3 DEF RunInv, Waiting
<1>2. CASE Connect
  <2>1. PICK c \in Conns : sv' = [sv EXCEPT ![c] = Fresh] /\ cur' = cur \cup {c}
    BY <1>2 DEF Connect
  <2>2. UNCHANGED <<node, ans, job, ghosts>> BY <1>2 DEF Connect, wire
  <2>3. Unreleased' \subseteq Unreleased \cup {c} /\ Unheard' \subseteq Unheard \cup {c}
    BY <2>1 DEF OInv, LinkOK, Unreleased, Unheard
  <2> QED BY <2>1, <2>2, <2>3 DEF RunInv
<1> QED BY <1>1, <1>2

LEMMA RunInvariance == Spec => []RunInv
<1>1. Init => RunInv
  BY NotStops DEF Init, RunInv, Unreleased, Unheard, Released, Fresh, Requests, Waiting
<1>2. OInv /\ RunInv /\ [Next]_vars => RunInv'
  <2> SUFFICES ASSUME OInv, RunInv, [Next]_vars PROVE RunInv' OBVIOUS
  <2>1. CASE UNCHANGED vars BY <2>1, RunIdle DEF vars, RunInv
  <2>2. CASE Next
    BY <2>2, RecvRun, QuietRun, NewJobRun, AnswerRun, ReleasingRun, NodeRunRun, NodeStopRun,
       NodeCutRun, GuestRun DEF Next, Node, Osm
  <2> QED BY <2>1, <2>2
<1> QED BY <1>1, <1>2, LinkInvariance, PTL DEF Spec

(* The entity that a RUN or a FULLREBOOT looks at belongs to the run of    *)
(* the guest that it started, unless a guest before it went without clc    *)
(* being told: LY_S_RUNNING_STOPPED releases the old entity before 411     *)
(* makes the job wait (ev_node.c, handler.c).                              *)
THEOREM JobsWaitForThisRun == Spec => []WaitsForThisRun
<1>1. RunInv => WaitsForThisRun
  BY NotStops
     DEF RunInv, WaitsForThisRun, Waiting, Unreleased, Mapped, Released, Online
<1> QED BY <1>1, RunInvariance, PTL

-----------------------------------------------------------------------------
(* Types.  The bounds of the two queues of a connection rest on the order  *)
(* of the handshake again: one request at a time is on its way to clc or   *)
(* being answered, and the OSM sends its reply and its registration into a *)
(* queue that the answer to its request has found empty.                   *)

Asks(m) == m[1] \in {"auth request", "register"}

Orderly(u, d) ==
  /\ Len(u) <= MaxUp + 2 /\ Len(d) <= 1
  /\ \A i, k \in 1 .. Len(u) : Asks(u[i]) /\ Asks(u[k]) => i = k
  /\ d # <<>> => \A i \in 1 .. Len(u) : ~Asks(u[i])

Counting ==
  /\ \A c \in Conns : Orderly(up[c], down[c])
  /\ osm.at = "auth" => up[osm.conn] \in {<<>>, << <<"auth request">> >>}

LEMMA OrderlyTail ==
  ASSUME NEW u \in Seq(Packets), NEW d \in Seq(Answers), u # <<>>, Orderly(u, d)
  PROVE  Orderly(Tail(u), d)
<1>1. /\ Len(u) \in Nat /\ Len(Tail(u)) = Len(u) - 1
      /\ \A i \in 1 .. Len(Tail(u)) : i + 1 \in 1 .. Len(u) /\ Tail(u)[i] = u[i + 1]
  OBVIOUS
<1> QED BY <1>1, BoundsAssumption DEF Orderly

(* The request at the head is answered.                                    *)
LEMMA OrderlyAnswer ==
  ASSUME NEW u \in Seq(Packets), NEW d \in Seq(Answers), u # <<>>, Asks(Head(u)),
         Orderly(u, d), NEW m \in Answers
  PROVE  Orderly(Tail(u), Append(d, m))
<1>1. /\ Len(u) \in Nat /\ Len(Tail(u)) = Len(u) - 1 /\ 1 \in 1 .. Len(u) /\ u[1] = Head(u)
      /\ \A i \in 1 .. Len(Tail(u)) :
            i + 1 \in 1 .. Len(u) /\ i + 1 # 1 /\ Tail(u)[i] = u[i + 1]
  OBVIOUS
<1>2. d = <<>> BY <1>1 DEF Orderly
<1>3. \A i \in 1 .. Len(Tail(u)) : ~Asks(Tail(u)[i]) BY <1>1 DEF Orderly
<1>4. Len(Append(d, m)) = 1 BY <1>2
<1> QED BY <1>1, <1>3, <1>4, BoundsAssumption DEF Orderly

LEMMA OrderlyRead ==
  ASSUME NEW u, NEW d \in Seq(Answers), d # <<>>, Orderly(u, d)
  PROVE  Orderly(u, Tail(d)) /\ Tail(d) = <<>>
<1>0. Len(d) \in Nat /\ Len(d) # 0 BY EmptySeq
<1>1. Len(d) = 1
  <2>1. Len(d) <= 1 BY Zenon DEF Orderly
  <2>2. \A n \in Nat : n # 0 /\ n <= 1 => n = 1 OBVIOUS
  <2> QED BY <1>0, <2>1, <2>2, Zenon
<1>2. Tail(d) \in Seq(Answers) /\ Len(Tail(d)) = 0 BY <1>1
<1>3. Tail(d) = <<>> BY <1>2, EmptySeq
<1> QED BY <1>2, <1>3 DEF Orderly

LEMMA OrderlyDrop ==
  ASSUME NEW u, NEW d, Orderly(u, d)
  PROVE  Orderly(<<>>, d) /\ Orderly(u, <<>>) /\ Orderly(<<>>, <<>>)
<1>1. Len(<<>>) = 0 OBVIOUS
<1> QED BY <1>1, BoundsAssumption DEF Orderly

LEMMA OrderlyReport ==
  ASSUME NEW u \in Seq(Packets), NEW d, NEW s, Orderly(u, d), Len(u) < MaxUp
  PROVE  Orderly(u \o << <<"report", s>> >>, d)
<1> DEFINE v == u \o << <<"report", s>> >>
<1>1. /\ Len(u) \in Nat /\ Len(v) = Len(u) + 1 /\ v[Len(u) + 1] = <<"report", s>>
      /\ \A i \in 1 .. Len(u) : v[i] = u[i]
  OBVIOUS
<1>2. ~Asks(<<"report", s>>) BY DEF Asks
<1> HIDE DEF v
<1>3. \A i \in 1 .. Len(v) : Asks(v[i]) => i \in 1 .. Len(u) /\ v[i] = u[i]
  BY <1>1, <1>2
<1>4. Len(v) <= MaxUp + 2 BY <1>1, BoundsAssumption
<1>5. Orderly(v, d) BY <1>3, <1>4 DEF Orderly
<1> QED BY <1>5 DEF v

LEMMA OrderlyShort ==
  ASSUME NEW w, NEW n \in {0, 1, 2}, Len(w) = n, n = 2 => ~Asks(w[1])
  PROVE  Orderly(w, <<>>)
<1>1. Len(<<>>) = 0 OBVIOUS
<1>2. n <= MaxUp + 2 BY BoundsAssumption
<1>3. ASSUME NEW i \in 1 .. n, NEW k \in 1 .. n, Asks(w[i]), Asks(w[k])
      PROVE  i = k
  BY <1>3
<1> QED BY <1>1, <1>2, <1>3 DEF Orderly

LEMMA OrderlyFirst ==
  /\ Orderly(<<>>, <<>>)
  /\ Orderly(<< <<"auth request">> >>, <<>>)
  /\ Orderly(<< <<"auth reply">>, <<"register">> >>, <<>>)
<1>1. PICK x, v, w : /\ x = <<>> /\ v = << <<"auth request">> >>
                     /\ w = << <<"auth reply">>, <<"register">> >>
  OBVIOUS
<1>2. Len(x) = 0 /\ Len(v) = 1 BY <1>1
<1>3. Len(w) = 2 /\ w[1] = <<"auth reply">> BY <1>1
<1>4. ~Asks(<<"auth reply">>) BY DEF Asks
<1>5. Orderly(x, <<>>) /\ Orderly(v, <<>>) BY <1>2, OrderlyShort
<1>6. Orderly(w, <<>>) BY <1>3, <1>4, OrderlyShort
<1> QED BY <1>1, <1>5, <1>6


(* clc takes a packet from a connection, and may answer it.                *)
LEMMA CountPop ==
  ASSUME OInv, Counting, osm' = osm, NEW c \in Conns, up[c] # <<>>,
         up'[c] = Tail(up[c]), \A d \in Conns \ {c} : up'[d] \in {<<>>, up[d]},
         \A d \in Conns \ {c} : down'[d] = down[d],
         \/ down'[c] = down[c]
         \/ Asks(Head(up[c])) /\ \E m \in Answers : down'[c] = Append(down[c], m)
  PROVE  Counting'
<1>1. \A d \in Conns : up[d] \in Seq(Packets) /\ down[d] \in Seq(Answers)
                       /\ Orderly(up[d], down[d])
  BY DEF OInv, LinkOK, Counting
<1>2. Orderly(up'[c], down'[c])
  <2>1. CASE down'[c] = down[c] BY <1>1, <2>1, OrderlyTail
  <2>2. CASE Asks(Head(up[c])) /\ \E m \in Answers : down'[c] = Append(down[c], m)
    BY <1>1, <2>2, OrderlyAnswer
  <2> QED BY <2>1, <2>2
<1>3. ASSUME NEW d \in Conns \ {c} PROVE Orderly(up'[d], down'[d])
  BY <1>1, OrderlyDrop
<1>4. ASSUME osm.at = "auth" PROVE up'[osm.conn] \in {<<>>, << <<"auth request">> >>}
  <2>1. osm.conn \in Conns BY <1>4 DEF OInv, LinkOK
  <2>2. up[osm.conn] \in {<<>>, << <<"auth request">> >>} BY <1>4 DEF Counting
  <2>3. Tail(<< <<"auth request">> >>) = <<>> OBVIOUS
  <2>4. CASE osm.conn = c BY <2>2, <2>3, <2>4
  <2>5. CASE osm.conn # c BY <2>1, <2>2, <2>5
  <2> QED BY <2>4, <2>5
<1> QED BY <1>2, <1>3, <1>4 DEF Counting

(* Queues are dropped, and the OSM does not begin a registration.          *)
LEMMA CountDrop ==
  ASSUME OInv, Counting, osm'.at = "auth" => osm.at = "auth" /\ osm'.conn = osm.conn,
         \A d \in Conns : up'[d] \in {<<>>, up[d]} /\ down'[d] \in {<<>>, down[d]}
  PROVE  Counting'
<1>1. \A d \in Conns : Orderly(up'[d], down'[d])
  BY OrderlyDrop DEF Counting
<1>2. ASSUME osm'.at = "auth" PROVE up'[osm'.conn] \in {<<>>, << <<"auth request">> >>}
  BY <1>2 DEF OInv, LinkOK, Counting
<1> QED BY <1>1, <1>2 DEF Counting

LEMMA RecvCount ==
  ASSUME OInv, Counting, NEW c \in Conns, ClcRecv(c)
  PROVE  Counting'
<1>0. /\ up \in [Conns -> Seq(Packets)] /\ down \in [Conns -> Seq(Answers)]
  BY DEF OInv, LinkOK
<1>1. ASSUME Pop(c)
      PROVE  up'[c] = Tail(up[c]) /\ \A d \in Conns \ {c} : up'[d] \in {<<>>, up[d]}
  BY <1>0, <1>1 DEF Pop
<1>2. ASSUME NEW m \in Answers, Send(c, m), Asks(Head(up[c]))
      PROVE  /\ \A d \in Conns \ {c} : down'[d] = down[d]
             /\ \/ down'[c] = down[c]
                \/ /\ Asks(Head(up[c]))
                   /\ \E n \in Answers : down'[c] = Append(down[c], n)
  BY <1>0, <1>2 DEF Send
<1>3. CASE OsmAuthRequest(c)
  <2>1. osm' = osm /\ up[c] # <<>> /\ Asks(Head(up[c]))
    BY <1>3 DEF OsmAuthRequest, guest, Has, Asks
  <2>2. CASE SendFails(c)
    BY <1>1, <2>1, <2>2, CountPop DEF SendFails
  <2>3. CASE Send(c, "auth") /\ up' = [Drop(Mapped \ {c}) EXCEPT ![c] = Tail(up[c])]
    <3>1. up'[c] = Tail(up[c]) /\ \A d \in Conns \ {c} : up'[d] \in {<<>>, up[d]}
      BY <2>3 DEF Drop
    <3>2. "auth" \in Answers BY DEF Answers
    <3> QED BY <1>2, <2>1, <2>3, <3>1, <3>2, CountPop
  <2> QED BY <1>3, <2>2, <2>3 DEF OsmAuthRequest
<1>4. CASE OsmAuthReply(c) \/ OsmReported(c)
  <2>1. UNCHANGED <<osm, down>> /\ up[c] # <<>> /\ Pop(c)
    BY <1>4 DEF OsmAuthReply, OsmReported, guest, Has
  <2> QED BY <1>1, <2>1, CountPop
<1>5. CASE OsmRegister(c)
  <2>1. osm' = osm /\ up[c] # <<>> /\ Asks(Head(up[c])) /\ Pop(c)
    BY <1>5 DEF OsmRegister, guest, Has, Asks, SendFails
  <2>2. CASE SendFails(c)
    BY <1>1, <2>1, <2>2, CountPop DEF SendFails
  <2>3. CASE Send(c, "registered")
    <3>1. "registered" \in Answers BY DEF Answers
    <3> QED BY <1>1, <1>2, <2>1, <2>3, <3>1, CountPop
  <2> QED BY <1>5, <2>2, <2>3 DEF OsmRegister
<1>6. CASE OsmGone(c)
  <2>1. UNCHANGED <<osm, down>> /\ ly_entity_release({c})
    BY <1>6 DEF OsmGone, guest
  <2> QED BY <2>1, CountDrop DEF ly_entity_release, Drop
<1> QED BY <1>3, <1>4, <1>5, <1>6 DEF ClcRecv

(* Steps that send and read nothing.                                       *)
LEMMA QuietCount ==
  ASSUME OInv, Counting,
         \/ \E a \in Requests : NewJob(a)
         \/ Clc \/ WaitForOsm \/ JobTimeout \/ QueryAll \/ InstanceInfo
         \/ Node \/ NodeFails \/ NodeQuery \/ NodeCut \/ NodeGone \/ NodeRegistered
         \/ GuestDies \/ GuestReboots \/ LinkCut \/ ClcRestart \/ AppChange
         \/ SocketClosed \/ RegisterFailed \/ UNCHANGED vars
  PROVE  Counting'
<1>0. /\ up \in [Conns -> Seq(Packets)] /\ down \in [Conns -> Seq(Answers)]
      /\ osm \in [at : {"off", "idle", "auth", "reg", "up"}, conn : Conns \cup {NoConn},
                  registered : BOOLEAN, notify : BOOLEAN, told : AppStates \cup {"nothing"}]
  BY DEF OInv, LinkOK
<1>1. CASE \/ Started \/ Ended \/ NoSuchJob \/ WaitForOsm \/ QueryAll
           \/ InstanceInfo \/ NodeFails \/ NodeQuery \/ NodeCut \/ NodeGone
           \/ NodeRegistered \/ AppChange \/ UNCHANGED vars
  <2>1. UNCHANGED <<osm, up, down>>
    BY <1>1 DEF Started, Ended, NoSuchJob, WaitForOsm, QueryAll, InstanceInfo, NodeFails,
                NodeQuery, NodeCut, NodeGone, NodeRegistered, AppChange, vars, guest, link
  <2> QED BY <2>1, CountDrop
<1>2. CASE RebootStopped \/ Stopped \/ JobTimeout \/ ClcRestart
  <2>1. UNCHANGED <<osm, down>> /\ \E S : ly_entity_release(S)
    BY <1>2 DEF RebootStopped, Stopped, JobTimeout, ClcRestart, guest
  <2> QED BY <2>1, CountDrop DEF ly_entity_release, Drop
<1>7. CASE \E a \in Requests : NewJob(a)
  <2>1. UNCHANGED <<osm, down>> /\ (up' = up \/ ly_entity_release(Mapped))
    BY <1>7 DEF NewJob, guest
  <2> QED BY <2>1, CountDrop DEF ly_entity_release, Drop
<1>3. CASE NodeRun
  <2>1. UNCHANGED <<up, down>> /\ (osm' = osm \/ osm'.at = "idle")
    BY <1>3 DEF NodeRun, OsmOff, link
  <2> QED BY <2>1, CountDrop
<1>4. CASE NodeStop \/ GuestDies \/ GuestReboots
  <2>1. up' = up /\ osm'.at \in {"off", "idle"} /\ \A d \in Conns : down'[d] = <<>>
    BY <1>4 DEF NodeStop, GuestDies, GuestReboots, SwitchOff, OsmOff
  <2> QED BY <2>1, CountDrop
<1>5. CASE LinkCut
  <2>1. osm' = osm BY <1>5 DEF LinkCut, guest
  <2>2. \A d \in Conns : up'[d] \in {<<>>, up[d]} /\ down'[d] \in {<<>>, down[d]}
    BY <1>0, <1>5 DEF LinkCut
  <2> QED BY <2>1, <2>2, CountDrop
<1>6. CASE SocketClosed \/ RegisterFailed
  <2>1. up' = up /\ osm'.at # "auth"
    BY <1>0, <1>6 DEF SocketClosed, RegisterFailed, Close
  <2>2. \A d \in Conns : down'[d] \in {<<>>, down[d]}
    BY <1>0, <1>6 DEF SocketClosed, RegisterFailed, Close
  <2> QED BY <2>1, <2>2, CountDrop
<1> QED BY <1>1, <1>2, <1>3, <1>4, <1>5, <1>6, <1>7 DEF Clc, Node

(* The OSM sends and reads.                                                *)
LEMMA OsmCount ==
  ASSUME OInv, Counting, Connect \/ Challenged \/ RegisterDone \/ ReadPacket \/ RunScript
  PROVE  Counting'
<1> DEFINE c == osm.conn
<1>0. /\ up \in [Conns -> Seq(Packets)] /\ down \in [Conns -> Seq(Answers)]
      /\ osm \in [at : {"off", "idle", "auth", "reg", "up"}, conn : Conns \cup {NoConn},
                  registered : BOOLEAN, notify : BOOLEAN, told : AppStates \cup {"nothing"}]
      /\ osm.at \in {"auth", "reg", "up"} => c \in Conns
      /\ \A d \in Conns : Orderly(up[d], down[d])
  BY DEF OInv, LinkOK, Counting
<1>1. CASE Connect
  <2>1. PICK e \in Conns : /\ cl[e] = "gone" /\ osm'.conn = e
                           /\ up' = [up EXCEPT ![e] = << <<"auth request">> >>]
    BY <1>0, <1>1 DEF Connect
  <2>2. down' = down /\ down[e] = <<>> BY <1>1, <2>1 DEF Connect, OInv, Closed
  <2>3. up'[e] = << <<"auth request">> >> /\ \A d \in Conns \ {e} : up'[d] = up[d]
    BY <1>0, <2>1
  <2>4. Orderly(up'[e], down'[e]) BY <2>2, <2>3, OrderlyFirst
  <2> QED BY <1>0, <2>1, <2>2, <2>3, <2>4 DEF Counting
<1>2. CASE Challenged
  <2>1. /\ c \in Conns /\ down[c] # <<>> /\ osm'.at = "reg" /\ osm.at = "auth"
        /\ down' = [down EXCEPT ![c] = Tail(@)]
        /\ socksend(c, << <<"auth reply">>, <<"register">> >>)
    BY <1>0, <1>2 DEF Challenged, Got
  <2>2. up[c] = <<>>
    <3>1. Asks(<<"auth request">>) BY DEF Asks
    <3>2. \A i \in 1 .. Len(up[c]) : ~Asks(up[c][i]) BY <1>0, <2>1 DEF Orderly
    <3>3. up[c] \in {<<>>, << <<"auth request">> >>} BY <2>1 DEF Counting
    <3>4. CASE up[c] = << <<"auth request">> >>
      <4>1. PICK v : v = << <<"auth request">> >> OBVIOUS
      <4>2. Len(v) = 1 BY <4>1
      <4>3. 1 \in 1 .. Len(v) BY <4>2
      <4>4. v[1] = <<"auth request">> BY <4>1
      <4>5. up[c] = v BY <3>4, <4>1
      <4> QED BY <3>1, <3>2, <4>3, <4>4, <4>5, Zenon
    <3> QED BY <3>3, <3>4
  <2>3. /\ up'[c] \in {<<>>, << <<"auth reply">>, <<"register">> >>}
        /\ \A d \in Conns \ {c} : up'[d] = up[d]
    <3>1. PICK w : w = << <<"auth reply">>, <<"register">> >> OBVIOUS
    <3>2. <<>> \o w = w
      <4>1. <<"auth reply">> \in Packets /\ <<"register">> \in Packets
        BY Zenon DEF Packets
      <4>2. \A a, b \in Packets : <<a, b>> \in Seq(Packets) OBVIOUS
      <4>3. w \in Seq(Packets) BY <3>1, <4>1, <4>2, Zenon
      <4> QED BY <4>3, ConcatEmptySeq
    <3>3. socksend(c, w) BY <2>1, <3>1
    <3>4. up'[c] \in {up[c], up[c] \o w} /\ \A d \in Conns \ {c} : up'[d] = up[d]
      BY <1>0, <2>1, <3>3 DEF socksend
    <3> QED BY <2>2, <3>1, <3>2, <3>4
  <2>4. down'[c] = <<>> /\ \A d \in Conns \ {c} : down'[d] = down[d]
    <3>1. down'[c] = Tail(down[c]) /\ \A d \in Conns \ {c} : down'[d] = down[d]
      BY <1>0, <2>1
    <3> QED BY <1>0, <2>1, <3>1, OrderlyRead
  <2>5. Orderly(up'[c], down'[c]) BY <2>3, <2>4, OrderlyFirst
  <2> QED BY <1>0, <2>1, <2>3, <2>4, <2>5 DEF Counting
<1>3. CASE RegisterDone \/ ReadPacket
  <2>1. /\ c \in Conns /\ down[c] # <<>> /\ osm'.at # "auth" /\ up' = up
        /\ down' = [down EXCEPT ![c] = Tail(@)]
    BY <1>0, <1>3 DEF RegisterDone, ReadPacket, Got, guest
  <2>2. Orderly(up[c], Tail(down[c])) BY <1>0, <2>1, OrderlyRead
  <2>3. down'[c] = Tail(down[c]) /\ \A d \in Conns \ {c} : down'[d] = down[d]
    BY <1>0, <2>1
  <2> QED BY <1>0, <2>1, <2>2, <2>3 DEF Counting
<1>4. CASE RunScript
  <2>1. osm.at # "auth" /\ osm'.at = osm.at /\ down' = down
    BY <1>0, <1>4 DEF RunScript
  <2>2. CASE osm.at = "idle"
    BY <1>0, <1>4, <2>1, <2>2 DEF RunScript, Counting
  <2>3. CASE osm.at = "up"
    <3>1. c \in Conns /\ Len(up[c]) < MaxUp /\ socksend(c, << <<"report", app>> >>)
      BY <1>0, <1>4, <2>3 DEF RunScript
    <3>2. /\ up'[c] \in {up[c], up[c] \o << <<"report", app>> >>}
          /\ \A d \in Conns \ {c} : up'[d] = up[d]
      BY <1>0, <3>1 DEF socksend
    <3>3. Orderly(up[c] \o << <<"report", app>> >>, down[c])
      BY <1>0, <3>1, OrderlyReport
    <3> QED BY <1>0, <2>1, <3>2, <3>3 DEF Counting
  <2> QED BY <1>4, <2>2, <2>3 DEF RunScript
<1> QED BY <1>1, <1>2, <1>3, <1>4

(* The rest of the type invariant.                                         *)
RestOK ==
  /\ vm \in BOOLEAN
  /\ osm.at \in {"off", "idle"} => osm.conn = NoConn
  /\ job \in {"none"} \cup Requests \cup Waiting
  /\ placed \in BOOLEAN /\ nlink \in {"up", "cut", "none"}
  /\ node \in {"none", "rebooting"} \cup Requests
  /\ query \subseteq {"asked", "START", "STOP"}
  /\ db \in Live \cup {"STOP", "QUERY"}
  /\ cur \subseteq Conns /\ late \subseteq Conns /\ ghosts \subseteq Conns
  /\ jobs \in 0 .. MaxJobs /\ faults \in 0 .. MaxFaults

LEMMA RecvRest ==
  ASSUME RestOK, NEW c \in Conns, ClcRecv(c)
  PROVE  RestOK'
<1>1. CASE OsmAuthRequest(c)
  BY <1>1 DEF OsmAuthRequest, SendFails, Forget, RestOK, guest, wire, history, bounds
<1>2. CASE OsmAuthReply(c)
  BY <1>2 DEF OsmAuthReply, RestOK, guest, wire, history, bounds
<1>3. CASE OsmRegister(c)
  BY <1>3 DEF OsmRegister, SendFails, RestOK, Live, guest, wire, history, bounds
<1>4. CASE OsmReported(c)
  BY <1>4 DEF OsmReported, RestOK, Live, guest, wire, bounds
<1>5. CASE OsmGone(c)
  BY <1>5 DEF OsmGone, Forget, job_internal_query_instance, RestOK, Live, guest, wire, bounds
<1> QED BY <1>1, <1>2, <1>3, <1>4, <1>5 DEF ClcRecv

LEMMA FaultsBounded ==
  ASSUME faults \in 0 .. MaxFaults, Fault
  PROVE  faults' \in 0 .. MaxFaults
BY BoundsAssumption DEF Fault

LEMMA NewJobRest ==
  ASSUME RestOK, NEW a \in Requests, NewJob(a)
  PROVE  RestOK'
<1>1. jobs' \in 0 .. MaxJobs BY BoundsAssumption DEF NewJob, RestOK
<1>2. /\ cur' \subseteq Conns /\ late' \subseteq Conns /\ ghosts' \subseteq Conns
      /\ db' \in Live \cup {"STOP", "QUERY"}
  BY DEF NewJob, Forget, RestOK, history
<1>3. /\ job' \in {"none"} \cup Requests /\ node' \in {"none"} \cup Requests
      /\ placed' \in BOOLEAN
      /\ UNCHANGED <<vm, osm, nlink, query, faults>>
  BY DEF NewJob, RestOK, guest
<1> QED BY <1>1, <1>2, <1>3 DEF RestOK

LEMMA ClcRest ==
  ASSUME RestOK,
         Clc \/ WaitForOsm \/ JobTimeout \/ QueryAll \/ InstanceInfo \/ ClcRestart
  PROVE  RestOK'
<1>2. CASE Started \/ Ended \/ NoSuchJob
  BY <1>2 DEF Started, Ended, NoSuchJob, RestOK, Live, Waiting, guest, history, bounds,
              Mapped, Unreleased
<1>3. CASE RebootStopped \/ Stopped
  BY <1>3 DEF RebootStopped, Stopped, Forget, RestOK, guest, bounds
<1>4. CASE WaitForOsm \/ QueryAll \/ InstanceInfo
  BY <1>4 DEF WaitForOsm, QueryAll, InstanceInfo, job_internal_query_instance, RestOK,
              Live, Waiting, guest, wire, history, bounds
<1>5. CASE JobTimeout
  BY <1>5, FaultsBounded
     DEF JobTimeout, job_internal_query_instance, Forget, RestOK, guest, wire
<1>6. CASE ClcRestart
  BY <1>6, FaultsBounded DEF ClcRestart, Forget, RestOK, guest
<1> QED BY <1>2, <1>3, <1>4, <1>5, <1>6 DEF Clc

LEMMA NodeRest ==
  ASSUME RestOK,
         \/ Node \/ NodeFails \/ NodeQuery \/ NodeCut \/ NodeGone \/ NodeRegistered
         \/ GuestDies \/ GuestReboots \/ LinkCut \/ AppChange \/ UNCHANGED vars
  PROVE  RestOK'
<1>1. CASE NodeRun
  BY <1>1 DEF NodeRun, OsmOff, RestOK, history, bounds
<1>2. CASE NodeQuery \/ NodeGone \/ NodeRegistered \/ AppChange \/ UNCHANGED vars
  BY <1>2 DEF NodeQuery, NodeGone, NodeRegistered, AppChange, RestOK, guest, wire, history,
              bounds, vars
<1>3. CASE NodeStop
  BY <1>3 DEF NodeStop, SwitchOff, OsmOff, RestOK, bounds, Unreleased
<1>4. CASE NodeFails \/ NodeCut \/ LinkCut
  BY <1>4, FaultsBounded DEF NodeFails, NodeCut, LinkCut, RestOK, guest, wire, history, Unreleased
<1>5. CASE GuestDies
  BY <1>5, FaultsBounded DEF GuestDies, SwitchOff, OsmOff, RestOK, wire, Unreleased
<1>6. CASE GuestReboots
  BY <1>6, FaultsBounded DEF GuestReboots, OsmOff, RestOK, wire, Unreleased
<1> QED BY <1>1, <1>2, <1>3, <1>4, <1>5, <1>6 DEF Node

LEMMA OsmRest ==
  ASSUME OInv, RestOK, Osm \/ ReadPacket
  PROVE  RestOK'
<1>0. osm \in [at : {"off", "idle", "auth", "reg", "up"}, conn : Conns \cup {NoConn},
               registered : BOOLEAN, notify : BOOLEAN, told : AppStates \cup {"nothing"}]
  BY DEF OInv, LinkOK
<1>1. osm'.at \in {"off", "idle"} => osm'.conn = NoConn
  <2>1. CASE Connect BY <1>0, <2>1 DEF Connect
  <2>2. CASE Challenged \/ RegisterDone
    BY <1>0, <2>2 DEF Challenged, RegisterDone
  <2>3. CASE SocketClosed \/ RegisterFailed
    BY <1>0, <2>3 DEF SocketClosed, RegisterFailed, Close
  <2>4. CASE ReadPacket \/ RunScript
    BY <1>0, <2>4 DEF ReadPacket, RunScript, RestOK, guest
  <2> QED BY <2>1, <2>2, <2>3, <2>4 DEF Osm
<1>2. /\ UNCHANGED <<vm, job, placed, nlink, node, query, db, late, ghosts, jobs>>
      /\ cur' = cur \/ \E c \in Conns : cur' = cur \cup {c}
  BY DEF Osm, Connect, Challenged, RegisterDone, SocketClosed, RegisterFailed, ReadPacket,
         RunScript, guest, wire, history, bounds
<1>3. faults' = faults \/ Fault
  BY DEF Osm, Connect, Challenged, RegisterDone, SocketClosed, RegisterFailed, ReadPacket,
         RunScript, bounds
<1> QED BY <1>1, <1>2, <1>3, FaultsBounded DEF RestOK

(* The type invariant holds: the OSM has a socket exactly while it         *)
(* registers or is up, clc has at most MaxUp + 2 packets of it to read and *)
(* the OSM one answer, whatever is cut, restarted or answered late         *)
(* (src/platform/src/clc/ev_osm.c, src/osmanager/bin/pyosm).               *)
THEOREM OsmTypes == Spec => []OTypeOK
<1>1. Init => Counting /\ RestOK
  <2> SUFFICES ASSUME Init PROVE Counting /\ RestOK
    OBVIOUS
  <2>1. \A c \in Conns : up[c] = <<>> /\ down[c] = <<>> BY DEF Init
  <2>2. osm.at # "auth" /\ (osm.at \in {"off", "idle"} => osm.conn = NoConn)
    BY DEF Init, OsmOff
  <2>3. Counting BY <2>1, <2>2, OrderlyFirst DEF Counting
  <2>4. RestOK BY <2>2, BoundsAssumption DEF Init, RestOK
  <2> QED BY <2>3, <2>4
<1>2. OInv /\ Counting /\ RestOK /\ [Next]_vars => (Counting /\ RestOK)'
  <2> SUFFICES ASSUME OInv, Counting, RestOK, [Next]_vars PROVE Counting' /\ RestOK'
    OBVIOUS
  <2>1. CASE \E c \in Conns : ClcRecv(c)
    BY <2>1, RecvCount, RecvRest
  <2>2. CASE \/ \E a \in Requests : NewJob(a)
             \/ Clc \/ WaitForOsm \/ JobTimeout \/ QueryAll \/ InstanceInfo \/ ClcRestart
    BY <2>2, QuietCount, NewJobRest, ClcRest
  <2>3. CASE \/ Node \/ NodeFails \/ NodeQuery \/ NodeCut \/ NodeGone \/ NodeRegistered
             \/ GuestDies \/ GuestReboots \/ LinkCut \/ AppChange \/ UNCHANGED vars
    BY <2>3, QuietCount, NodeRest
  <2>4. CASE Osm \/ ReadPacket
    BY <2>4, QuietCount, OsmCount, OsmRest DEF Osm
  <2> QED BY <2>1, <2>2, <2>3, <2>4 DEF Next
<1>3. OInv /\ RunInv /\ Counting /\ RestOK => OTypeOK
  <2> SUFFICES ASSUME OInv, RunInv, Counting, RestOK PROVE OTypeOK
    OBVIOUS
  <2>1. \A c \in Conns : Len(up[c]) <= MaxUp + 2 /\ Len(down[c]) <= 2
    <3> TAKE c \in Conns
    <3>1. Len(up[c]) <= MaxUp + 2 /\ Len(down[c]) <= 1 BY Zenon DEF Counting, Orderly
    <3>2. down[c] \in Seq(Answers) BY DEF OInv, LinkOK
    <3>3. Len(down[c]) \in Nat BY <3>2, LenProperties
    <3>4. \A n \in Nat : n <= 1 => n <= 2 OBVIOUS
    <3>5. Len(down[c]) <= 2 BY <3>1, <3>3, <3>4, Zenon
    <3> QED BY <3>1, <3>5
  <2>2. osm.at \in {"auth", "reg", "up"} <=> osm.conn # NoConn
    BY BoundsAssumption DEF OInv, LinkOK, RestOK
  <2>3. ans \in Seq(NodeAnswers) /\ Len(ans) <= 2
    <3>1. ans \in Shapes BY DEF RunInv
    <3>2. CASE ans = <<>> BY <3>2
    <3>3. CASE ans \in {<<m>> : m \in NodeAnswers}
      <4>1. PICK m \in NodeAnswers : ans = <<m>> BY <3>3
      <4> QED BY <4>1
    <3>4. CASE ans = <<"RUNNING_STOPPED", "411">> BY <3>4 DEF NodeAnswers
    <3>5. CASE ans = <<"RUNNING_STOPPED", "ended">> BY <3>5 DEF NodeAnswers
    <3> QED BY <3>1, <3>2, <3>3, <3>4, <3>5, Zenon DEF Shapes, NodeAnswers
  <2> QED BY <2>1, <2>2, <2>3, Zenon DEF OInv, LinkOK, RestOK, OTypeOK
<1> QED BY <1>1, <1>2, <1>3, LinkInvariance, RunInvariance, PTL DEF Spec
=============================================================================
