------------------------------ MODULE Fleet_proofs ------------------------------
(***************************************************************************)
(* Proofs about Fleet, for any nodes, roles, models, threads and faults.   *)
(* The invariants build on each other:                                     *)
(*   TypeInv    types, and what each kind of registry thread has in hand   *)
(*   CalmInv    what the gateway knows while nothing but its own calls     *)
(*              happens: its lists are the truth, and its plan is complete *)
(*   Chased     a route of a node that is gone is in some thread's hands   *)
(***************************************************************************)
EXTENDS Fleet, FiniteSetTheorems, TLAPS

Kind == {"none", "register", "heartbeat", "deregister", "list", "answer"}
ThreadStep == {"idle", "post", "visit", "match", "purge"}
GwStep == {"idle", "seen", "ask", "await", "prune", "post", "mirror", "settled"}

Item == Node \X (Nat \ {0})

Job == [kind : Kind, node : Node \cup {Static}, todo : SUBSET (Role \cup Item),
        roles : SUBSET Role, late : SUBSET Node, ids : SUBSET Route, ok : BOOLEAN,
        found : [Node -> Listing]]

Gateway == [pc : GwStep, kind : {"none", "reconcile", "list"}, seen : SUBSET Route,
            nodes : [Node -> Listing], doomed : SUBSET Route, todo : SUBSET Route,
            visit : SUBSET Node]

(* What a thread has in hand at each of its steps. *)
Fits(p, j) ==
    \/ p = "idle" /\ j = IdleJob
    \/ p = "post" /\ j.kind = "register" /\ j.node \in Node /\ j.todo \subseteq Role
       /\ j.ids = {}
    \/ p = "visit" /\ j.kind \in {"list", "answer"} /\ j.node = Static
       /\ j.todo \subseteq Item /\ j.ids = {}
    \/ p \in {"match", "purge"} /\ j.kind \in Kind \ {"none", "register"}
       /\ j.node \in Node /\ j.todo \subseteq Item
       /\ j.ids \subseteq RoutesFor(j.node, Role) /\ (p = "purge" <=> j.ids # {})

ThreadsTyped ==
    /\ pc \in [Thread -> ThreadStep]
    /\ job \in [Thread -> Job]
    /\ \A t \in Thread : Fits(pc[t], job[t])

RegistryTyped ==
    /\ obj \in [Node -> Seq(Record)]
    /\ cur \in [Node -> Nat]
    /\ \A n \in Node : cur[n] <= Len(obj[n])

(* The records a thread is to visit were put there. *)
ItemsThere ==
    \A t \in Thread : pc[t] # "post" =>
        \A i \in job[t].todo : i[2] <= Len(obj[i[1]])

TablesTyped ==
    /\ routes \subseteq Route
    /\ rows \in [Node -> {"none", "on", "off"}]
    /\ models \in [Model -> {"none", "on", "off"}]
    /\ tainted \subseteq Node

GatewayTyped ==
    /\ gw \in Gateway
    /\ gw.pc # "idle" => gw.kind # "none"
    /\ gw.pc \in {"seen", "prune"} => gw.kind = "reconcile"
    /\ gw.pc = "mirror" => gw.kind = "list"

(* Every registration under way has room for the record it will put. *)
Registering(n) == {t \in Thread : job[t].kind = "register" /\ job[t].node = n}
Room == \A n \in Node : Len(obj[n]) + Cardinality(Registering(n)) <= MaxGen

TypeInv == ThreadsTyped /\ RegistryTyped /\ ItemsThere /\ TablesTyped /\ GatewayTyped /\ Room

Lives == [n \in Node |-> Live(n)]

-----------------------------------------------------------------------------
(* The operators of the model.                                             *)

LEMMA Apart == /\ \A n \in Node : n \notin Model /\ n # Static
               /\ \A m \in Model : m \notin Node /\ m # Static
               /\ RoleOf \in [Model -> Role]
  BY FleetAssumption

LEMMA Pairs ==
  ASSUME NEW r \in Route
  PROVE  r[1] \in Owner /\ r[2] \in Role /\ r = <<r[1], r[2]>>
  BY DEF Route

LEMMA RouteOfOne ==
  ASSUME NEW o, NEW R, NEW r
  PROVE  /\ r \in RoutesFor(o, R) <=> r = <<o, r[2]>> /\ r[2] \in R
         /\ r \in RoutesFor(o, R) => r[1] = o
  BY DEF RoutesFor

LEMMA NoNodesTyped == NoNodes \in [Node -> Listing]
  BY DEF NoNodes, NotListed, Listing

LEMMA IdleJobTyped == IdleJob \in Job /\ IdleJob.kind = "none" /\ IdleJob.node = Static
  BY NoNodesTyped DEF IdleJob, Job, Kind

LEMMA IdleGwTyped == IdleGw \in Gateway
  BY NoNodesTyped DEF IdleGw, Gateway, GwStep

LEMMA LiveTyped ==
  ASSUME RegistryTyped, NEW n \in Node
  PROVE  /\ Live(n) \in Listing
         /\ cur[n] = 0 <=> Live(n) = NotListed
         /\ cur[n] = 0 <=> Live(n).status = "absent"
         /\ cur[n] # 0 => /\ cur[n] \in 1..Len(obj[n])
                          /\ Live(n).status = obj[n][cur[n]].status
                          /\ Live(n).roles = obj[n][cur[n]].roles
                          /\ obj[n][cur[n]] \in Record
<1>1. cur[n] # 0 => cur[n] \in 1..Len(obj[n]) /\ obj[n][cur[n]] \in Record
  BY DEF RegistryTyped
<1>2. CASE cur[n] = 0
  BY <1>2 DEF Live, Listing, NotListed
<1>3. CASE cur[n] # 0
  <2>1. /\ Live(n) = [status |-> obj[n][cur[n]].status, roles |-> obj[n][cur[n]].roles]
        /\ obj[n][cur[n]].status \in NodeStatus /\ obj[n][cur[n]].roles \in SUBSET Role
    BY <1>1, <1>3 DEF Live, Record
  <2>2. Live(n).status # "absent"
    BY <2>1 DEF NodeStatus
  <2>. QED  BY <1>1, <1>3, <2>1, <2>2 DEF Listing, NotListed
<1>. QED  BY <1>2, <1>3

LEMMA LivesTyped == RegistryTyped => Lives \in [Node -> Listing]
  BY LiveTyped DEF Lives

LEMMA LiveFrame ==
  ASSUME UNCHANGED registry
  PROVE  Lives' = Lives /\ \A n \in Node : Live(n)' = Live(n)
  BY DEF registry, Lives, Live

LEMMA WantedTyped ==
  ASSUME NEW nodes \in [Node -> Listing]
  PROVE  WantedRoutes(nodes) \subseteq Route
<1>1. ASSUME NEW r \in WantedRoutes(nodes)  PROVE r \in Route
  <2>1. CASE \E m \in Enabled : r = <<m, RoleOf[m]>>
    BY <2>1, Apart DEF Enabled, Route, Owner
  <2>2. CASE \E n \in Node : r \in RoutesFor(n, nodes[n].roles)
    BY <2>2 DEF RoutesFor, Route, Owner, Listing
  <2>. QED  BY <1>1, <2>1, <2>2 DEF WantedRoutes
<1>. QED  BY <1>1

(* Where the gateway's handler goes on: to the next deletion, to the next  *)
(* registration, to the next row, or to its end.                           *)
LEMMA OnwardGoes ==
  ASSUME NEW g \in Gateway
  PROVE  /\ Onward(g) \in Gateway
         /\ \E s \in GwStep :
               /\ Onward(g) = [g EXCEPT !.pc = s]
               /\ g.pc = "prune" /\ g.doomed # {} => s = "prune"
               /\ g.pc = "post" \/ (g.pc = "prune" /\ g.doomed = {}) =>
                     s = IF g.todo # {} THEN "post"
                         ELSE IF g.kind = "list" THEN "mirror" ELSE "settled"
<1>. DEFINE step == IF g.pc = "prune" /\ g.doomed = {} THEN "post" ELSE g.pc
            s == IF step # "post" \/ g.todo # {} THEN step
                 ELSE IF g.kind = "list" THEN "mirror" ELSE "settled"
<1>1. Onward(g) = [g EXCEPT !.pc = s]
  BY DEF Onward
<1>2. s \in GwStep
  BY DEF Gateway, GwStep
<1>3. [g EXCEPT !.pc = s] \in Gateway
  BY <1>2 DEF Gateway
<1>. QED  BY <1>1, <1>2, <1>3

LEMMA OnwardKeeps ==
  ASSUME NEW g \in Gateway
  PROVE  /\ Onward(g).kind = g.kind /\ Onward(g).seen = g.seen /\ Onward(g).nodes = g.nodes
         /\ Onward(g).doomed = g.doomed /\ Onward(g).todo = g.todo
         /\ Onward(g).visit = g.visit
  BY OnwardGoes DEF Gateway

LEMMA OnwardTyped ==
  ASSUME NEW g \in Gateway, g.pc \in {"prune", "post"}, g.kind # "none",
         g.pc = "prune" => g.kind = "reconcile"
  PROVE  /\ Onward(g) \in Gateway /\ Onward(g).kind # "none"
         /\ Onward(g).pc \in {"prune", "post", "mirror", "settled"}
         /\ Onward(g).pc = "prune" <=> g.pc = "prune" /\ g.doomed # {}
         /\ Onward(g).pc = "post" => g.todo # {}
         /\ Onward(g).pc = "settled" => g.todo = {} /\ g.kind = "reconcile"
         /\ Onward(g).pc = "mirror" => g.todo = {} /\ g.kind = "list"
<1>1. PICK s \in GwStep :
               /\ Onward(g) = [g EXCEPT !.pc = s]
               /\ g.pc = "prune" /\ g.doomed # {} => s = "prune"
               /\ g.pc = "post" \/ (g.pc = "prune" /\ g.doomed = {}) =>
                     s = IF g.todo # {} THEN "post"
                         ELSE IF g.kind = "list" THEN "mirror" ELSE "settled"
  BY OnwardGoes
<1>2. Onward(g).pc = s
  BY <1>1 DEF Gateway
<1>3. g.kind \in {"reconcile", "list"}
  BY DEF Gateway
<1>. QED  BY <1>1, <1>2, <1>3, OnwardGoes, OnwardKeeps

(* What the gateway plans when it has the list of the nodes. *)
LEMMA PlannedTyped ==
  ASSUME GatewayTyped, gw.pc \in {"ask", "await"}, NEW nodes \in [Node -> Listing]
  PROVE  /\ Planned(nodes) \in Gateway /\ Planned(nodes).kind = gw.kind /\ gw.kind # "none"
         /\ gw.kind = "list" =>
               /\ Planned(nodes).pc = "mirror" /\ Planned(nodes).nodes = nodes
               /\ Planned(nodes).visit = {n \in Node : nodes[n] # NotListed}
         /\ gw.kind = "reconcile" =>
               /\ Planned(nodes).pc \in {"prune", "post", "settled"}
               /\ Planned(nodes).doomed = {r \in gw.seen : StaleRoute(r, nodes)}
               /\ Planned(nodes).todo = WantedRoutes(nodes)
               /\ Planned(nodes).pc # "prune" => Planned(nodes).doomed = {}
               /\ Planned(nodes).pc = "settled" => Planned(nodes).todo = {}
<1>1. gw \in Gateway /\ gw.kind \in {"reconcile", "list"}
  BY DEF GatewayTyped, Gateway
<1>2. CASE gw.kind = "list"
  <2>1. Planned(nodes) = [gw EXCEPT !.pc = "mirror", !.nodes = nodes,
                             !.visit = {n \in Node : nodes[n] # NotListed}]
    BY <1>2 DEF Planned
  <2>2. {n \in Node : nodes[n] # NotListed} \in SUBSET Node
    OBVIOUS
  <2>. QED  BY <1>1, <1>2, <2>1, <2>2 DEF Gateway, GwStep
<1>3. CASE gw.kind = "reconcile"
  <2>. DEFINE doomed == {r \in gw.seen : StaleRoute(r, nodes)}
              todo == WantedRoutes(nodes)
              g == [gw EXCEPT !.pc = "prune", !.seen = {}, !.doomed = doomed, !.todo = todo]
  <2>1. doomed \in SUBSET Route /\ todo \in SUBSET Route
    BY <1>1, WantedTyped DEF Gateway
  <2>2. g \in Gateway /\ g.pc = "prune" /\ g.kind = "reconcile" /\ g.doomed = doomed /\ g.todo = todo
    <3>. HIDE DEF doomed, todo
    <3>. QED  BY <1>1, <1>3, <2>1 DEF Gateway, GwStep
  <2>3. Planned(nodes) = Onward(g)
    BY <1>3 DEF Planned
  <2>. HIDE DEF g, doomed
  <2>4. /\ Onward(g).kind = "reconcile" /\ Onward(g).doomed = doomed /\ Onward(g).todo = todo
    BY <2>2, OnwardKeeps
  <2>5. /\ Onward(g) \in Gateway
        /\ Onward(g).pc \in {"prune", "post", "mirror", "settled"}
        /\ Onward(g).pc = "prune" <=> doomed # {}
        /\ Onward(g).pc = "settled" => todo = {}
        /\ Onward(g).pc # "mirror"
    BY <2>2, OnwardTyped
  <2>. QED  BY <1>3, <2>3, <2>4, <2>5 DEF doomed
<1>. QED  BY <1>1, <1>2, <1>3

(* What a step does to the threads: all but one stay where they are. *)
OthersStay(t) == \A u \in Thread : u # t => pc'[u] = pc[u] /\ job'[u] = job[u]

LEMMA Gone ==
  ASSUME ThreadsTyped, NEW t \in Thread, NEW step, NEW j, GoWith(t, step, j)
  PROVE  /\ OthersStay(t)
         /\ pc'[t] = step
         /\ step = "idle" => job'[t] = IdleJob
         /\ step # "idle" => job'[t] = j
  BY DEF GoWith, ThreadsTyped, OthersStay

LEMMA GoneTyped ==
  ASSUME ThreadsTyped, NEW t \in Thread, NEW step \in ThreadStep, NEW j,
         GoWith(t, step, j), step # "idle" => j \in Job /\ Fits(step, j)
  PROVE  ThreadsTyped'
<1>1. /\ OthersStay(t) /\ pc'[t] = step
      /\ step = "idle" => job'[t] = IdleJob
      /\ step # "idle" => job'[t] = j
  BY Gone
<1>2. pc' \in [Thread -> ThreadStep] /\ job' \in [Thread -> Job]
  BY IdleJobTyped DEF GoWith, ThreadsTyped
<1>3. Fits(pc'[t], job'[t])
  <2>1. CASE step = "idle"
    BY <1>1, <2>1 DEF Fits
  <2>2. CASE step # "idle"
    BY <1>1, <2>2
  <2>. QED  BY <2>1, <2>2
<1>4. \A u \in Thread : Fits(pc'[u], job'[u])
  BY <1>1, <1>3 DEF OthersStay, ThreadsTyped
<1>. QED  BY <1>2, <1>4 DEF ThreadsTyped

(* The step of a thread fixes what it has in hand. *)
LEMMA HandsOf ==
  ASSUME ThreadsTyped, NEW t \in Thread
  PROVE  /\ job[t] \in Job /\ pc[t] \in ThreadStep
         /\ pc[t] = "idle" <=> job[t] = IdleJob
         /\ pc[t] = "idle" <=> job[t].kind = "none"
         /\ pc[t] = "post" <=> job[t].kind = "register"
         /\ pc[t] = "post" => job[t].node \in Node /\ job[t].todo \subseteq Role
         /\ pc[t] # "post" => job[t].todo \subseteq Item
         /\ pc[t] = "visit" => job[t].kind \in {"list", "answer"} /\ job[t].node = Static
         /\ pc[t] \in {"match", "purge"} =>
               job[t].node \in Node /\ job[t].kind \in Kind \ {"none", "register"}
         /\ pc[t] = "purge" <=> job[t].ids # {}
         /\ job[t].ids \subseteq RoutesFor(job[t].node, Role)
         /\ pc[t] \in {"idle", "visit"} => job[t].node = Static
<1>1. job[t] \in Job /\ pc[t] \in ThreadStep /\ Fits(pc[t], job[t])
  BY DEF ThreadsTyped
<1>2. IdleJob.todo = {} /\ IdleJob.ids = {}
  BY DEF IdleJob
<1>. QED  BY <1>1, <1>2, IdleJobTyped DEF Fits, Kind

(* The status of one record changes, and whether it is fresh. *)
Marked(n, g, s) ==
    /\ UNCHANGED cur
    /\ obj' \in [Node -> Seq(Record)]
    /\ \A m \in Node : Len(obj'[m]) = Len(obj[m])
    /\ \A m \in Node, k \in Nat \ {0} : k <= Len(obj[m]) =>
          /\ obj'[m][k].roles = obj[m][k].roles
          /\ m # n \/ k # g => obj'[m][k].status = obj[m][k].status
    /\ obj'[n][g].status = s

LEMMA MarkIt ==
  ASSUME RegistryTyped, UNCHANGED cur, NEW n \in Node, NEW g \in Nat \ {0}, g <= Len(obj[n]),
         NEW r \in Record, r.roles = obj[n][g].roles,
         obj' = [obj EXCEPT ![n] = [obj[n] EXCEPT ![g] = r]]
  PROVE  Marked(n, g, r.status)
<1>1. obj[n] \in Seq(Record) /\ g \in 1..Len(obj[n]) /\ \A m \in Node : obj[m] \in Seq(Record)
  BY DEF RegistryTyped
<1>. DEFINE q == [obj[n] EXCEPT ![g] = r]
<1>2. /\ q \in Seq(Record) /\ Len(q) = Len(obj[n]) /\ q[g] = r
      /\ \A k \in Nat \ {0} : k # g /\ k <= Len(obj[n]) => q[k] = obj[n][k]
  BY <1>1
<1>. HIDE DEF q
<1>3. /\ obj' \in [Node -> Seq(Record)] /\ obj'[n] = q
      /\ \A m \in Node : m # n => obj'[m] = obj[m]
  BY <1>2 DEF RegistryTyped, q
<1>. QED  BY <1>1, <1>2, <1>3 DEF Marked

LEMMA MarkedTyped ==
  ASSUME RegistryTyped, NEW n \in Node, NEW g, NEW s, Marked(n, g, s)
  PROVE  RegistryTyped'
  BY DEF Marked, RegistryTyped

LEMMA MarkedLive ==
  ASSUME RegistryTyped, NEW n \in Node, NEW g \in Nat \ {0}, NEW s, Marked(n, g, s)
  PROVE  \A m \in Node :
            Live(m)' = IF m = n /\ cur[n] = g
                       THEN [status |-> s, roles |-> Live(n).roles] ELSE Live(m)
<1>. TAKE m \in Node
<1>1. CASE cur[m] = 0
  BY <1>1 DEF Live, Marked
<1>2. CASE cur[m] # 0
  <2>1. cur[m] \in Nat \ {0} /\ cur[m] <= Len(obj[m]) /\ cur'[m] = cur[m]
    BY <1>2 DEF RegistryTyped, Marked
  <2>2. obj'[m][cur[m]].roles = obj[m][cur[m]].roles
    BY <2>1 DEF Marked
  <2>3. Live(m)' = [status |-> obj'[m][cur[m]].status, roles |-> obj'[m][cur[m]].roles]
    BY <1>2, <2>1 DEF Live
  <2>4. Live(m) = [status |-> obj[m][cur[m]].status, roles |-> obj[m][cur[m]].roles]
    BY <1>2 DEF Live
  <2>5. obj'[m][cur[m]].status = IF m = n /\ cur[n] = g THEN s ELSE obj[m][cur[m]].status
    BY <2>1 DEF Marked
  <2>. QED  BY <2>2, <2>3, <2>4, <2>5
<1>. QED  BY <1>1, <1>2

(* A new record is put, and takes effect. *)
LEMMA PutLive ==
  ASSUME RegistryTyped, NEW n \in Node, NEW r \in Record,
         obj' = [obj EXCEPT ![n] = Append(@, r)], cur' = [cur EXCEPT ![n] = Len(obj[n]) + 1]
  PROVE  /\ RegistryTyped'
         /\ \A m \in Node : Len(obj'[m]) = IF m = n THEN Len(obj[n]) + 1 ELSE Len(obj[m])
         /\ Live(n)' = [status |-> r.status, roles |-> r.roles]
         /\ \A m \in Node : m # n => Live(m)' = Live(m)
<1>1. obj[n] \in Seq(Record) /\ \A m \in Node : obj[m] \in Seq(Record)
  BY DEF RegistryTyped
<1>. DEFINE q == Append(obj[n], r)
<1>2. q \in Seq(Record) /\ Len(q) = Len(obj[n]) + 1 /\ q[Len(obj[n]) + 1] = r /\ Len(obj[n]) \in Nat
  BY <1>1
<1>. HIDE DEF q
<1>3. /\ obj' \in [Node -> Seq(Record)] /\ obj'[n] = q
      /\ cur' \in [Node -> Nat] /\ cur'[n] = Len(obj[n]) + 1
      /\ \A m \in Node : m # n => obj'[m] = obj[m] /\ cur'[m] = cur[m]
  BY <1>2 DEF RegistryTyped, q
<1>4. RegistryTyped'
  BY <1>2, <1>3 DEF RegistryTyped
<1>5. Live(n)' = [status |-> r.status, roles |-> r.roles]
  BY <1>2, <1>3 DEF Live
<1>. QED  BY <1>2, <1>3, <1>4, <1>5 DEF Live

-----------------------------------------------------------------------------
(* What the steps of a thread do.                                          *)

LEMMA AfterDoes ==
  ASSUME ThreadsTyped, NEW t \in Thread, pc[t] \in {"match", "purge"},
         NEW ids \in SUBSET RoutesFor(job[t].node, Role), After(t, ids)
  PROVE  /\ ThreadsTyped' /\ OthersStay(t)
         /\ ids # {} => /\ pc'[t] = "purge" /\ job'[t].ids = ids /\ job'[t].node = job[t].node
                        /\ job'[t].kind = job[t].kind
                        /\ job'[t].todo = job[t].todo /\ job'[t].found = job[t].found
         /\ ids = {} /\ job[t].kind \in {"list", "answer"} =>
               /\ pc'[t] = "visit" /\ job'[t].kind = job[t].kind
               /\ job'[t].todo = job[t].todo /\ job'[t].found = job[t].found
         /\ ids = {} /\ job[t].kind \notin {"list", "answer"} =>
               pc'[t] = "idle" /\ job'[t] = IdleJob
<1>. DEFINE step == IF ids # {} THEN "purge"
                    ELSE IF job[t].kind \in {"list", "answer"} THEN "visit" ELSE "idle"
            j == [job[t] EXCEPT !.ids = ids, !.node = IF ids = {} THEN Static ELSE @]
<1>1. job[t] \in Job /\ job[t].node \in Node /\ job[t].kind \in Kind \ {"none", "register"}
      /\ job[t].todo \subseteq Item
  BY HandsOf
<1>2. ids \in SUBSET Route
  BY <1>1 DEF RoutesFor, Route, Owner
<1>3. /\ j \in Job /\ j.ids = ids /\ j.kind = job[t].kind /\ j.todo = job[t].todo
      /\ j.found = job[t].found /\ j.node = IF ids = {} THEN Static ELSE job[t].node
  BY <1>1, <1>2 DEF Job
<1>4. GoWith(t, step, j)
  BY DEF After
<1>5. step \in ThreadStep
  BY DEF ThreadStep
<1>. HIDE DEF j
<1>6. step # "idle" => Fits(step, j)
  BY <1>1, <1>3 DEF Fits
<1>7. ThreadsTyped'
  BY <1>3, <1>4, <1>5, <1>6, GoneTyped
<1>8. /\ OthersStay(t) /\ pc'[t] = step
      /\ step = "idle" => job'[t] = IdleJob
      /\ step # "idle" => job'[t] = j
  BY <1>4, Gone
<1>. QED  BY <1>3, <1>7, <1>8

LEMMA NodeRoutes ==
  ASSUME TypeInv, NEW n \in Node
  PROVE  RoutesOf(n) \in SUBSET RoutesFor(n, Role)
<1>1. ASSUME NEW r \in RoutesOf(n)  PROVE r \in RoutesFor(n, Role)
  <2>1. r \in Route /\ r[1] = n
    BY <1>1 DEF RoutesOf, TypeInv, TablesTyped
  <2>. QED  BY <2>1, Pairs, RouteOfOne
<1>. QED  BY <1>1

(* A matching or purging thread: what is in its hands shrinks or is all. *)
LEMMA HuntDoes ==
  ASSUME TypeInv, NEW t \in Thread, Match(t) \/ MatchFails(t) \/ Purge(t) \/ PurgeFails(t)
  PROVE  \E ids \in SUBSET RoutesFor(job[t].node, Role) :
            /\ pc[t] \in {"match", "purge"} /\ After(t, ids)
            /\ routes' \subseteq routes /\ UNCHANGED <<registry, tables, gw>>
            /\ \/ Match(t) /\ ids = RoutesOf(job[t].node) /\ UNCHANGED <<routes, tainted>>
                  /\ Disturb(t)
               \/ MatchFails(t) /\ ids = {} /\ routes' = routes /\ calm' = FALSE
                  /\ tainted' = tainted \cup {job[t].node}
               \/ /\ Purge(t) /\ UNCHANGED tainted /\ Disturb(t)
                  /\ \E r \in job[t].ids : routes' = routes \ {r} /\ ids = job[t].ids \ {r}
               \/ PurgeFails(t) /\ routes' = routes /\ calm' = FALSE
                  /\ tainted' = tainted \cup {job[t].node}
<1>1. ThreadsTyped /\ pc[t] \in {"match", "purge"}
  BY DEF TypeInv, Match, MatchFails, Purge, PurgeFails
<1>2. job[t].node \in Node /\ job[t].ids \subseteq RoutesFor(job[t].node, Role)
  BY <1>1, HandsOf
<1>3. CASE Match(t)
  BY <1>1, <1>2, <1>3, NodeRoutes DEF Match
<1>4. CASE MatchFails(t)
  BY <1>1, <1>4 DEF MatchFails
<1>5. CASE Purge(t)
  BY <1>1, <1>2, <1>5 DEF Purge
<1>6. CASE PurgeFails(t)
  BY <1>1, <1>2, <1>6 DEF PurgeFails
<1>. QED  BY <1>3, <1>4, <1>5, <1>6

(* One record of a list is looked at: a silent one is marked and its node's *)
(* routes are hunted.                                                      *)
Visited(t, i, s) ==
    /\ i \in job[t].todo /\ i \in Item /\ i[2] <= Len(obj[i[1]])
    /\ pc[t] = "visit" /\ OthersStay(t) /\ s \in NodeStatus
    /\ Marked(i[1], i[2], s)
    /\ job'[t].kind = job[t].kind /\ job'[t].todo = job[t].todo \ {i}
    /\ job'[t].found = IF job[t].kind = "answer"
                       THEN [job[t].found EXCEPT ![i[1]] =
                                [status |-> s, roles |-> obj[i[1]][i[2]].roles]]
                       ELSE job[t].found
    /\ \/ s = obj[i[1]][i[2]].status /\ pc'[t] = "visit"
       \/ s = "offline" /\ pc'[t] = "match" /\ job'[t].node = i[1]

LEMMA VisitDoes ==
  ASSUME TypeInv, NEW t \in Thread, Visit(t)
  PROVE  ThreadsTyped' /\ \E i, s : Visited(t, i, s)
<1>1. ThreadsTyped /\ RegistryTyped /\ ItemsThere /\ pc[t] = "visit"
  BY DEF TypeInv, Visit
<1>2. PICK i \in job[t].todo :
         LET n == i[1]
             o == obj[n][i[2]]
             dead == n \in job[t].late /\ ~o.fresh /\ o.status = "healthy"
             status == IF dead THEN "offline" ELSE o.status
         IN /\ obj' = [obj EXCEPT ![n][i[2]].status = status]
            /\ GoWith(t, IF dead THEN "match" ELSE "visit",
                       [job[t] EXCEPT !.todo = @ \ {i}, !.node = IF dead THEN n ELSE @,
                                      !.found[n] = IF job[t].kind = "answer"
                                                   THEN [status |-> status, roles |-> o.roles]
                                                   ELSE @])
  BY DEF Visit
<1>. DEFINE n == i[1]
            g == i[2]
            o == obj[n][g]
            dead == n \in job[t].late /\ ~o.fresh /\ o.status = "healthy"
            s == IF dead THEN "offline" ELSE o.status
            step == IF dead THEN "match" ELSE "visit"
            r == [o EXCEPT !.status = s]
            f == [job[t].found EXCEPT ![n] = IF job[t].kind = "answer"
                                             THEN [status |-> s, roles |-> o.roles] ELSE @]
            j == [job[t] EXCEPT !.todo = @ \ {i}, !.node = IF dead THEN n ELSE @, !.found = f]
<1>3. /\ job[t] \in Job /\ job[t].kind \in {"list", "answer"} /\ job[t].node = Static
      /\ job[t].todo \subseteq Item /\ job[t].ids = {}
  BY <1>1, HandsOf
<1>4. i \in Item /\ n \in Node /\ g \in Nat \ {0} /\ g <= Len(obj[n])
  BY <1>1, <1>3 DEF ItemsThere, Item
<1>5. o \in Record
  BY <1>1, <1>4 DEF RegistryTyped
<1>6. s \in NodeStatus /\ r \in Record /\ r.roles = o.roles /\ r.status = s
      /\ [status |-> s, roles |-> o.roles] \in Listing
  BY <1>5 DEF Record, NodeStatus, Listing
<1>7. obj' = [obj EXCEPT ![n] = [obj[n] EXCEPT ![g] = r]] /\ UNCHANGED cur
  BY <1>2 DEF Visit
<1>8. Marked(n, g, s)
  <2>. HIDE DEF n, g, o, s, r
  <2>1. r.roles = obj[n][g].roles
    BY <1>6 DEF o
  <2>. QED  BY <1>1, <1>4, <1>6, <1>7, <2>1, MarkIt
<1>9. GoWith(t, step, j)
  BY <1>2
<1>10. f \in [Node -> Listing]
       /\ f = IF job[t].kind = "answer"
              THEN [job[t].found EXCEPT ![n] = [status |-> s, roles |-> o.roles]]
              ELSE job[t].found
  <2>1. job[t].found \in [Node -> Listing]
    BY <1>3 DEF Job
  <2>. HIDE DEF n, o, s
  <2>. QED  BY <1>4, <1>6, <2>1
<1>. HIDE DEF f
<1>11. /\ j \in Job /\ j.kind = job[t].kind /\ j.todo = job[t].todo \ {i} /\ j.found = f
       /\ j.node = IF dead THEN n ELSE Static
       /\ j.ids = {}
  <2>. HIDE DEF n, dead
  <2>. QED  BY <1>3, <1>4, <1>10 DEF Job
<1>. HIDE DEF j
<1>12. step \in ThreadStep /\ step # "idle" /\ Fits(step, j)
  <2>. HIDE DEF n
  <2>. QED  BY <1>3, <1>4, <1>11 DEF Fits, Kind, ThreadStep
<1>13. ThreadsTyped'
  BY <1>1, <1>9, <1>11, <1>12, GoneTyped
<1>14. OthersStay(t) /\ pc'[t] = step /\ job'[t] = j
  BY <1>1, <1>9, <1>12, Gone
<1>15. Visited(t, i, s)
  BY <1>1, <1>4, <1>6, <1>8, <1>10, <1>11, <1>14 DEF Visited
<1>. QED  BY <1>13, <1>15

(* A list is begun: what is registered is taken down. *)
LEMMA SnapshotTyped ==
  ASSUME TypeInv, NEW kind \in {"list", "answer"}
  PROVE  /\ Snapshot(kind) \in Job /\ Fits("visit", Snapshot(kind))
         /\ Snapshot(kind).kind = kind /\ Snapshot(kind).found = NoNodes
         /\ Snapshot(kind).todo = {<<n, cur[n]>> : n \in {n \in Node : cur[n] # 0}}
<1>. DEFINE items == {<<n, cur[n]>> : n \in {n \in Node : cur[n] # 0}}
            late == {n \in Node : cur[n] # 0 /\ ~obj[n][cur[n]].fresh}
<1>1. items \subseteq Item
  BY DEF TypeInv, RegistryTyped, Item
<1>2. late \subseteq Node
  OBVIOUS
<1>3. Snapshot(kind) = [IdleJob EXCEPT !.kind = kind, !.todo = items, !.late = late]
  BY DEF Snapshot
<1>. HIDE DEF items, late
<1>4. /\ Snapshot(kind) \in Job
      /\ Snapshot(kind).kind = kind /\ Snapshot(kind).found = NoNodes
      /\ Snapshot(kind).todo = items
      /\ Snapshot(kind).node = Static /\ Snapshot(kind).ids = {}
  BY <1>1, <1>2, <1>3, NoNodesTyped DEF IdleJob, Job, Kind
<1>. QED  BY <1>1, <1>4 DEF Fits, items

-----------------------------------------------------------------------------
(* The steps, and what they leave alone.                                   *)

(* The administrator's requests begin the gateway's handler. *)
Edited(kind, step) ==
    /\ gw.pc = "idle" /\ gw' = [IdleGw EXCEPT !.pc = step, !.kind = kind]
    /\ calm' = (\A t \in Thread : pc[t] = "idle")
    /\ UNCHANGED <<registry, routes, threads, tainted>>
    /\ rows' \in [Node -> {"none", "on", "off"}]
    /\ models' \in [Model -> {"none", "on", "off"}]

LEMMA EditDoes ==
  ASSUME TypeInv, Edit
  PROVE  Edited("reconcile", "seen") \/ Edited("list", "ask")
<1>1. rows \in [Node -> {"none", "on", "off"}] /\ models \in [Model -> {"none", "on", "off"}]
  BY DEF TypeInv, TablesTyped
<1>2. ASSUME NEW m \in Model, ToggleModel(m) \/ CreateModel(m)
      PROVE  Edited("reconcile", "seen")
  BY <1>1, <1>2 DEF ToggleModel, CreateModel, BeginEdit, Edited
<1>3. ASSUME NEW n \in Node, ToggleNode(n)  PROVE Edited("reconcile", "seen")
  BY <1>1, <1>3 DEF ToggleNode, BeginEdit, Edited
<1>4. ASSUME NEW x \in Model \cup Node, DeleteModel(x)  PROVE Edited("reconcile", "seen")
  <2>1. models' \in [Model -> {"none", "on", "off"}]
    BY <1>1, <1>4 DEF DeleteModel
  <2>2. rows' \in [Node -> {"none", "on", "off"}]
    BY <1>1, <1>4 DEF DeleteModel
  <2>. QED  BY <1>4, <2>1, <2>2 DEF DeleteModel, BeginEdit, Edited
<1>5. CASE ListAll
  BY <1>1, <1>5 DEF ListAll, BeginEdit, Edited, tables
<1>. QED  BY <1>2, <1>3, <1>4, <1>5 DEF Edit

(* What the gateway's handler leaves alone. *)
GatewayFrame == UNCHANGED <<registry, threads, models>>

LEMMA StepCases ==
  ASSUME [Next]_vars
  PROVE  \/ UNCHANGED vars
         \/ \E t \in Thread :
               \/ ListNodes(t)
               \/ \E n \in Node, R \in Offers : BeginRegister(t, n, R)
               \/ \E n \in Node, s \in {"healthy", "down"} : Heartbeat(t, n, s)
               \/ \E n \in Node : Deregister(t, n)
               \/ PostRoute(t) \/ PostRouteFails(t) \/ PutRecord(t) \/ AnswerGateway(t)
               \/ Visit(t) \/ Listed(t)
               \/ Match(t) \/ MatchFails(t) \/ Purge(t) \/ PurgeFails(t)
         \/ Edit \/ Handle
         \/ \E n \in Node : Expire(n)
         \/ RestartRegistry
  BY DEF Next, Call, Serve, AllDone

(* The calls of the registry's clients, and the aging of a record. *)
LEMMA HeartbeatDoes ==
  ASSUME TypeInv, NEW t \in Thread, NEW n \in Node, NEW s \in {"healthy", "down"},
         Heartbeat(t, n, s)
  PROVE  /\ cur[n] # 0 /\ Marked(n, cur[n], s) /\ pc[t] = "idle" /\ calm' = FALSE
         /\ UNCHANGED <<routes, tables, gw>>
         /\ \/ /\ s # "healthy" /\ Live(n).status = "healthy"
               /\ GoWith(t, "match", [IdleJob EXCEPT !.kind = "heartbeat", !.node = n])
            \/ (s = "healthy" \/ Live(n).status # "healthy") /\ UNCHANGED threads
         /\ tainted' = IF s # "healthy" /\ Live(n).status = "litellm_error"
                       THEN tainted \cup {n} ELSE tainted
<1>1. RegistryTyped /\ cur[n] # 0
  BY DEF TypeInv, Heartbeat
<1>2. /\ cur[n] \in Nat \ {0} /\ cur[n] <= Len(obj[n])
      /\ Live(n).status = obj[n][cur[n]].status /\ obj[n][cur[n]] \in Record
  BY <1>1, LiveTyped DEF RegistryTyped
<1>. DEFINE g == cur[n]
            r == [obj[n][g] EXCEPT !.status = s, !.fresh = TRUE]
<1>3. r \in Record /\ r.roles = obj[n][g].roles /\ r.status = s
  BY <1>2 DEF Record, NodeStatus
<1>4. obj \in [Node -> Seq(Record)]
  BY <1>1 DEF RegistryTyped
<1>5. obj' = [obj EXCEPT ![n][g].status = s, ![n][g].fresh = TRUE] /\ UNCHANGED cur
  BY DEF Heartbeat
<1>6. obj' = [obj EXCEPT ![n] = [obj[n] EXCEPT ![g] = r]]
  <2>. HIDE DEF g
  <2>1. obj[n] \in Seq(Record) /\ g \in 1..Len(obj[n]) /\ obj[n][g] \in Record
    BY <1>2, <1>4 DEF g
  <2>. QED  BY <1>4, <1>5, <2>1
<1>7. Marked(n, g, s)
  <2>. HIDE DEF g, r
  <2>1. g \in Nat \ {0} /\ g <= Len(obj[n])
    BY <1>2 DEF g
  <2>. QED  BY <1>1, <1>3, <1>5, <1>6, <2>1, MarkIt
<1>. QED  BY <1>2, <1>7 DEF Heartbeat, Request

LEMMA ExpireDoes ==
  ASSUME TypeInv, NEW n \in Node, Expire(n)
  PROVE  /\ cur[n] # 0 /\ Marked(n, cur[n], Live(n).status) /\ calm' = FALSE
         /\ UNCHANGED <<routes, tables, threads, gw, tainted>>
<1>1. RegistryTyped /\ cur[n] # 0
  BY DEF TypeInv, Expire
<1>2. /\ cur[n] \in Nat \ {0} /\ cur[n] <= Len(obj[n])
      /\ Live(n).status = obj[n][cur[n]].status /\ obj[n][cur[n]] \in Record
  BY <1>1, LiveTyped DEF RegistryTyped
<1>. DEFINE g == cur[n]
            r == [obj[n][g] EXCEPT !.fresh = FALSE]
<1>3. r \in Record /\ r.roles = obj[n][g].roles /\ r.status = Live(n).status
  BY <1>2 DEF Record
<1>4. obj \in [Node -> Seq(Record)]
  BY <1>1 DEF RegistryTyped
<1>5. obj' = [obj EXCEPT ![n][g].fresh = FALSE] /\ UNCHANGED cur
  BY DEF Expire
<1>6. obj' = [obj EXCEPT ![n] = [obj[n] EXCEPT ![g] = r]]
  <2>. HIDE DEF g
  <2>1. obj[n] \in Seq(Record) /\ g \in 1..Len(obj[n]) /\ obj[n][g] \in Record
    BY <1>2, <1>4 DEF g
  <2>. QED  BY <1>4, <1>5, <2>1
<1>7. Marked(n, g, Live(n).status)
  <2>. HIDE DEF g, r
  <2>1. g \in Nat \ {0} /\ g <= Len(obj[n])
    BY <1>2 DEF g
  <2>2. Marked(n, g, r.status)
    BY <1>1, <1>3, <1>5, <1>6, <2>1, MarkIt
  <2>. QED  BY <1>3, <2>2
<1>. QED  BY <1>1, <1>7 DEF Expire

(* Steps of one thread that change no length but perhaps a mark.           *)
LEMMA CarryItems ==
  ASSUME TypeInv, ThreadsTyped', NEW t \in Thread, OthersStay(t),
         \A m \in Node : Len(obj'[m]) \in Nat /\ Len(obj[m]) <= Len(obj'[m]),
         pc'[t] # "post" =>
            \A i \in job'[t].todo : \/ i \in job[t].todo /\ pc[t] # "post"
                                    \/ i[2] <= Len(obj[i[1]]) /\ i \in Item
  PROVE  ItemsThere'
<1>. SUFFICES ASSUME NEW u \in Thread, pc'[u] # "post", NEW i \in job'[u].todo
              PROVE  i[2] <= Len(obj'[i[1]])
  BY DEF ItemsThere
<1>1. /\ ThreadsTyped /\ RegistryTyped /\ ItemsThere
      /\ \A m \in Node : Len(obj[m]) \in Nat
  BY DEF TypeInv, RegistryTyped
<1>2. i \in Item /\ i[2] <= Len(obj[i[1]])
  <2>1. CASE u # t
    <3>1. pc[u] # "post" /\ i \in job[u].todo
      BY <2>1 DEF OthersStay
    <3>. QED  BY <1>1, <3>1, HandsOf DEF ItemsThere
  <2>2. CASE u = t
    BY <1>1, <2>2, HandsOf DEF ItemsThere
  <2>. QED  BY <2>1, <2>2
<1>3. i[1] \in Node /\ i[2] \in Nat
  BY <1>2 DEF Item
<1>. QED  BY <1>1, <1>2, <1>3

LEMMA KeepRoom ==
  ASSUME TypeInv, ThreadsTyped', NEW t \in Thread, OthersStay(t),
         \A m \in Node : Len(obj'[m]) = Len(obj[m]),
         pc[t] = "post" <=> pc'[t] = "post",
         pc[t] = "post" => job'[t].node = job[t].node
  PROVE  Room'
<1>1. ThreadsTyped /\ Room
  BY DEF TypeInv
<1>2. \A u \in Thread : /\ pc[u] = "post" <=> job[u].kind = "register"
                        /\ pc'[u] = "post" <=> job'[u].kind = "register"
  <2>. TAKE u \in Thread
  <2>1. pc[u] = "post" <=> job[u].kind = "register"
    BY <1>1, HandsOf
  <2>2. Fits(pc'[u], job'[u])
    BY DEF ThreadsTyped
  <2>. QED  BY <2>1, <2>2, IdleJobTyped DEF Fits
<1>3. ASSUME NEW m \in Node  PROVE Registering(m)' = Registering(m)
  BY <1>2 DEF Registering, OthersStay
<1>. QED  BY <1>1, <1>3 DEF Room

-----------------------------------------------------------------------------
(* Type correctness.                                                       *)

LEMMA InitTypes == Init => TypeInv
<1>. SUFFICES ASSUME Init  PROVE TypeInv
  OBVIOUS
<1>1. PICK up \in SUBSET Node :
          /\ obj = [n \in Node |-> IF n \in up THEN <<Registered>> ELSE <<>>]
          /\ cur = [n \in Node |-> IF n \in up THEN 1 ELSE 0]
          /\ \E known \in {"none", "on"} :
                /\ models = [m \in Model |-> known]
                /\ rows = [n \in Node |-> known]
          /\ routes = (up \X Role) \cup
                IF Enabled # {} THEN {<<m, RoleOf[m]>> : m \in Enabled}
                                ELSE {<<Static, CHOOSE r \in Role : TRUE>>}
  BY DEF Init
<1>2. Registered \in Record
  BY DEF Registered, Record, NodeStatus
<1>. DEFINE one == <<Registered>>
            none == <<>>
<1>3. /\ one \in Seq(Record) /\ Len(one) = 1
      /\ none \in Seq(Record) /\ Len(none) = 0
  BY <1>2
<1>4. obj = [n \in Node |-> IF n \in up THEN one ELSE none]
  BY <1>1
<1>. HIDE DEF one, none
<1>5. /\ RegistryTyped
      /\ \A n \in Node : (Len(obj[n]) = 0 \/ Len(obj[n]) = 1)
  <2>1. obj \in [Node -> Seq(Record)]
    BY <1>3, <1>4
  <2>2. cur \in [Node -> Nat]
    BY <1>1
  <2>3. \A n \in Node : Len(obj[n]) = IF n \in up THEN 1 ELSE 0
    BY <1>3, <1>4
  <2>4. \A n \in Node : cur[n] = IF n \in up THEN 1 ELSE 0
    BY <1>1
  <2>5. ASSUME NEW n \in Node  PROVE (Len(obj[n]) = 0 \/ Len(obj[n]) = 1) /\ cur[n] <= Len(obj[n])
    <3>1. Len(obj[n]) = (IF n \in up THEN 1 ELSE 0) /\ cur[n] = (IF n \in up THEN 1 ELSE 0)
      BY <2>3, <2>4
    <3>. QED  BY <3>1
  <2>. QED  BY <2>1, <2>2, <2>5 DEF RegistryTyped
<1>6. ThreadsTyped /\ ItemsThere
  <2>1. \A t \in Thread : pc[t] = "idle" /\ job[t] = IdleJob
    BY DEF Init
  <2>2. pc \in [Thread -> ThreadStep] /\ job \in [Thread -> Job]
    BY IdleJobTyped DEF Init, ThreadStep
  <2>3. IdleJob.todo = {}
    BY DEF IdleJob
  <2>. QED  BY <2>1, <2>2, <2>3 DEF ThreadsTyped, ItemsThere, Fits
<1>7. TablesTyped
  <2>1. (CHOOSE r \in Role : TRUE) \in Role
    BY FleetAssumption
  <2>2. routes \subseteq Route
    BY <1>1, <2>1, Apart DEF Route, Owner, Enabled
  <2>. QED  BY <1>1, <2>2 DEF Init, TablesTyped
<1>8. GatewayTyped
  BY IdleGwTyped DEF Init, GatewayTyped, IdleGw
<1>9. Room
  <2>1. \A t \in Thread : job[t].kind = "none"
    BY IdleJobTyped DEF Init
  <2>2. \A n \in Node : Registering(n) = {}
    BY <2>1 DEF Registering
  <2>3. Cardinality({}) = 0 /\ MaxGen \in Nat \ {0}
    BY FS_EmptySet, FleetAssumption
  <2>4. ASSUME NEW n \in Node
        PROVE  Len(obj[n]) + Cardinality(Registering(n)) <= MaxGen
    <3>1. (Len(obj[n]) = 0 \/ Len(obj[n]) = 1) /\ Cardinality(Registering(n)) = 0
      BY <1>5, <2>2, <2>3
    <3>2. \A k : k = 0 \/ k = 1 => k + 0 <= MaxGen
      BY <2>3
    <3>. QED  BY <3>1, <3>2
  <2>. QED  BY <2>4 DEF Room
<1>. QED  BY <1>5, <1>6, <1>7, <1>8, <1>9 DEF TypeInv

(* A client asks for a registration: its thread takes one of the free places. *)
LEMMA BeginRegisterTypes ==
  ASSUME TypeInv, NEW t \in Thread, NEW n \in Node, NEW R \in Offers, BeginRegister(t, n, R)
  PROVE  TypeInv'
<1>. DEFINE j == [IdleJob EXCEPT !.kind = "register", !.node = n, !.todo = R, !.roles = R]
<1>1. ThreadsTyped /\ RegistryTyped /\ ItemsThere /\ TablesTyped /\ GatewayTyped /\ Room
  BY DEF TypeInv
<1>2. GoWith(t, "post", j) /\ pc[t] = "idle" /\ UNCHANGED <<registry, routes, tables, gw, tainted>>
  BY DEF BeginRegister, Request
<1>3. R \in SUBSET Role
  BY FleetAssumption
<1>4. j \in Job /\ Fits("post", j) /\ j.kind = "register" /\ j.node = n
  BY <1>3, NoNodesTyped DEF IdleJob, Job, Fits, Kind
<1>. HIDE DEF j
<1>5. ThreadsTyped'
  BY <1>1, <1>2, <1>4, GoneTyped DEF ThreadStep
<1>6. OthersStay(t) /\ pc'[t] = "post" /\ job'[t] = j
  BY <1>1, <1>2, Gone
<1>7. ItemsThere'
  BY <1>1, <1>2, <1>5, <1>6, CarryItems DEF registry, RegistryTyped
<1>8. Room'
  <2>1. job[t].kind = "none"
    BY <1>1, <1>2, HandsOf
  <2>2. Registering(n)' = Registering(n) \cup {t} /\ t \notin Registering(n)
    BY <1>4, <1>6, <2>1 DEF OthersStay, Registering
  <2>3. \A m \in Node : m # n => Registering(m)' = Registering(m)
    BY <1>4, <1>6, <2>1 DEF OthersStay, Registering
  <2>4. IsFiniteSet(Registering(n))
    BY FleetAssumption, FS_Subset DEF Registering
  <2>5. Cardinality(Registering(n)') = Cardinality(Registering(n)) + 1
    BY <2>2, <2>4, FS_AddElement
  <2>6. Len(obj[n]) + Cardinality(Registering(n)) < MaxGen
    BY DEF BeginRegister, Registering
  <2>7. Cardinality(Registering(n)) \in Nat /\ Len(obj[n]) \in Nat /\ MaxGen \in Nat
    BY <1>1, <2>4, FS_CardinalityType, FleetAssumption DEF RegistryTyped
  <2>8. Len(obj[n]) + Cardinality(Registering(n)') <= MaxGen
    BY <2>5, <2>6, <2>7
  <2>. QED  BY <1>1, <1>2, <2>3, <2>8 DEF Room, registry
<1>9. RegistryTyped' /\ TablesTyped' /\ GatewayTyped'
  BY <1>1, <1>2 DEF RegistryTyped, TablesTyped, GatewayTyped, registry, tables
<1>. QED  BY <1>5, <1>7, <1>8, <1>9 DEF TypeInv

(* A registration ends: its place is taken by the record. *)
LEMMA PutRecordTypes ==
  ASSUME TypeInv, NEW t \in Thread, PutRecord(t)
  PROVE  TypeInv'
<1>. DEFINE r == [status |-> IF job[t].ok THEN "healthy" ELSE "litellm_error",
                  fresh |-> TRUE, roles |-> job[t].roles]
<1>1. PICK n \in Node : n = job[t].node /\ job[t].kind = "register" /\ job[t] \in Job
  BY HandsOf DEF TypeInv, PutRecord
<1>2. ThreadsTyped /\ RegistryTyped /\ ItemsThere /\ TablesTyped /\ GatewayTyped /\ Room
  BY DEF TypeInv
<1>3. /\ GoWith(t, "idle", job[t]) /\ pc[t] = "post" /\ UNCHANGED <<routes, tables, gw, tainted>>
      /\ obj' = [obj EXCEPT ![n] = Append(@, r)] /\ cur' = [cur EXCEPT ![n] = Len(obj[n]) + 1]
  BY <1>1 DEF PutRecord, Goto
<1>4. r \in Record
  BY <1>1 DEF Job, Record, NodeStatus
<1>. HIDE DEF r
<1>5. RegistryTyped' /\ \A m \in Node : Len(obj'[m]) = IF m = n THEN Len(obj[n]) + 1 ELSE Len(obj[m])
  BY <1>2, <1>3, <1>4, PutLive
<1>6. ThreadsTyped'
  BY <1>2, <1>3, GoneTyped DEF ThreadStep
<1>7. OthersStay(t) /\ pc'[t] = "idle" /\ job'[t] = IdleJob
  BY <1>2, <1>3, Gone
<1>8. \A m \in Node : Len(obj[m]) \in Nat
  BY <1>2 DEF RegistryTyped
<1>9. ItemsThere'
  <2>1. IdleJob.todo = {}
    BY DEF IdleJob
  <2>2. \A m \in Node : Len(obj'[m]) \in Nat /\ Len(obj[m]) <= Len(obj'[m])
    BY <1>5, <1>8
  <2>. QED  BY <1>6, <1>7, <2>1, <2>2, CarryItems
<1>10. Room'
  <2>1. Registering(n)' = Registering(n) \ {t} /\ t \in Registering(n)
    BY <1>1, <1>7, IdleJobTyped DEF OthersStay, Registering
  <2>2. \A m \in Node : m # n => Registering(m)' = Registering(m)
    BY <1>1, <1>7, IdleJobTyped DEF OthersStay, Registering
  <2>3. IsFiniteSet(Registering(n))
    BY FleetAssumption, FS_Subset DEF Registering
  <2>4. Cardinality(Registering(n)') = Cardinality(Registering(n)) - 1
    BY <2>1, <2>3, FS_RemoveElement
  <2>5. Cardinality(Registering(n)) \in Nat /\ MaxGen \in Nat
    BY <2>3, FS_CardinalityType, FleetAssumption
  <2>6. Len(obj[n]) + Cardinality(Registering(n)) <= MaxGen
    BY <1>2 DEF Room
  <2>7. Len(obj'[n]) + Cardinality(Registering(n)') <= MaxGen
    BY <1>5, <1>8, <2>4, <2>5, <2>6
  <2>8. ASSUME NEW m \in Node, m # n
        PROVE  Len(obj'[m]) + Cardinality(Registering(m)') <= MaxGen
    BY <1>2, <1>5, <2>2, <2>8 DEF Room
  <2>. QED  BY <2>7, <2>8 DEF Room
<1>11. TablesTyped' /\ GatewayTyped'
  BY <1>2, <1>3 DEF TablesTyped, GatewayTyped, tables
<1>. QED  BY <1>5, <1>6, <1>9, <1>10, <1>11 DEF TypeInv

(* A thread of the registry goes on: it posts, visits, hunts or answers. *)
LEMMA ThreadTypes ==
  ASSUME TypeInv, ThreadsTyped', RegistryTyped', NEW t \in Thread, OthersStay(t),
         \A m \in Node : Len(obj'[m]) = Len(obj[m]),
         pc[t] = "post" <=> pc'[t] = "post",
         pc[t] = "post" => job'[t].node = job[t].node,
         pc'[t] # "post" =>
            \A i \in job'[t].todo : \/ i \in job[t].todo /\ pc[t] # "post"
                                    \/ i[2] <= Len(obj[i[1]]) /\ i \in Item,
         routes' \subseteq Route, tainted' \subseteq Node, UNCHANGED tables, GatewayTyped'
  PROVE  TypeInv'
<1>1. \A m \in Node : Len(obj'[m]) \in Nat /\ Len(obj[m]) <= Len(obj'[m])
  BY DEF TypeInv, RegistryTyped
<1>2. ItemsThere'
  BY <1>1, CarryItems
<1>3. Room'
  BY KeepRoom
<1>4. TablesTyped'
  BY DEF TypeInv, TablesTyped, tables
<1>. QED  BY <1>2, <1>3, <1>4 DEF TypeInv

LEMMA PostTypes ==
  ASSUME TypeInv, NEW t \in Thread, PostRoute(t) \/ PostRouteFails(t)
  PROVE  TypeInv'
<1>1. ThreadsTyped /\ RegistryTyped /\ TablesTyped /\ GatewayTyped /\ pc[t] = "post"
  BY DEF TypeInv, PostRoute, PostRouteFails
<1>2. job[t] \in Job /\ job[t].node \in Node /\ job[t].todo \subseteq Role
      /\ job[t].kind = "register" /\ job[t].ids = {}
  BY <1>1, HandsOf
<1>3. PICK r \in job[t].todo, ok \in BOOLEAN :
         /\ GoWith(t, "post", [job[t] EXCEPT !.todo = @ \ {r}, !.ok = ok])
         /\ routes' \in {routes, routes \cup {<<job[t].node, r>>}}
         /\ UNCHANGED <<registry, tables, gw, tainted>>
  <2>1. CASE PostRoute(t)
    <3>1. PICK r \in job[t].todo :
             /\ GoWith(t, "post", [job[t] EXCEPT !.todo = @ \ {r}])
             /\ routes' = routes \cup {<<job[t].node, r>>}
      BY <2>1 DEF PostRoute
    <3>2. [job[t] EXCEPT !.todo = @ \ {r}] = [job[t] EXCEPT !.todo = @ \ {r}, !.ok = job[t].ok]
          /\ job[t].ok \in BOOLEAN
      BY <1>2 DEF Job
    <3>. QED  BY <2>1, <3>1, <3>2 DEF PostRoute
  <2>2. CASE PostRouteFails(t)
    BY <2>2 DEF PostRouteFails
  <2>. QED  BY <1>1, <2>1, <2>2
<1>. DEFINE j == [job[t] EXCEPT !.todo = @ \ {r}, !.ok = ok]
<1>4. j \in Job /\ j.kind = "register" /\ j.node = job[t].node /\ j.todo \subseteq Role /\ j.ids = {}
  BY <1>2 DEF Job
<1>. HIDE DEF j
<1>5. ThreadsTyped' /\ OthersStay(t) /\ pc'[t] = "post" /\ job'[t] = j
  <2>1. GoWith(t, "post", j) /\ Fits("post", j)
    BY <1>2, <1>3, <1>4 DEF j, Fits
  <2>. QED  BY <1>1, <1>4, <2>1, Gone, GoneTyped DEF ThreadStep
<1>6. routes' \subseteq Route
  BY <1>1, <1>2, <1>3 DEF TablesTyped, Route, Owner
<1>7. RegistryTyped' /\ GatewayTyped' /\ tainted' \subseteq Node /\ UNCHANGED tables
      /\ \A m \in Node : Len(obj'[m]) = Len(obj[m])
  BY <1>1, <1>3 DEF RegistryTyped, GatewayTyped, TablesTyped, registry
<1>. QED  BY <1>1, <1>4, <1>5, <1>6, <1>7, ThreadTypes

LEMMA HuntTypes ==
  ASSUME TypeInv, NEW t \in Thread, Match(t) \/ MatchFails(t) \/ Purge(t) \/ PurgeFails(t)
  PROVE  TypeInv'
<1>1. ThreadsTyped /\ RegistryTyped /\ TablesTyped /\ GatewayTyped
  BY DEF TypeInv
<1>2. PICK ids \in SUBSET RoutesFor(job[t].node, Role) :
            /\ pc[t] \in {"match", "purge"} /\ After(t, ids)
            /\ routes' \subseteq routes /\ UNCHANGED <<registry, tables, gw>>
            /\ tainted' = tainted \/ tainted' = tainted \cup {job[t].node}
  BY HuntDoes
<1>3. job[t].node \in Node /\ IdleJob.todo = {}
  BY <1>1, <1>2, HandsOf DEF IdleJob
<1>4. ThreadsTyped' /\ OthersStay(t)
  BY <1>1, <1>2, AfterDoes
<1>5. pc'[t] # "post" /\ job'[t].todo \subseteq job[t].todo
  BY <1>1, <1>2, <1>3, AfterDoes
<1>6. RegistryTyped' /\ GatewayTyped' /\ tainted' \subseteq Node /\ UNCHANGED tables
      /\ \A m \in Node : Len(obj'[m]) = Len(obj[m])
  BY <1>1, <1>2, <1>3 DEF RegistryTyped, GatewayTyped, TablesTyped, registry
<1>7. routes' \subseteq Route
  BY <1>1, <1>2 DEF TablesTyped
<1>. QED  BY <1>2, <1>4, <1>5, <1>6, <1>7, ThreadTypes

LEMMA VisitTypes ==
  ASSUME TypeInv, NEW t \in Thread, Visit(t)
  PROVE  TypeInv'
<1>1. ThreadsTyped /\ RegistryTyped /\ TablesTyped /\ GatewayTyped
  BY DEF TypeInv
<1>2. PICK i, s : Visited(t, i, s)
  BY VisitDoes
<1>3. ThreadsTyped' /\ OthersStay(t) /\ pc[t] = "visit" /\ pc'[t] # "post"
      /\ job'[t].todo \subseteq job[t].todo
  BY <1>2, VisitDoes DEF Visited
<1>4. RegistryTyped' /\ \A m \in Node : Len(obj'[m]) = Len(obj[m])
  <2>1. Marked(i[1], i[2], s) /\ i[1] \in Node
    BY <1>2 DEF Visited, Item
  <2>2. \A m \in Node : Len(obj'[m]) = Len(obj[m])
    BY <2>1 DEF Marked
  <2>. QED  BY <1>1, <2>1, <2>2, MarkedTyped
<1>5. GatewayTyped' /\ routes' \subseteq Route /\ tainted' \subseteq Node /\ UNCHANGED tables
  BY <1>1 DEF Visit, GatewayTyped, TablesTyped
<1>. QED  BY <1>3, <1>4, <1>5, ThreadTypes

LEMMA HeartbeatTypes ==
  ASSUME TypeInv, NEW t \in Thread, NEW n \in Node, NEW s \in {"healthy", "down"},
         Heartbeat(t, n, s)
  PROVE  TypeInv'
<1>1. ThreadsTyped /\ RegistryTyped /\ TablesTyped /\ GatewayTyped
  BY DEF TypeInv
<1>. DEFINE j == [IdleJob EXCEPT !.kind = "heartbeat", !.node = n]
<1>2. j \in Job /\ Fits("match", j) /\ j.todo = {}
  BY NoNodesTyped DEF IdleJob, Job, Fits, Kind
<1>3. /\ Marked(n, cur[n], s) /\ pc[t] = "idle"
      /\ UNCHANGED <<routes, tables, gw>>
      /\ GoWith(t, "match", j) \/ UNCHANGED threads
      /\ tainted' \subseteq tainted \cup {n}
  BY HeartbeatDoes
<1>. HIDE DEF j
<1>4. /\ ThreadsTyped' /\ OthersStay(t) /\ pc'[t] # "post"
      /\ job'[t].todo \subseteq job[t].todo
  <2>1. CASE GoWith(t, "match", j)
    BY <1>1, <1>2, <2>1, Gone, GoneTyped DEF ThreadStep
  <2>2. CASE UNCHANGED threads
    BY <1>1, <1>3, <2>2 DEF threads, ThreadsTyped, OthersStay
  <2>. QED  BY <1>3, <2>1, <2>2
<1>5. RegistryTyped' /\ \A m \in Node : Len(obj'[m]) = Len(obj[m])
  <2>1. \A m \in Node : Len(obj'[m]) = Len(obj[m])
    BY <1>3 DEF Marked
  <2>. QED  BY <1>1, <1>3, <2>1, MarkedTyped
<1>6. GatewayTyped' /\ routes' \subseteq Route /\ tainted' \subseteq Node /\ UNCHANGED tables
  BY <1>1, <1>3 DEF GatewayTyped, TablesTyped
<1>. QED  BY <1>3, <1>4, <1>5, <1>6, ThreadTypes

LEMMA DeregisterTypes ==
  ASSUME TypeInv, NEW t \in Thread, NEW n \in Node, Deregister(t, n)
  PROVE  TypeInv'
<1>1. ThreadsTyped /\ RegistryTyped /\ TablesTyped /\ GatewayTyped
  BY DEF TypeInv
<1>. DEFINE j == [IdleJob EXCEPT !.kind = "deregister", !.node = n]
<1>2. j \in Job /\ Fits("match", j) /\ j.todo = {}
  BY NoNodesTyped DEF IdleJob, Job, Fits, Kind
<1>3. /\ GoWith(t, "match", j) /\ pc[t] = "idle" /\ cur' = [cur EXCEPT ![n] = 0]
      /\ UNCHANGED <<obj, routes, tables, gw, tainted>>
  BY DEF Deregister, Request
<1>. HIDE DEF j
<1>4. /\ ThreadsTyped' /\ OthersStay(t) /\ pc'[t] # "post" /\ job'[t].todo = {}
  BY <1>1, <1>2, <1>3, Gone, GoneTyped DEF ThreadStep
<1>5. RegistryTyped'
  <2>1. \A m \in Node : Len(obj[m]) \in Nat
    BY <1>1 DEF RegistryTyped
  <2>2. cur' \in [Node -> Nat] /\ \A m \in Node : cur'[m] = 0 \/ cur'[m] = cur[m]
    BY <1>1, <1>3 DEF RegistryTyped
  <2>. QED  BY <1>1, <1>3, <2>1, <2>2 DEF RegistryTyped
<1>6. GatewayTyped' /\ routes' \subseteq Route /\ tainted' \subseteq Node /\ UNCHANGED tables
      /\ \A m \in Node : Len(obj'[m]) = Len(obj[m])
  BY <1>1, <1>3 DEF GatewayTyped, TablesTyped
<1>. QED  BY <1>3, <1>4, <1>5, <1>6, ThreadTypes

LEMMA ListTypes ==
  ASSUME TypeInv, NEW t \in Thread, ListNodes(t) \/ AnswerGateway(t) \/ Listed(t)
  PROVE  TypeInv'
<1>1. ThreadsTyped /\ RegistryTyped /\ TablesTyped /\ GatewayTyped
  BY DEF TypeInv
<1>2. UNCHANGED <<registry, routes, tables, tainted>>
  BY DEF ListNodes, AnswerGateway, Listed
<1>3. \/ \E kind \in {"list", "answer"} :
            /\ GoWith(t, "visit", Snapshot(kind)) /\ pc[t] = "idle"
            /\ \/ gw' = gw
               \/ gw' = [gw EXCEPT !.pc = "await"] /\ gw.pc = "ask"
      \/ Listed(t)
  <2>1. CASE ListNodes(t)
    BY <2>1 DEF ListNodes, Request
  <2>2. CASE AnswerGateway(t)
    BY <2>2 DEF AnswerGateway
  <2>. QED  BY <2>1, <2>2
<1>4. ThreadsTyped' /\ OthersStay(t) /\ pc[t] # "post" /\ pc'[t] # "post"
      /\ \A i \in job'[t].todo : i[2] <= Len(obj[i[1]]) /\ i \in Item
  <2>1. ASSUME NEW kind \in {"list", "answer"}, GoWith(t, "visit", Snapshot(kind)), pc[t] = "idle"
        PROVE  /\ ThreadsTyped' /\ OthersStay(t) /\ pc[t] # "post" /\ pc'[t] # "post"
               /\ \A i \in job'[t].todo : i[2] <= Len(obj[i[1]]) /\ i \in Item
    <3>1. /\ Snapshot(kind) \in Job /\ Fits("visit", Snapshot(kind))
          /\ Snapshot(kind).todo = {<<n, cur[n]>> : n \in {n \in Node : cur[n] # 0}}
      BY SnapshotTyped
    <3>2. ThreadsTyped' /\ OthersStay(t) /\ pc'[t] = "visit" /\ job'[t] = Snapshot(kind)
      BY <1>1, <2>1, <3>1, Gone, GoneTyped DEF ThreadStep
    <3>3. \A i \in job'[t].todo : i[2] <= Len(obj[i[1]]) /\ i \in Item
      BY <1>1, <3>1, <3>2 DEF RegistryTyped, Item
    <3>. QED  BY <2>1, <3>2, <3>3
  <2>2. CASE Listed(t)
    <3>1. GoWith(t, "idle", job[t]) /\ pc[t] = "visit" /\ IdleJob.todo = {}
      BY <2>2 DEF Listed, Goto, IdleJob
    <3>. QED  BY <1>1, <3>1, Gone, GoneTyped DEF ThreadStep
  <2>. QED  BY <1>3, <2>1, <2>2
<1>5. GatewayTyped'
  <2>1. CASE gw' = gw
    BY <1>1, <2>1 DEF GatewayTyped
  <2>2. CASE gw' = [gw EXCEPT !.pc = "await"] /\ gw.pc = "ask"
    BY <1>1, <2>2 DEF GatewayTyped, Gateway, GwStep
  <2>3. CASE Listed(t) /\ gw' # gw
    <3>1. gw' = Planned(job[t].found) /\ gw.pc = "await" /\ job[t].found \in [Node -> Listing]
      BY <1>1, <2>3, HandsOf DEF Listed, Job
    <3>2. /\ gw' \in Gateway /\ gw'.kind = gw.kind /\ gw.kind # "none"
          /\ gw.kind = "list" => gw'.pc = "mirror"
          /\ gw.kind = "reconcile" => gw'.pc \in {"prune", "post", "settled"}
      BY <1>1, <3>1, PlannedTyped
    <3>3. gw.kind \in {"none", "list", "reconcile"}
      BY <1>1 DEF GatewayTyped, Gateway
    <3>. QED  BY <3>2, <3>3 DEF GatewayTyped
  <2>. QED  BY <1>3, <2>1, <2>2, <2>3
<1>6. RegistryTyped' /\ routes' \subseteq Route /\ tainted' \subseteq Node /\ UNCHANGED tables
      /\ \A m \in Node : Len(obj'[m]) = Len(obj[m])
  BY <1>1, <1>2 DEF RegistryTyped, TablesTyped, registry
<1>. QED  BY <1>4, <1>5, <1>6, ThreadTypes

(* The steps that leave the threads and the length of the records alone. *)
LEMMA StillTypes ==
  ASSUME TypeInv, UNCHANGED threads, RegistryTyped',
         \A m \in Node : Len(obj'[m]) = Len(obj[m]), TablesTyped', GatewayTyped'
  PROVE  TypeInv'
<1>1. ThreadsTyped' /\ ThreadsTyped /\ RegistryTyped
  BY DEF TypeInv, ThreadsTyped, threads
<1>2. \A n \in Node : Registering(n)' = Registering(n)
  BY DEF threads, Registering
<1>3. Room'
  BY <1>2 DEF TypeInv, Room
<1>4. ItemsThere'
  <2>. SUFFICES ASSUME NEW u \in Thread, pc[u] # "post", NEW i \in job[u].todo
                PROVE  i[2] <= Len(obj'[i[1]])
    BY DEF ItemsThere, threads
  <2>1. i \in Item /\ i[2] <= Len(obj[i[1]])
    BY <1>1, HandsOf DEF TypeInv, ItemsThere
  <2>2. i[1] \in Node
    BY <2>1 DEF Item
  <2>. QED  BY <2>1, <2>2
<1>. QED  BY <1>1, <1>3, <1>4 DEF TypeInv

LEMMA StoodTypes ==
  ASSUME TypeInv, UNCHANGED <<registry, threads>>, TablesTyped', GatewayTyped'
  PROVE  TypeInv'
<1>1. RegistryTyped' /\ \A m \in Node : Len(obj'[m]) = Len(obj[m])
  BY DEF TypeInv, RegistryTyped, registry
<1>. QED  BY <1>1, StillTypes

(* The gateway's handler deletes, registers and mirrors what it planned.   *)
Pruned(r) ==
    /\ gw.pc = "prune" /\ r \in gw.doomed /\ UNCHANGED <<tables, tainted>>
    /\ gw' = Onward([gw EXCEPT !.doomed = @ \ {r}])
    /\ \/ routes' = routes \ {r} /\ UNCHANGED calm
       \/ routes' = routes /\ calm' = FALSE

Posted(r) ==
    /\ gw.pc = "post" /\ r \in gw.todo /\ UNCHANGED tables
    /\ gw' = Onward([gw EXCEPT !.todo = @ \ {r}])
    /\ \/ /\ routes' = routes \cup {r} /\ UNCHANGED calm
          /\ tainted' = IF r[1] \in Node /\ Live(r[1]).status # "healthy"
                        THEN tainted \cup {r[1]} ELSE tainted
       \/ routes' = routes /\ calm' = FALSE /\ UNCHANGED tainted

RowFor(n) == IF gw.nodes[n].status # "healthy" THEN "off"
             ELSE IF rows[n] = "none" THEN "on" ELSE rows[n]

ToPost(n) == IF RowFor(n) = "on" THEN RoutesFor(n, gw.nodes[n].roles) ELSE {}

AfterRow(n) == [gw EXCEPT !.visit = @ \ {n}, !.pc = "post", !.todo = ToPost(n)]

LEMMA HandleDoes ==
  ASSUME Handle
  PROVE  /\ UNCHANGED <<registry, threads, models>>
         /\ \/ GetRegisteredModels \/ GetRegisteredModelsFails \/ GetNodesFails
            \/ \E r \in gw.doomed : Pruned(r)
            \/ \E r \in gw.todo : Posted(r)
            \/ /\ gw.pc = "mirror" /\ UNCHANGED <<routes, calm, tainted>>
               /\ \E n \in gw.visit :
                     gw' = Onward(AfterRow(n)) /\ rows' = [rows EXCEPT ![n] = RowFor(n)]
            \/ CommitMirror \/ Return
<1>1. CASE GetRegisteredModels \/ GetRegisteredModelsFails \/ GetNodesFails
           \/ CommitMirror \/ Return
  BY <1>1 DEF GetRegisteredModels, GetRegisteredModelsFails, GetNodesFails, CommitMirror,
              Return, tables
<1>2. CASE Prune \/ PruneFails
  BY <1>2 DEF Prune, PruneFails, Pruned, tables
<1>3. Due \subseteq gw.todo
  BY DEF Due
<1>4. CASE RegisterModel
  BY <1>3, <1>4 DEF RegisterModel, Posted, tables
<1>5. CASE RegisterModelFails
  BY <1>3, <1>5 DEF RegisterModelFails, Posted, tables
<1>6. CASE MirrorNode
  BY <1>6 DEF MirrorNode, AfterRow, ToPost, RowFor
<1>. QED  BY <1>1, <1>2, <1>4, <1>5, <1>6 DEF Handle

(* The handler's record before it goes on. *)
LEMMA BeforeOnward ==
  ASSUME TypeInv
  PROVE  /\ \A r \in gw.doomed : gw.pc = "prune" =>
               LET g == [gw EXCEPT !.doomed = @ \ {r}]
               IN  /\ g \in Gateway /\ g.pc = gw.pc /\ g.kind = gw.kind /\ g.nodes = gw.nodes
                   /\ g.doomed = gw.doomed \ {r} /\ g.todo = gw.todo /\ g.visit = gw.visit
                   /\ r \in Route /\ g.kind = "reconcile"
         /\ \A r \in gw.todo : gw.pc = "post" =>
               LET g == [gw EXCEPT !.todo = @ \ {r}]
               IN  /\ g \in Gateway /\ g.pc = gw.pc /\ g.kind = gw.kind /\ g.nodes = gw.nodes
                   /\ g.doomed = gw.doomed /\ g.todo = gw.todo \ {r} /\ g.visit = gw.visit
                   /\ r \in Route /\ g.kind # "none"
         /\ \A n \in gw.visit : gw.pc = "mirror" =>
               /\ n \in Node /\ AfterRow(n) \in Gateway /\ AfterRow(n).pc = "post"
               /\ AfterRow(n).kind = "list" /\ AfterRow(n).nodes = gw.nodes
               /\ AfterRow(n).visit = gw.visit \ {n} /\ RowFor(n) \in {"none", "on", "off"}
<1>1. gw \in Gateway /\ gw.pc # "idle" => gw.kind # "none"
  BY DEF TypeInv, GatewayTyped
<1>2. /\ gw.pc = "prune" => gw.kind = "reconcile"
      /\ gw.pc = "mirror" => gw.kind = "list"
      /\ gw.pc = "post" => gw.kind # "none"
  BY DEF TypeInv, GatewayTyped
<1>3. ASSUME NEW r \in gw.doomed, gw.pc = "prune"
      PROVE  LET g == [gw EXCEPT !.doomed = @ \ {r}]
             IN  /\ g \in Gateway /\ g.pc = gw.pc /\ g.kind = gw.kind /\ g.nodes = gw.nodes
                 /\ g.doomed = gw.doomed \ {r} /\ g.todo = gw.todo /\ g.visit = gw.visit
                 /\ r \in Route /\ g.kind = "reconcile"
  BY <1>2, <1>3 DEF TypeInv, GatewayTyped, Gateway
<1>4. ASSUME NEW r \in gw.todo, gw.pc = "post"
      PROVE  LET g == [gw EXCEPT !.todo = @ \ {r}]
             IN  /\ g \in Gateway /\ g.pc = gw.pc /\ g.kind = gw.kind /\ g.nodes = gw.nodes
                 /\ g.doomed = gw.doomed /\ g.todo = gw.todo \ {r} /\ g.visit = gw.visit
                 /\ r \in Route /\ g.kind # "none"
  BY <1>2, <1>4 DEF TypeInv, GatewayTyped, Gateway
<1>5. ASSUME NEW n \in gw.visit, gw.pc = "mirror"
      PROVE  /\ n \in Node /\ AfterRow(n) \in Gateway /\ AfterRow(n).pc = "post"
             /\ AfterRow(n).kind = "list" /\ AfterRow(n).nodes = gw.nodes
             /\ AfterRow(n).visit = gw.visit \ {n} /\ RowFor(n) \in {"none", "on", "off"}
  <2>1. gw \in Gateway /\ n \in Node /\ gw.nodes[n] \in Listing
    BY DEF TypeInv, GatewayTyped, Gateway
  <2>2. ToPost(n) \in SUBSET Route
    BY <2>1 DEF ToPost, RoutesFor, Listing, Route, Owner
  <2>3. RowFor(n) \in {"none", "on", "off"}
    BY <2>1 DEF RowFor, TypeInv, TablesTyped
  <2>. QED  BY <1>2, <1>5, <2>1, <2>2, <2>3 DEF AfterRow, Gateway, GwStep
<1>. QED  BY <1>3, <1>4, <1>5

LEMMA HandleTypes ==
  ASSUME TypeInv, Handle
  PROVE  TypeInv'
<1>1. TablesTyped /\ GatewayTyped
  BY DEF TypeInv
<1>2. UNCHANGED <<registry, threads, models>>
  BY HandleDoes
<1>3. CASE GetRegisteredModels \/ GetRegisteredModelsFails
  <2>1. \E s \in SUBSET Route : gw' = [gw EXCEPT !.pc = "ask", !.seen = s]
    <3>1. gw.seen \in SUBSET Route /\ routes \in SUBSET Route
      BY <1>1 DEF TablesTyped, GatewayTyped, Gateway
    <3>2. CASE GetRegisteredModels
      BY <3>1, <3>2 DEF GetRegisteredModels
    <3>3. CASE GetRegisteredModelsFails
      <4>1. gw' = [gw EXCEPT !.pc = "ask"]
        BY <3>3 DEF GetRegisteredModelsFails
      <4>2. [gw EXCEPT !.pc = "ask"] = [gw EXCEPT !.pc = "ask", !.seen = gw.seen]
        BY <1>1 DEF GatewayTyped, Gateway
      <4>. QED  BY <3>1, <4>1, <4>2
    <3>. QED  BY <1>3, <3>2, <3>3
  <2>2. GatewayTyped'
    BY <1>1, <1>3, <2>1 DEF GatewayTyped, Gateway, GwStep, GetRegisteredModels,
                            GetRegisteredModelsFails
  <2>3. TablesTyped'
    BY <1>1, <1>3 DEF TablesTyped, GetRegisteredModels, GetRegisteredModelsFails, tables
  <2>. QED  BY <1>2, <2>2, <2>3, StoodTypes
<1>4. CASE GetNodesFails
  <2>1. gw.pc \in {"ask", "await"} /\ gw' = Planned(NoNodes)
    BY <1>4 DEF GetNodesFails
  <2>2. /\ gw' \in Gateway /\ gw'.kind = gw.kind /\ gw.kind # "none"
        /\ gw.kind = "list" => gw'.pc = "mirror"
        /\ gw.kind = "reconcile" => gw'.pc \in {"prune", "post", "settled"}
    BY <1>1, <2>1, PlannedTyped, NoNodesTyped
  <2>3. gw.kind \in {"none", "list", "reconcile"}
    BY <1>1 DEF GatewayTyped, Gateway
  <2>4. GatewayTyped'
    BY <2>2, <2>3 DEF GatewayTyped
  <2>5. TablesTyped'
    BY <1>1, <1>4 DEF TablesTyped, GetNodesFails, tables
  <2>. QED  BY <1>2, <2>4, <2>5, StoodTypes
<1>5. ASSUME NEW r \in gw.doomed, Pruned(r)  PROVE TypeInv'
  <2>. DEFINE g == [gw EXCEPT !.doomed = @ \ {r}]
  <2>1. gw' = Onward(g) /\ gw.pc = "prune"
    BY <1>5 DEF Pruned
  <2>2. g \in Gateway /\ g.pc = "prune" /\ g.kind = "reconcile"
    BY <2>1, BeforeOnward
  <2>. HIDE DEF g
  <2>3. /\ gw' \in Gateway /\ gw'.kind = "reconcile"
        /\ gw'.pc \in {"prune", "post", "mirror", "settled"}
        /\ gw'.pc # "mirror"
    BY <2>1, <2>2, OnwardTyped, OnwardKeeps
  <2>4. GatewayTyped'
    BY <2>3 DEF GatewayTyped
  <2>5. TablesTyped'
    BY <1>1, <1>5 DEF TablesTyped, Pruned, tables
  <2>. QED  BY <1>2, <2>4, <2>5, StoodTypes
<1>6. ASSUME NEW r \in gw.todo, Posted(r)  PROVE TypeInv'
  <2>. DEFINE g == [gw EXCEPT !.todo = @ \ {r}]
  <2>1. gw' = Onward(g) /\ gw.pc = "post"
    BY <1>6 DEF Posted
  <2>2. g \in Gateway /\ g.pc = "post" /\ g.kind # "none" /\ r \in Route
    BY <2>1, BeforeOnward
  <2>. HIDE DEF g
  <2>3. /\ gw' \in Gateway /\ gw'.kind = g.kind
        /\ gw'.pc \in {"prune", "post", "mirror", "settled"}
        /\ gw'.pc # "prune" /\ (gw'.pc = "mirror" => g.kind = "list")
    BY <2>1, <2>2, OnwardTyped, OnwardKeeps
  <2>4. GatewayTyped'
    BY <2>2, <2>3 DEF GatewayTyped
  <2>5. TablesTyped'
    BY <1>1, <1>6, <2>2 DEF TablesTyped, Posted, tables
  <2>. QED  BY <1>2, <2>4, <2>5, StoodTypes
<1>7. ASSUME NEW n \in gw.visit, gw.pc = "mirror", UNCHANGED <<routes, calm, tainted>>,
             gw' = Onward(AfterRow(n)), rows' = [rows EXCEPT ![n] = RowFor(n)]
      PROVE  TypeInv'
  <2>1. /\ n \in Node /\ AfterRow(n) \in Gateway /\ AfterRow(n).pc = "post"
        /\ AfterRow(n).kind = "list" /\ RowFor(n) \in {"none", "on", "off"}
    BY <1>7, BeforeOnward
  <2>2. /\ gw' \in Gateway /\ gw'.kind = "list"
        /\ gw'.pc \in {"prune", "post", "mirror", "settled"} /\ gw'.pc # "prune"
    BY <1>7, <2>1, OnwardTyped, OnwardKeeps
  <2>3. GatewayTyped'
    BY <2>2 DEF GatewayTyped
  <2>4. TablesTyped'
    BY <1>1, <1>2, <1>7, <2>1 DEF TablesTyped
  <2>. QED  BY <1>2, <2>3, <2>4, StoodTypes
<1>8. CASE CommitMirror
  <2>1. TablesTyped'
    BY <1>1, <1>8 DEF TablesTyped, CommitMirror
  <2>2. GatewayTyped'
    BY <1>1, <1>8 DEF GatewayTyped, Gateway, GwStep, CommitMirror
  <2>. QED  BY <1>2, <2>1, <2>2, StoodTypes
<1>9. CASE Return
  <2>1. TablesTyped'
    BY <1>1, <1>9 DEF TablesTyped, Return, tables
  <2>2. GatewayTyped'
    BY <1>9, IdleGwTyped DEF GatewayTyped, IdleGw, Return
  <2>. QED  BY <1>2, <2>1, <2>2, StoodTypes
<1>. QED  BY <1>3, <1>4, <1>5, <1>6, <1>7, <1>8, <1>9, HandleDoes

LEMMA RestartTypes ==
  ASSUME TypeInv, RestartRegistry
  PROVE  TypeInv'
<1>1. /\ obj' = obj /\ cur' = [n \in Node |-> 0] /\ tainted' = Node
      /\ pc' = [t \in Thread |-> "idle"] /\ job' = [t \in Thread |-> IdleJob]
      /\ UNCHANGED <<routes, rows, models, gw>>
  BY DEF RestartRegistry, tables
<1>2. IdleJob.todo = {} /\ IdleJob.kind = "none" /\ IdleJob \in Job
  BY IdleJobTyped DEF IdleJob
<1>3. ThreadsTyped' /\ ItemsThere'
  BY <1>1, <1>2 DEF ThreadsTyped, ItemsThere, Fits, ThreadStep
<1>4. \A m \in Node : Len(obj[m]) \in Nat
  BY DEF TypeInv, RegistryTyped
<1>5. RegistryTyped'
  BY <1>1, <1>4 DEF TypeInv, RegistryTyped
<1>6. Room'
  <2>1. \A t \in Thread : job'[t].kind = "none"
    BY <1>1, <1>2
  <2>2. \A n \in Node : Registering(n)' = {}
    BY <2>1 DEF Registering
  <2>3. ASSUME NEW n \in Node  PROVE Len(obj[n]) <= MaxGen
    <3>1. IsFiniteSet(Registering(n))
      BY FleetAssumption, FS_Subset DEF Registering
    <3>2. Cardinality(Registering(n)) \in Nat
      BY <3>1, FS_CardinalityType
    <3>3. Len(obj[n]) + Cardinality(Registering(n)) <= MaxGen
      BY DEF TypeInv, Room
    <3>. QED  BY <1>4, <3>2, <3>3, FleetAssumption
  <2>4. Cardinality({}) = 0 /\ MaxGen \in Nat
    BY FS_EmptySet, FleetAssumption
  <2>5. ASSUME NEW n \in Node
        PROVE  Len(obj'[n]) + Cardinality(Registering(n)') <= MaxGen
    <3>1. obj'[n] = obj[n] /\ Cardinality(Registering(n)') = 0
      BY <1>1, <2>2, <2>4
    <3>2. Len(obj[n]) + 0 <= MaxGen
      BY <1>4, <2>3
    <3>. QED  BY <3>1, <3>2
  <2>. QED  BY <2>5 DEF Room
<1>7. TablesTyped' /\ GatewayTyped'
  BY <1>1 DEF TypeInv, TablesTyped, GatewayTyped
<1>. QED  BY <1>3, <1>5, <1>6, <1>7 DEF TypeInv

LEMMA NextTypes == TypeInv /\ [Next]_vars => TypeInv'
<1>. SUFFICES ASSUME TypeInv, [Next]_vars  PROVE TypeInv'
  OBVIOUS
<1>1. RegistryTyped /\ TablesTyped /\ GatewayTyped
  BY DEF TypeInv
<1>2. CASE UNCHANGED vars
  <2>1. UNCHANGED <<registry, threads, tables>> /\ UNCHANGED <<routes, gw, tainted>>
    BY <1>2 DEF vars, registry, threads, tables
  <2>2. TablesTyped' /\ GatewayTyped'
    BY <1>1, <2>1 DEF TablesTyped, GatewayTyped, tables
  <2>. QED  BY <2>1, <2>2, StoodTypes
<1>3. ASSUME NEW t \in Thread,
             \/ \E n \in Node, R \in Offers : BeginRegister(t, n, R)
             \/ \E n \in Node, s \in {"healthy", "down"} : Heartbeat(t, n, s)
             \/ \E n \in Node : Deregister(t, n)
      PROVE  TypeInv'
  BY <1>3, BeginRegisterTypes, HeartbeatTypes, DeregisterTypes
<1>4. ASSUME NEW t \in Thread,
             \/ ListNodes(t) \/ AnswerGateway(t) \/ Listed(t) \/ Visit(t)
             \/ PostRoute(t) \/ PostRouteFails(t) \/ PutRecord(t)
             \/ Match(t) \/ MatchFails(t) \/ Purge(t) \/ PurgeFails(t)
      PROVE  TypeInv'
  BY <1>4, ListTypes, VisitTypes, PostTypes, PutRecordTypes, HuntTypes
<1>5. CASE Edit
  <2>1. \E step \in {"seen", "ask"}, kind \in {"reconcile", "list"} :
           /\ step = "seen" => kind = "reconcile"
           /\ Edited(kind, step)
    BY <1>5, EditDoes
  <2>2. GatewayTyped'
    BY <2>1, NoNodesTyped DEF Edited, IdleGw, GatewayTyped, Gateway, GwStep
  <2>3. TablesTyped'
    BY <1>1, <2>1 DEF Edited, TablesTyped
  <2>. QED  BY <2>1, <2>2, <2>3, StoodTypes DEF Edited
<1>6. CASE Handle
  BY <1>6, HandleTypes
<1>7. ASSUME NEW n \in Node, Expire(n)  PROVE TypeInv'
  <2>1. Marked(n, cur[n], Live(n).status) /\ UNCHANGED <<routes, tables, threads, gw, tainted>>
    BY <1>7, ExpireDoes
  <2>2. RegistryTyped' /\ \A m \in Node : Len(obj'[m]) = Len(obj[m])
    <3>1. \A m \in Node : Len(obj'[m]) = Len(obj[m])
      BY <2>1 DEF Marked
    <3>. QED  BY <1>1, <2>1, <3>1, MarkedTyped
  <2>3. TablesTyped' /\ GatewayTyped'
    BY <1>1, <2>1 DEF TablesTyped, GatewayTyped, tables
  <2>. QED  BY <2>1, <2>2, <2>3, StillTypes
<1>8. CASE RestartRegistry
  BY <1>8, RestartTypes
<1>. QED  BY <1>2, <1>3, <1>4, <1>5, <1>6, <1>7, <1>8, StepCases

LEMMA TypesAlways == Spec => []TypeInv
  BY InitTypes, NextTypes, PTL DEF Spec

(* Every variable keeps its type; no node has more records than there were *)
(* registrations; a thread that rests holds nothing, and one that purges   *)
(* has something to delete.                                                *)
THEOREM FleetTyped == Spec => []TypeOK
<1>1. ASSUME TypeInv  PROVE TypeOK
  <2>1. ThreadsTyped /\ RegistryTyped /\ TablesTyped /\ gw \in Gateway /\ Room
    BY <1>1 DEF TypeInv, GatewayTyped
  <2>2. ASSUME NEW n \in Node  PROVE Len(obj[n]) <= MaxGen /\ cur[n] \in 0..Len(obj[n])
    <3>1. Len(obj[n]) \in Nat /\ cur[n] \in Nat /\ cur[n] <= Len(obj[n])
      BY <2>1 DEF RegistryTyped
    <3>2. IsFiniteSet(Registering(n))
      BY FleetAssumption, FS_Subset DEF Registering
    <3>3. Cardinality(Registering(n)) \in Nat
      BY <3>2, FS_CardinalityType
    <3>4. Len(obj[n]) + Cardinality(Registering(n)) <= MaxGen
      BY <2>1 DEF Room
    <3>. QED  BY <3>1, <3>3, <3>4, FleetAssumption
  <2>3. \A t \in Thread : /\ pc[t] = "purge" => job[t].ids # {}
                          /\ pc[t] = "idle" <=> job[t] = IdleJob
    BY <2>1, HandsOf
  <2>4. /\ gw.nodes \in [Node -> Listing] /\ gw.visit \subseteq Node
        /\ gw.seen \cup gw.doomed \cup gw.todo \subseteq Route
    BY <2>1 DEF Gateway
  <2>. QED  BY <2>1, <2>2, <2>3, <2>4 DEF TypeOK, RegistryTyped, TablesTyped
<1>. QED  BY <1>1, TypesAlways, PTL

(* A purge is for one node: the registry deletes no route but those of the *)
(* node whose purge a thread is in, however many purges run at once; the   *)
(* only other deletions are those the gateway's reconcile planned.         *)
THEOREM PurgesSpareOthers == Spec => PurgeSparesOthers
<1>. DEFINE Spared == \A r \in routes \ routes' :
          gw' = gw => \E t \in Thread : pc[t] = "purge" /\ job[t].node = r[1]
<1>1. ASSUME TypeInv, [Next]_vars  PROVE [Spared]_vars
  <2>. SUFFICES ASSUME NEW r \in routes \ routes', gw' = gw
                PROVE  \E t \in Thread : pc[t] = "purge" /\ job[t].node = r[1]
    BY DEF Spared
  <2>1. ThreadsTyped /\ gw \in Gateway
    BY <1>1 DEF TypeInv, GatewayTyped
  <2>2. ASSUME NEW t \in Thread, Purge(t)
        PROVE  \E u \in Thread : pc[u] = "purge" /\ job[u].node = r[1]
    <3>1. pc[t] = "purge" /\ r \in job[t].ids
      BY <2>2 DEF Purge
    <3>2. r \in RoutesFor(job[t].node, Role)
      BY <2>1, <3>1, HandsOf
    <3>. QED  BY <3>1, <3>2, RouteOfOne
  <2>3. ASSUME Handle  PROVE FALSE
    <3>1. PICK q \in gw.doomed : Pruned(q) /\ routes' = routes \ {q}
      <4>1. CASE \E q \in gw.doomed : Pruned(q)
        BY <4>1 DEF Pruned
      <4>2. CASE \/ GetRegisteredModels \/ GetRegisteredModelsFails \/ GetNodesFails
                 \/ UNCHANGED routes \/ CommitMirror \/ Return
        BY <4>2 DEF GetRegisteredModels, GetRegisteredModelsFails, GetNodesFails,
                    CommitMirror, Return
      <4>3. CASE \E q \in gw.todo : Posted(q)
        BY <4>3 DEF Posted
      <4>. QED  BY <2>3, <4>1, <4>2, <4>3, HandleDoes
    <3>. DEFINE g == [gw EXCEPT !.doomed = @ \ {q}]
    <3>2. gw' = Onward(g) /\ g \in Gateway /\ g.doomed = gw.doomed \ {q}
      BY <1>1, <3>1, BeforeOnward DEF Pruned
    <3>. HIDE DEF g
    <3>3. gw'.doomed = gw.doomed \ {q}
      BY <3>2, OnwardKeeps
    <3>. QED  BY <3>3
  <2>4. ASSUME NEW t \in Thread,
               \/ ListNodes(t) \/ AnswerGateway(t) \/ Listed(t) \/ Visit(t)
               \/ PostRoute(t) \/ PostRouteFails(t) \/ PutRecord(t)
               \/ Match(t) \/ MatchFails(t) \/ PurgeFails(t)
               \/ \E n \in Node, R \in Offers : BeginRegister(t, n, R)
               \/ \E n \in Node, s \in {"healthy", "down"} : Heartbeat(t, n, s)
               \/ \E n \in Node : Deregister(t, n)
        PROVE  FALSE
    BY <2>4 DEF ListNodes, AnswerGateway, Listed, Visit, PostRoute, PostRouteFails, PutRecord,
                Match, MatchFails, PurgeFails, BeginRegister, Heartbeat, Deregister
  <2>5. CASE Edit
    BY <1>1, <2>5, EditDoes DEF Edited
  <2>6. CASE UNCHANGED vars \/ RestartRegistry \/ \E n \in Node : Expire(n)
    BY <2>6 DEF vars, RestartRegistry, Expire
  <2>. QED  BY <1>1, <2>2, <2>3, <2>4, <2>5, <2>6, StepCases
<1>2. Spec => [][Spared]_vars
  BY <1>1, TypesAlways, PTL DEF Spec
<1>. QED  BY <1>2 DEF PurgeSparesOthers

-----------------------------------------------------------------------------
(* What the gateway knows while nothing but its own calls happens.         *)

StaleNow(r) == StaleRoute(r, Lives)
Wanted == WantedRoutes(Lives)

(* The only thread at work is the one that answers the gateway. *)
Alone ==
    /\ \A t \in Thread : pc[t] # "idle" => gw.pc = "await" /\ job[t].kind = "answer"
    /\ \A t, u \in Thread : pc[t] # "idle" /\ pc[u] # "idle" => t = u

(* What it found is the truth, but for what it has still to visit. *)
AnswerTrue ==
    \A t \in Thread : job[t].kind = "answer" =>
        /\ \A i \in job[t].todo : i[2] = cur[i[1]]
        /\ \A n \in Node : job[t].found[n] = IF <<n, cur[n]>> \in job[t].todo
                                             THEN NotListed ELSE Live(n)

(* No route is missing from the list that the gateway fetched. *)
SeenAll ==
    gw.kind = "reconcile" /\ gw.pc \in {"ask", "await"} => routes \subseteq gw.seen

(* What is to be deleted: all that is stale, and nothing else. *)
Pruning ==
    gw.pc = "prune" =>
        /\ \A r \in gw.doomed : StaleNow(r)
        /\ \A r \in routes : StaleNow(r) => r \in gw.doomed
        /\ gw.todo = Wanted

(* What is to be registered: all that is wanted and not there. *)
Posting ==
    gw.kind = "reconcile" /\ gw.pc \in {"post", "settled"} =>
        /\ \A r \in routes : ~StaleNow(r)
        /\ gw.todo \subseteq Wanted
        /\ Wanted \subseteq routes \cup gw.todo
        /\ gw.pc = "settled" => gw.todo = {}

(* The rows written so far are those of nodes as they are. *)
Mirrored ==
    gw.kind = "list" /\ gw.pc \in {"mirror", "post", "settled"} =>
        /\ gw.nodes = Lives
        /\ \A n \in Node \ gw.visit : rows[n] = "on" => gw.nodes[n].status \in {"healthy", "absent"}
        /\ gw.pc = "settled" => \A n \in Node : rows[n] = "on" => gw.nodes[n].status = "healthy"

Known == Alone /\ AnswerTrue /\ SeenAll /\ Pruning /\ Posting /\ Mirrored

CalmInv == calm => Known

LEMMA LivesAre == \A n \in Node : Lives[n] = Live(n)
  BY DEF Lives

LEMMA PlanFrame ==
  ASSUME UNCHANGED registry, UNCHANGED <<rows, models>>
  PROVE  Wanted' = Wanted /\ \A r : StaleNow(r)' = StaleNow(r)
<1>1. Lives' = Lives /\ Enabled' = Enabled
  BY LiveFrame DEF Enabled
<1>2. ASSUME NEW r  PROVE StaleNow(r)' = StaleNow(r)
  BY <1>1 DEF StaleNow, StaleRoute
<1>3. Wanted' = Wanted
  BY <1>1 DEF Wanted, WantedRoutes
<1>. QED  BY <1>2, <1>3

LEMMA KnownFrame ==
  ASSUME Known, UNCHANGED <<registry, routes, threads, gw>>, UNCHANGED <<rows, models>>
  PROVE  Known'
<1>1. Lives' = Lives /\ \A n \in Node : Live(n)' = Live(n)
  BY LiveFrame
<1>2. Wanted' = Wanted /\ \A r : StaleNow(r)' = StaleNow(r)
  BY PlanFrame
<1>3. Alone' /\ SeenAll'
  BY DEF Known, Alone, SeenAll, threads
<1>4. AnswerTrue'
  BY <1>1 DEF Known, AnswerTrue, threads, registry
<1>5. Pruning' /\ Posting'
  BY <1>2 DEF Known, Pruning, Posting
<1>6. Mirrored'
  BY <1>1 DEF Known, Mirrored
<1>. QED  BY <1>3, <1>4, <1>5, <1>6 DEF Known

(* What reconcile wants is not what it takes for stale. *)
LEMMA WantedNotStale ==
  ASSUME RegistryTyped, NEW r \in Wanted
  PROVE  ~StaleNow(r)
<1>1. CASE \E m \in Enabled : r = <<m, RoleOf[m]>>
  BY <1>1, Apart DEF StaleNow, StaleRoute, Enabled
<1>2. CASE \E n \in Node : Lives[n].status = "healthy" /\ r \in RoutesFor(n, Lives[n].roles)
  BY <1>2, Apart DEF StaleNow, StaleRoute, RoutesFor
<1>. QED  BY <1>1, <1>2 DEF Wanted, WantedRoutes

(* While no thread works, these say all there is to know. *)
LEMMA QuietKnown ==
  ASSUME \A t \in Thread : pc'[t] = "idle" /\ job'[t] = IdleJob,
         SeenAll', Pruning', Posting', Mirrored'
  PROVE  Known'
<1>1. Alone' /\ AnswerTrue'
  BY IdleJobTyped DEF Alone, AnswerTrue
<1>. QED  BY <1>1 DEF Known

LEMMA Quiet ==
  ASSUME TypeInv, Alone, gw.pc # "await"
  PROVE  \A t \in Thread : pc[t] = "idle" /\ job[t] = IdleJob
  BY HandsOf DEF TypeInv, Alone

(* The administrator's request. *)
LEMMA EditKnown ==
  ASSUME TypeInv, Edit, calm'
  PROVE  Known'
<1>1. PICK step \in {"seen", "ask"}, kind \in {"reconcile", "list"} :
         /\ Edited(kind, step)
         /\ step = "seen" <=> kind = "reconcile"
  BY EditDoes
<1>2. \A t \in Thread : pc[t] = "idle"
  BY <1>1 DEF Edited
<1>3. \A t \in Thread : pc'[t] = "idle" /\ job'[t] = IdleJob
  BY <1>1, <1>2, HandsOf DEF Edited, threads, TypeInv
<1>4. gw'.pc = step /\ gw'.kind = kind
  BY <1>1 DEF Edited, IdleGw
<1>5. SeenAll' /\ Pruning' /\ Posting' /\ Mirrored'
  BY <1>1, <1>4 DEF SeenAll, Pruning, Posting, Mirrored
<1>. QED  BY <1>3, <1>5, QuietKnown

LEMMA SeeKnown ==
  ASSUME TypeInv, Known, GetRegisteredModels
  PROVE  Known'
<1>1. gw.pc = "seen" /\ UNCHANGED threads /\ routes' = routes
      /\ gw'.pc = "ask" /\ gw'.seen = routes
  BY DEF GetRegisteredModels, TypeInv, GatewayTyped, Gateway
<1>2. \A t \in Thread : pc'[t] = "idle" /\ job'[t] = IdleJob
  BY <1>1, Quiet DEF Known, threads
<1>3. SeenAll' /\ Pruning' /\ Posting' /\ Mirrored'
  BY <1>1 DEF SeenAll, Pruning, Posting, Mirrored
<1>. QED  BY <1>2, <1>3, QuietKnown

(* The registry begins its answer: it has everything still to visit. *)
LEMMA AnswerKnown ==
  ASSUME TypeInv, Known, NEW t \in Thread, AnswerGateway(t)
  PROVE  Known'
<1>1. /\ GoWith(t, "visit", Snapshot("answer")) /\ gw.pc = "ask" /\ gw' = [gw EXCEPT !.pc = "await"]
      /\ UNCHANGED <<registry, routes>>
  BY DEF AnswerGateway
<1>2. OthersStay(t) /\ pc'[t] = "visit" /\ job'[t] = Snapshot("answer")
  BY <1>1, Gone DEF TypeInv
<1>3. /\ job'[t].kind = "answer" /\ job'[t].found = NoNodes
      /\ job'[t].todo = {<<n, cur[n]>> : n \in {n \in Node : cur[n] # 0}}
  BY <1>2, SnapshotTyped
<1>4. \A u \in Thread : pc[u] = "idle" /\ job[u] = IdleJob
  BY <1>1, Quiet DEF Known
<1>5. gw'.pc = "await" /\ gw'.kind = gw.kind /\ gw'.seen = gw.seen
  BY <1>1 DEF TypeInv, GatewayTyped, Gateway
<1>6. Alone'
  BY <1>2, <1>3, <1>4, <1>5 DEF Alone, OthersStay
<1>7. AnswerTrue'
  <2>1. \A n \in Node : cur[n] = 0 => Live(n) = NotListed
    BY LiveTyped DEF TypeInv
  <2>2. \A n \in Node : Live(n)' = Live(n)
    BY <1>1, LiveFrame
  <2>3. \A n \in Node : <<n, cur[n]>> \in job'[t].todo <=> cur[n] # 0
    BY <1>3
  <2>4. \A n \in Node : job'[t].found[n] = NotListed
    BY <1>3 DEF NoNodes
  <2>5. \A n \in Node : job'[t].found[n] = IF <<n, cur[n]>> \in job'[t].todo
                                           THEN NotListed ELSE Live(n)
    BY <2>1, <2>3, <2>4
  <2>6. \A i \in job'[t].todo : i[2] = cur[i[1]]
    BY <1>3
  <2>7. \A u \in Thread : u # t => job'[u].kind = "none"
    BY <1>2, <1>4, IdleJobTyped DEF OthersStay
  <2>8. cur' = cur
    BY <1>1 DEF registry
  <2>9. ASSUME NEW u \in Thread, job'[u].kind = "answer"  PROVE u = t
    BY <2>7, <2>9
  <2>. QED  BY <2>2, <2>5, <2>6, <2>8, <2>9 DEF AnswerTrue
<1>8. SeenAll' /\ Pruning' /\ Posting' /\ Mirrored'
  BY <1>1, <1>5 DEF Known, SeenAll, Pruning, Posting, Mirrored
<1>. QED  BY <1>6, <1>7, <1>8 DEF Known

(* One more record is visited: what is found of the node is what it is. *)
LEMMA VisitKnown ==
  ASSUME TypeInv, Known, NEW t \in Thread, Visit(t), job[t].kind = "answer"
  PROVE  Known'
<1>1. PICK i, s : Visited(t, i, s)
  BY VisitDoes
<1>. DEFINE n == i[1]
            g == i[2]
<1>2. /\ i \in job[t].todo /\ n \in Node /\ g \in Nat \ {0} /\ pc[t] = "visit" /\ OthersStay(t)
      /\ Marked(n, g, s) /\ job'[t].kind = "answer" /\ job'[t].todo = job[t].todo \ {i}
      /\ job'[t].found = [job[t].found EXCEPT ![n] = [status |-> s, roles |-> obj[n][g].roles]]
      /\ i = <<n, g>>
  BY <1>1 DEF Visited, Item
<1>3. gw.pc = "await" /\ \A u \in Thread : u # t => pc[u] = "idle"
  BY <1>2 DEF Known, Alone
<1>4. UNCHANGED <<cur, routes, tables, gw>>
  BY DEF Visit
<1>5. Alone'
  BY <1>2, <1>3, <1>4 DEF Alone, OthersStay
<1>6. g = cur[n] /\ \A j \in job[t].todo : j[2] = cur[j[1]]
  BY <1>2 DEF Known, AnswerTrue
<1>7. RegistryTyped /\ job[t].found \in [Node -> Listing]
  <2>1. job[t] \in Job
    BY HandsOf DEF TypeInv
  <2>. QED  BY <2>1 DEF Job, TypeInv
<1>. HIDE DEF n, g
<1>8. \A m \in Node : Live(m)' = IF m = n THEN [status |-> s, roles |-> Live(n).roles] ELSE Live(m)
  BY <1>2, <1>6, <1>7, MarkedLive
<1>9. Live(n).roles = obj[n][g].roles
  BY <1>2, <1>6, <1>7, LiveTyped
<1>10. ASSUME NEW m \in Node
       PROVE  job'[t].found[m] = IF <<m, cur[m]>> \in job'[t].todo THEN NotListed ELSE Live(m)'
  <2>1. CASE m = n
    BY <1>2, <1>6, <1>7, <1>8, <1>9, <2>1
  <2>2. CASE m # n
    <3>1. job'[t].found[m] = job[t].found[m] /\ Live(m)' = Live(m)
      BY <1>2, <1>7, <1>8, <2>2
    <3>2. <<m, cur[m]>> \in job'[t].todo <=> <<m, cur[m]>> \in job[t].todo
      BY <1>2, <2>2
    <3>3. job[t].found[m] = IF <<m, cur[m]>> \in job[t].todo THEN NotListed ELSE Live(m)
      BY DEF Known, AnswerTrue
    <3>. QED  BY <3>1, <3>2, <3>3
  <2>. QED  BY <2>1, <2>2
<1>11. AnswerTrue'
  <2>1. ASSUME NEW u \in Thread, job'[u].kind = "answer"  PROVE u = t
    <3>1. u # t => job[u] = IdleJob /\ job'[u] = job[u]
      BY <1>2, <1>3, HandsOf DEF OthersStay, TypeInv
    <3>. QED  BY <2>1, <3>1, IdleJobTyped
  <2>2. \A j \in job'[t].todo : j[2] = cur[j[1]]
    BY <1>2, <1>6
  <2>. QED  BY <1>4, <1>10, <2>1, <2>2 DEF AnswerTrue
<1>12. SeenAll' /\ Pruning' /\ Posting' /\ Mirrored'
  BY <1>3, <1>4 DEF Known, SeenAll, Pruning, Posting, Mirrored
<1>. QED  BY <1>5, <1>11, <1>12 DEF Known

(* A silent node's routes are hunted before the next record is visited. *)
LEMMA HuntKnown ==
  ASSUME TypeInv, Known, NEW t \in Thread, job[t].kind = "answer",
         Match(t) \/ MatchFails(t) \/ Purge(t) \/ PurgeFails(t)
  PROVE  Known'
<1>1. PICK ids \in SUBSET RoutesFor(job[t].node, Role) :
            /\ pc[t] \in {"match", "purge"} /\ After(t, ids)
            /\ routes' \subseteq routes /\ UNCHANGED <<registry, tables, gw>>
  BY HuntDoes
<1>2. OthersStay(t) /\ job'[t].kind = "answer" /\ job'[t].todo = job[t].todo
      /\ job'[t].found = job[t].found
  BY <1>1, AfterDoes DEF TypeInv
<1>3. gw.pc = "await" /\ \A u \in Thread : u # t => pc[u] = "idle"
  BY <1>1 DEF Known, Alone
<1>4. Alone'
  BY <1>1, <1>2, <1>3 DEF Alone, OthersStay
<1>5. AnswerTrue'
  <2>1. ASSUME NEW u \in Thread, job'[u].kind = "answer"  PROVE u = t
    <3>1. u # t => job[u] = IdleJob /\ job'[u] = job[u]
      BY <1>2, <1>3, HandsOf DEF OthersStay, TypeInv
    <3>. QED  BY <2>1, <3>1, IdleJobTyped
  <2>2. cur' = cur /\ \A n \in Node : Live(n)' = Live(n)
    BY <1>1, LiveFrame DEF registry
  <2>. QED  BY <1>2, <2>1, <2>2 DEF Known, AnswerTrue
<1>6. SeenAll' /\ Pruning' /\ Posting' /\ Mirrored'
  BY <1>1, <1>3 DEF Known, SeenAll, Pruning, Posting, Mirrored
<1>. QED  BY <1>4, <1>5, <1>6 DEF Known

(* The answer arrives: the gateway's plan follows from what is true. *)
LEMMA ListedKnown ==
  ASSUME TypeInv, Known, NEW t \in Thread, Listed(t), job[t].kind = "answer"
  PROVE  Known'
<1>1. /\ GoWith(t, "idle", job[t]) /\ pc[t] = "visit" /\ job[t].todo = {}
      /\ UNCHANGED <<registry, routes, tables>>
      /\ gw' = IF gw.pc = "await" THEN Planned(job[t].found) ELSE gw
  BY DEF Listed, Goto
<1>2. OthersStay(t) /\ pc'[t] = "idle" /\ job'[t] = IdleJob
  BY <1>1, Gone DEF TypeInv
<1>3. gw.pc = "await" /\ \A u \in Thread : u # t => pc[u] = "idle"
  BY <1>1 DEF Known, Alone
<1>4. \A u \in Thread : pc'[u] = "idle" /\ job'[u] = IdleJob
  <2>1. \A u \in Thread : u # t => job[u] = IdleJob
    BY <1>3, HandsOf DEF TypeInv
  <2>. QED  BY <1>2, <1>3, <2>1 DEF OthersStay
<1>5. job[t].found = Lives
  <2>1. \A n \in Node : job[t].found[n] = Live(n)
    BY <1>1 DEF Known, AnswerTrue
  <2>2. job[t].found \in [Node -> Listing]
    <3>1. job[t] \in Job
      BY HandsOf DEF TypeInv
    <3>. QED  BY <3>1 DEF Job
  <2>. QED  BY <2>1, <2>2 DEF Lives
<1>6. gw' = Planned(Lives) /\ Lives \in [Node -> Listing] /\ GatewayTyped /\ RegistryTyped
  BY <1>1, <1>3, <1>5, LivesTyped DEF TypeInv
<1>7. /\ Wanted' = Wanted /\ \A r : StaleNow(r)' = StaleNow(r)
      /\ Lives' = Lives /\ rows' = rows /\ routes' = routes
  BY <1>1, PlanFrame, LiveFrame DEF tables
<1>8. /\ gw'.kind = gw.kind /\ gw.kind \in {"list", "reconcile"}
      /\ gw.kind = "list" =>
            gw'.pc = "mirror" /\ gw'.nodes = Lives /\ gw'.visit = {n \in Node : Lives[n] # NotListed}
      /\ gw.kind = "reconcile" =>
            /\ gw'.pc \in {"prune", "post", "settled"}
            /\ gw'.doomed = {r \in gw.seen : StaleNow(r)}
            /\ gw'.todo = Wanted
            /\ gw'.pc # "prune" => gw'.doomed = {}
            /\ gw'.pc = "settled" => gw'.todo = {}
  <2>1. gw.kind \in {"none", "list", "reconcile"}
    BY <1>6 DEF GatewayTyped, Gateway
  <2>. QED  BY <1>3, <1>6, <2>1, PlannedTyped DEF StaleNow, Wanted
<1>9. SeenAll' /\ Pruning' /\ Posting'
  <2>1. CASE gw.kind = "list"
    BY <1>8, <2>1 DEF SeenAll, Pruning, Posting
  <2>2. CASE gw.kind = "reconcile"
    <3>1. routes \subseteq gw.seen
      BY <1>3, <2>2 DEF Known, SeenAll
    <3>2. SeenAll'
      BY <1>8, <2>2 DEF SeenAll
    <3>3. Pruning'
      BY <1>7, <1>8, <2>2, <3>1 DEF Pruning
    <3>4. Posting'
      BY <1>7, <1>8, <2>2, <3>1 DEF Posting
    <3>. QED  BY <3>2, <3>3, <3>4
  <2>. QED  BY <1>8, <2>1, <2>2
<1>10. Mirrored'
  <2>1. NotListed.status = "absent"
    BY DEF NotListed
  <2>. QED  BY <1>7, <1>8, <2>1 DEF Mirrored
<1>. QED  BY <1>4, <1>9, <1>10, QuietKnown

LEMMA PrunedKnown ==
  ASSUME TypeInv, Known, NEW r \in gw.doomed, Pruned(r), routes' = routes \ {r},
         UNCHANGED <<registry, threads, models>>
  PROVE  Known'
<1>. DEFINE g == [gw EXCEPT !.doomed = @ \ {r}]
<1>1. gw.pc = "prune" /\ gw' = Onward(g) /\ UNCHANGED tables
  BY DEF Pruned
<1>2. /\ g \in Gateway /\ g.pc = "prune" /\ g.kind = "reconcile" /\ g.doomed = gw.doomed \ {r}
      /\ g.todo = gw.todo
  BY <1>1, BeforeOnward
<1>. HIDE DEF g
<1>3. /\ gw'.kind = "reconcile" /\ gw'.doomed = gw.doomed \ {r} /\ gw'.todo = gw.todo
      /\ gw'.pc \in {"prune", "post", "settled"}
      /\ gw'.pc # "prune" => gw'.doomed = {}
      /\ gw'.pc = "settled" => gw'.todo = {}
  BY <1>1, <1>2, OnwardTyped, OnwardKeeps
<1>4. \A t \in Thread : pc'[t] = "idle" /\ job'[t] = IdleJob
  BY <1>1, Quiet DEF Known, threads
<1>5. Wanted' = Wanted /\ \A q : StaleNow(q)' = StaleNow(q)
  BY <1>1, PlanFrame DEF tables
<1>6. /\ \A q \in gw.doomed : StaleNow(q)
      /\ \A q \in routes : StaleNow(q) => q \in gw.doomed
      /\ gw.todo = Wanted
  BY <1>1 DEF Known, Pruning
<1>7. SeenAll' /\ Mirrored'
  BY <1>3 DEF SeenAll, Mirrored
<1>8. Pruning'
  BY <1>3, <1>5, <1>6 DEF Pruning
<1>9. Posting'
  BY <1>3, <1>5, <1>6 DEF Posting
<1>. QED  BY <1>4, <1>7, <1>8, <1>9, QuietKnown

LEMMA PostedKnown ==
  ASSUME TypeInv, Known, NEW r \in gw.todo, Posted(r), routes' = routes \cup {r},
         UNCHANGED <<registry, threads, models>>
  PROVE  Known'
<1>. DEFINE g == [gw EXCEPT !.todo = @ \ {r}]
<1>1. gw.pc = "post" /\ gw' = Onward(g) /\ UNCHANGED tables
  BY DEF Posted
<1>2. /\ g \in Gateway /\ g.pc = "post" /\ g.kind = gw.kind /\ g.kind # "none"
      /\ g.todo = gw.todo \ {r} /\ g.nodes = gw.nodes /\ g.visit = gw.visit
  BY <1>1, BeforeOnward
<1>. HIDE DEF g
<1>3. /\ gw'.kind = gw.kind /\ gw'.todo = gw.todo \ {r} /\ gw'.nodes = gw.nodes
      /\ gw'.visit = gw.visit /\ gw'.pc \in {"post", "mirror", "settled"}
      /\ gw'.pc = "settled" => gw'.todo = {} /\ gw.kind = "reconcile"
  BY <1>1, <1>2, OnwardTyped, OnwardKeeps
<1>4. \A t \in Thread : pc'[t] = "idle" /\ job'[t] = IdleJob
  BY <1>1, Quiet DEF Known, threads
<1>5. /\ Wanted' = Wanted /\ \A q : StaleNow(q)' = StaleNow(q)
      /\ Lives' = Lives /\ rows' = rows
  BY <1>1, PlanFrame, LiveFrame DEF tables
<1>6. SeenAll' /\ Pruning'
  BY <1>3 DEF SeenAll, Pruning
<1>7. Posting'
  <2>1. CASE gw.kind # "reconcile"
    BY <1>3, <2>1 DEF Posting
  <2>2. CASE gw.kind = "reconcile"
    <3>1. /\ \A q \in routes : ~StaleNow(q)
          /\ gw.todo \subseteq Wanted
          /\ Wanted \subseteq routes \cup gw.todo
      BY <1>1, <2>2 DEF Known, Posting
    <3>2. ~StaleNow(r)
      BY <3>1, WantedNotStale DEF TypeInv
    <3>3. \A q \in routes' : ~StaleNow(q)
      BY <3>1, <3>2
    <3>4. gw'.todo \subseteq Wanted /\ Wanted \subseteq routes' \cup gw'.todo
      BY <1>3, <3>1
    <3>. QED  BY <1>3, <1>5, <3>3, <3>4 DEF Posting
  <2>. QED  BY <2>1, <2>2
<1>8. Mirrored'
  BY <1>1, <1>3, <1>5 DEF Known, Mirrored
<1>. QED  BY <1>4, <1>6, <1>7, <1>8, QuietKnown

LEMMA MirrorKnown ==
  ASSUME TypeInv, Known, gw.pc = "mirror", NEW n \in gw.visit, gw' = Onward(AfterRow(n)),
         rows' = [rows EXCEPT ![n] = RowFor(n)], UNCHANGED <<registry, threads>>
  PROVE  Known'
<1>1. /\ n \in Node /\ AfterRow(n) \in Gateway /\ AfterRow(n).pc = "post"
      /\ AfterRow(n).kind = "list" /\ AfterRow(n).nodes = gw.nodes
      /\ AfterRow(n).visit = gw.visit \ {n}
  BY BeforeOnward
<1>2. /\ gw'.kind = "list" /\ gw'.nodes = gw.nodes /\ gw'.visit = gw.visit \ {n}
      /\ gw'.pc \in {"post", "mirror"}
  BY <1>1, OnwardTyped, OnwardKeeps
<1>3. \A t \in Thread : pc'[t] = "idle" /\ job'[t] = IdleJob
  BY Quiet DEF Known, threads
<1>4. SeenAll' /\ Pruning' /\ Posting'
  BY <1>2 DEF SeenAll, Pruning, Posting
<1>5. Mirrored'
  <2>1. gw.kind = "list" /\ rows \in [Node -> {"none", "on", "off"}]
    BY DEF TypeInv, GatewayTyped, TablesTyped
  <2>2. /\ gw.nodes = Lives
        /\ \A m \in Node \ gw.visit :
              rows[m] = "on" => gw.nodes[m].status \in {"healthy", "absent"}
    BY <2>1 DEF Known, Mirrored
  <2>3. rows'[n] = "on" => gw.nodes[n].status = "healthy"
    BY <1>1, <2>1 DEF RowFor
  <2>4. \A m \in Node : m # n => rows'[m] = rows[m]
    BY <2>1
  <2>5. Lives' = Lives
    BY LiveFrame
  <2>6. \A m \in Node \ (gw.visit \ {n}) :
           rows'[m] = "on" => gw.nodes[m].status \in {"healthy", "absent"}
    BY <2>2, <2>3, <2>4
  <2>. QED  BY <1>2, <2>2, <2>5, <2>6 DEF Mirrored
<1>. QED  BY <1>3, <1>4, <1>5, QuietKnown

LEMMA CommitKnown ==
  ASSUME TypeInv, Known, CommitMirror
  PROVE  Known'
<1>1. /\ gw.pc = "mirror" /\ gw.visit = {} /\ UNCHANGED <<registry, threads, models>>
      /\ rows' = [n \in Node |-> IF rows[n] = "on" /\ gw.nodes[n] = NotListed
                                 THEN "off" ELSE rows[n]]
      /\ gw' = [gw EXCEPT !.pc = "settled"]
  BY DEF CommitMirror
<1>2. gw'.pc = "settled" /\ gw'.kind = "list" /\ gw.kind = "list"
      /\ gw'.nodes = gw.nodes /\ gw'.visit = gw.visit
  BY <1>1 DEF TypeInv, GatewayTyped, Gateway
<1>3. \A t \in Thread : pc'[t] = "idle" /\ job'[t] = IdleJob
  BY <1>1, Quiet DEF Known, threads
<1>4. SeenAll' /\ Pruning' /\ Posting'
  BY <1>2 DEF SeenAll, Pruning, Posting
<1>5. Mirrored'
  <2>1. /\ gw.nodes = Lives
        /\ \A n \in Node : rows[n] = "on" => gw.nodes[n].status \in {"healthy", "absent"}
    BY <1>1, <1>2 DEF Known, Mirrored
  <2>2. Lives' = Lives
    BY <1>1, LiveFrame
  <2>3. ASSUME NEW n \in Node, rows'[n] = "on"  PROVE gw.nodes[n].status = "healthy"
    <3>1. rows[n] = "on" /\ gw.nodes[n] # NotListed
      BY <1>1, <2>3
    <3>2. gw.nodes[n] = Live(n)
      BY <2>1, LivesAre
    <3>3. gw.nodes[n].status # "absent"
      BY <3>1, <3>2, LiveTyped DEF TypeInv
    <3>. QED  BY <2>1, <3>1, <3>3
  <2>. QED  BY <1>2, <2>1, <2>2, <2>3 DEF Mirrored
<1>. QED  BY <1>3, <1>4, <1>5, QuietKnown

LEMMA NextCalm == TypeInv /\ CalmInv /\ [Next]_vars => CalmInv'
<1>. SUFFICES ASSUME TypeInv, CalmInv, [Next]_vars, calm'  PROVE Known'
  BY DEF CalmInv
<1>1. ASSUME calm  PROVE Known
  BY <1>1 DEF CalmInv
<1>2. CASE UNCHANGED vars
  BY <1>1, <1>2, KnownFrame DEF vars, registry, threads
<1>3. ASSUME NEW t \in Thread,
             \/ ListNodes(t)
             \/ \E n \in Node, R \in Offers : BeginRegister(t, n, R)
             \/ \E n \in Node, s \in {"healthy", "down"} : Heartbeat(t, n, s)
             \/ \E n \in Node : Deregister(t, n)
      PROVE  FALSE
  BY <1>3 DEF ListNodes, BeginRegister, Heartbeat, Deregister, Request
<1>4. CASE RestartRegistry \/ \E n \in Node : Expire(n)
  BY <1>4 DEF RestartRegistry, Expire
<1>5. ASSUME NEW t \in Thread, PostRoute(t) \/ PostRouteFails(t) \/ PutRecord(t)
      PROVE  FALSE
  <2>1. pc[t] = "post" /\ job[t].kind = "answer"
    BY <1>5 DEF PostRoute, PostRouteFails, PutRecord, Disturb
  <2>. QED  BY <2>1, HandsOf DEF TypeInv
<1>6. ASSUME NEW t \in Thread, AnswerGateway(t)  PROVE Known'
  <2>1. calm
    BY <1>6 DEF AnswerGateway
  <2>. QED  BY <1>1, <1>6, <2>1, AnswerKnown
<1>7. ASSUME NEW t \in Thread, Visit(t) \/ Listed(t)  PROVE Known'
  <2>1. calm /\ job[t].kind = "answer"
    BY <1>7 DEF Visit, Listed, Disturb
  <2>. QED  BY <1>1, <1>7, <2>1, VisitKnown, ListedKnown
<1>8. ASSUME NEW t \in Thread, Match(t) \/ MatchFails(t) \/ Purge(t) \/ PurgeFails(t)
      PROVE  Known'
  <2>1. calm /\ job[t].kind = "answer"
    BY <1>8 DEF Match, MatchFails, Purge, PurgeFails, Disturb
  <2>. QED  BY <1>1, <1>8, <2>1, HuntKnown
<1>9. CASE Edit
  BY <1>9, EditKnown
<1>10. CASE Handle
  <2>1. UNCHANGED <<registry, threads, models>>
    BY <1>10, HandleDoes
  <2>2. CASE GetRegisteredModels
    BY <1>1, <2>2, SeeKnown DEF GetRegisteredModels
  <2>3. CASE GetRegisteredModelsFails \/ GetNodesFails \/ Return
    BY <2>3 DEF GetRegisteredModelsFails, GetNodesFails, Return
  <2>4. ASSUME NEW r \in gw.doomed, Pruned(r)  PROVE Known'
    BY <1>1, <2>1, <2>4, PrunedKnown DEF Pruned
  <2>5. ASSUME NEW r \in gw.todo, Posted(r)  PROVE Known'
    BY <1>1, <2>1, <2>5, PostedKnown DEF Posted
  <2>6. ASSUME gw.pc = "mirror", UNCHANGED <<routes, calm, tainted>>,
               NEW n \in gw.visit, gw' = Onward(AfterRow(n)),
               rows' = [rows EXCEPT ![n] = RowFor(n)]
        PROVE  Known'
    BY <1>1, <2>1, <2>6, MirrorKnown
  <2>7. CASE CommitMirror
    BY <1>1, <2>7, CommitKnown DEF CommitMirror
  <2>. QED  BY <1>10, <2>2, <2>3, <2>4, <2>5, <2>6, <2>7, HandleDoes
<1>. QED
  BY <1>2, <1>3, <1>4, <1>5, <1>6, <1>7, <1>8, <1>9, <1>10, StepCases

LEMMA InitCalm == Init => CalmInv
  BY DEF Init, CalmInv

LEMMA CalmAlways == Spec => [](TypeInv /\ CalmInv)
<1>1. Init => TypeInv /\ CalmInv
  BY InitTypes, InitCalm
<1>2. TypeInv /\ CalmInv /\ [Next]_vars => (TypeInv /\ CalmInv)'
  BY NextTypes, NextCalm
<1>. QED  BY <1>1, <1>2, PTL DEF Spec

-----------------------------------------------------------------------------

LEMMA Converged == TypeInv /\ CalmInv => ReconcileConverges
<1>. SUFFICES ASSUME TypeInv, CalmInv, gw.pc = "settled", gw.kind = "reconcile", calm
              PROVE  /\ \A n \in Node :
                          IF Live(n).status # "healthy" THEN RoutesOf(n) = {}
                          ELSE /\ RoutesOf(n) \subseteq RoutesFor(n, Live(n).roles)
                               /\ rows[n] = "off" \/ RoutesOf(n) = RoutesFor(n, Live(n).roles)
                     /\ \A m \in Model :
                           RoutesOf(m) = IF m \in Enabled THEN {<<m, RoleOf[m]>>} ELSE {}
                     /\ Enabled # {} => RoutesOf(Static) = {}
  BY DEF ReconcileConverges
<1>1. (\A r \in routes : ~StaleNow(r)) /\ Wanted \subseteq routes /\ routes \subseteq Route
  BY DEF CalmInv, Known, Posting, TypeInv, TablesTyped
<1>2. \A o : \A r \in RoutesOf(o) : r \in Route /\ r[1] = o /\ ~StaleNow(r)
  BY <1>1 DEF RoutesOf
<1>3. ASSUME NEW n \in Node, NEW r \in RoutesOf(n)
      PROVE  Live(n).status = "healthy" /\ r \in RoutesFor(n, Live(n).roles)
  <2>1. r \in Route /\ r[1] = n /\ Lives[n] = Live(n)
    BY <1>2, LivesAre
  <2>2. Live(n).status = "healthy" /\ r[2] \in Live(n).roles
    BY <1>2, <2>1 DEF StaleNow, StaleRoute
  <2>. QED  BY <2>1, <2>2, Pairs, RouteOfOne
<1>4. ASSUME NEW n \in Node, Live(n).status = "healthy", rows[n] # "off"
      PROVE  RoutesFor(n, Live(n).roles) \subseteq RoutesOf(n)
  <2>1. Lives[n] = Live(n)
    BY LivesAre
  <2>2. RoutesFor(n, Live(n).roles) \subseteq Wanted
    BY <1>4, <2>1 DEF Wanted, WantedRoutes
  <2>. QED  BY <1>1, <2>2, RouteOfOne DEF RoutesOf
<1>5. ASSUME NEW m \in Model
      PROVE  RoutesOf(m) = IF m \in Enabled THEN {<<m, RoleOf[m]>>} ELSE {}
  <2>1. ASSUME NEW r \in RoutesOf(m)  PROVE m \in Enabled /\ r = <<m, RoleOf[m]>>
    <3>1. r \in Route /\ r[1] = m /\ ~StaleNow(r)
      BY <1>2
    <3>2. m \in Enabled /\ r[2] = RoleOf[m]
      BY <3>1 DEF StaleNow, StaleRoute
    <3>. QED  BY <3>1, <3>2, Pairs
  <2>2. ASSUME m \in Enabled  PROVE <<m, RoleOf[m]>> \in RoutesOf(m)
    <3>1. <<m, RoleOf[m]>> \in Wanted
      BY <2>2 DEF Wanted, WantedRoutes
    <3>. QED  BY <1>1, <3>1 DEF RoutesOf
  <2>. QED  BY <2>1, <2>2
<1>6. ASSUME Enabled # {}, NEW r \in RoutesOf(Static)  PROVE FALSE
  BY <1>2, <1>6 DEF StaleNow, StaleRoute
<1>. QED  BY <1>3, <1>4, <1>5, <1>6

(* Whatever went wrong before, a reconcile beside which nothing happened    *)
(* and no call failed leaves the proxy with the routes of the healthy nodes *)
(* that are not disabled and of the enabled models, and no route of a node  *)
(* that is not healthy.                                                    *)
THEOREM ReconcileHeals == Spec => []ReconcileConverges
  BY Converged, CalmAlways, PTL

(* After a list beside which nothing happened, a node's row is enabled only *)
(* if the node is healthy.                                                 *)
THEOREM RowsTrue == Spec => []RowsFollow
<1>1. ASSUME TypeInv, CalmInv  PROVE RowsFollow
  <2>. SUFFICES ASSUME gw.pc = "settled", gw.kind = "list", calm,
                       NEW n \in Node, rows[n] = "on"
                PROVE  Live(n).status = "healthy"
    BY DEF RowsFollow
  <2>1. gw.nodes = Lives /\ gw.nodes[n].status = "healthy"
    BY <1>1 DEF CalmInv, Known, Mirrored
  <2>. QED  BY <2>1, LivesAre
<1>. QED  BY <1>1, CalmAlways, PTL

-----------------------------------------------------------------------------
(* Routes of nodes that are gone.                                          *)

GoneStatus == {"absent", "down", "offline"}

(* A thread will look for the route, or has found it; or it registers the  *)
(* node anew.                                                              *)
InHand(t, r) ==
    job[t].node = r[1] /\ (pc[t] \in {"post", "match"} \/ r \in job[t].ids)

Chased ==
    \A n \in Node \ tainted : Live(n).status \in GoneStatus =>
        \A r \in RoutesOf(n) : \E t \in Thread : InHand(t, r)

LEMMA InitChased == Init => Chased
<1>. SUFFICES ASSUME Init, NEW n \in Node, Live(n).status \in GoneStatus, NEW r \in RoutesOf(n)
              PROVE  FALSE
  BY DEF Chased
<1>1. PICK up \in SUBSET Node :
          /\ obj = [m \in Node |-> IF m \in up THEN <<Registered>> ELSE <<>>]
          /\ cur = [m \in Node |-> IF m \in up THEN 1 ELSE 0]
          /\ routes = (up \X Role) \cup
                IF Enabled # {} THEN {<<m, RoleOf[m]>> : m \in Enabled}
                                ELSE {<<Static, CHOOSE q \in Role : TRUE>>}
  BY DEF Init
<1>2. r \in routes /\ r[1] = n /\ n \notin Model /\ n # Static
  BY Apart DEF RoutesOf
<1>3. n \in up
  BY <1>1, <1>2 DEF Enabled
<1>4. cur[n] = 1 /\ obj[n] = <<Registered>>
  BY <1>1, <1>3
<1>5. Live(n).status = "healthy"
  BY <1>4 DEF Live, Registered
<1>. QED  BY <1>5 DEF GoneStatus

(* A thread that lets go of nothing of the node leaves the others at it. *)
LEMMA StillInHand ==
  ASSUME Chased, NEW n \in Node \ tainted, Live(n).status \in GoneStatus,
         NEW r \in RoutesOf(n), NEW t \in Thread, OthersStay(t),
         InHand(t, r) => InHand(t, r)'
  PROVE  \E u \in Thread : InHand(u, r)'
<1>1. PICK u \in Thread : InHand(u, r)
  BY DEF Chased
<1>2. CASE u = t
  BY <1>1, <1>2
<1>3. CASE u # t
  BY <1>1, <1>3 DEF OthersStay, InHand
<1>. QED  BY <1>2, <1>3

LEMMA ChasedFrame ==
  ASSUME Chased, UNCHANGED threads, routes' \subseteq routes, tainted \subseteq tainted',
         \A n \in Node : Live(n)'.status = Live(n).status
  PROVE  Chased'
<1>. SUFFICES ASSUME NEW n \in Node \ tainted', Live(n)'.status \in GoneStatus,
                     NEW r \in RoutesOf(n)'
              PROVE  \E t \in Thread : InHand(t, r)'
  BY DEF Chased
<1>1. n \in Node \ tainted /\ Live(n).status \in GoneStatus /\ r \in RoutesOf(n)
  BY DEF RoutesOf
<1>2. PICK t \in Thread : InHand(t, r)
  BY <1>1 DEF Chased
<1>. QED  BY <1>2 DEF InHand, threads

(* The registry's threads. *)
LEMMA ThreadChased ==
  ASSUME TypeInv, Chased, NEW t \in Thread,
         \/ ListNodes(t) \/ AnswerGateway(t) \/ Visit(t) \/ Listed(t)
         \/ PostRoute(t) \/ PostRouteFails(t) \/ PutRecord(t)
         \/ Match(t) \/ MatchFails(t) \/ Purge(t) \/ PurgeFails(t)
         \/ \E n \in Node, R \in Offers : BeginRegister(t, n, R)
         \/ \E n \in Node, s \in {"healthy", "down"} : Heartbeat(t, n, s)
         \/ \E n \in Node : Deregister(t, n),
         NEW n \in Node \ tainted', Live(n)'.status \in GoneStatus, NEW r \in RoutesOf(n)'
  PROVE  \E u \in Thread : InHand(u, r)'
<1>1. ThreadsTyped /\ RegistryTyped /\ r \in routes' /\ r[1] = n /\ n # Static
  BY Apart DEF TypeInv, RoutesOf
<1>2. pc[t] \in {"idle", "visit"} => ~InHand(t, r)
  BY <1>1, HandsOf DEF InHand
<1>3. ASSUME pc[t] \in {"idle", "visit"}, OthersStay(t), routes' = routes, tainted \subseteq tainted',
             Live(n).status \in GoneStatus
      PROVE  \E u \in Thread : InHand(u, r)'
  BY <1>1, <1>2, <1>3, StillInHand DEF RoutesOf
<1>4. CASE ListNodes(t) \/ AnswerGateway(t) \/ Listed(t)
           \/ \E m \in Node, R \in Offers : BeginRegister(t, m, R)
  <2>1. /\ \E step, j : GoWith(t, step, j)
        /\ UNCHANGED registry /\ UNCHANGED <<routes, tainted>>
        /\ pc[t] \in {"idle", "visit"}
    BY <1>4 DEF ListNodes, AnswerGateway, Listed, BeginRegister, Request, Goto
  <2>2. OthersStay(t) /\ Live(n)' = Live(n)
    BY <1>1, <2>1, Gone, LiveFrame
  <2>. QED  BY <1>3, <2>1, <2>2
<1>5. CASE Visit(t)
  <2>1. PICK i, s : Visited(t, i, s)
    BY <1>5, VisitDoes
  <2>2. /\ pc[t] = "visit" /\ OthersStay(t) /\ routes' = routes /\ tainted' = tainted
        /\ i[1] \in Node /\ i[2] \in Nat \ {0} /\ Marked(i[1], i[2], s)
    BY <1>5, <2>1 DEF Visit, Visited, Item
  <2>3. Live(n)' = IF n = i[1] /\ cur[i[1]] = i[2]
                   THEN [status |-> s, roles |-> Live(i[1]).roles] ELSE Live(n)
    BY <1>1, <2>2, MarkedLive
  <2>4. CASE pc'[t] = "match" /\ job'[t].node = i[1] /\ n = i[1]
    BY <1>1, <2>4 DEF InHand
  <2>5. CASE n # i[1] \/ s = obj[i[1]][i[2]].status
    <3>1. Live(n).status \in GoneStatus
      <4>1. CASE n = i[1] /\ cur[n] = i[2]
        BY <1>1, <2>2, <2>3, <2>5, <4>1, LiveTyped
      <4>2. CASE ~(n = i[1] /\ cur[n] = i[2])
        BY <2>3, <4>2
      <4>. QED  BY <4>1, <4>2
    <3>. QED  BY <1>3, <2>2, <3>1
  <2>. QED  BY <2>1, <2>4, <2>5 DEF Visited
<1>6. CASE PostRoute(t) \/ PostRouteFails(t)
  <2>1. /\ \E j : GoWith(t, "post", j) /\ j.node = job[t].node
        /\ UNCHANGED registry /\ tainted' = tainted /\ pc[t] = "post"
        /\ r \in routes \/ r[1] = job[t].node
    <3>1. job[t] \in Job
      BY <1>1, HandsOf
    <3>2. \A x, b : /\ [job[t] EXCEPT !.todo = x].node = job[t].node
                    /\ [job[t] EXCEPT !.todo = x, !.ok = b].node = job[t].node
      BY <3>1 DEF Job
    <3>3. CASE PostRoute(t)
      <4>1. PICK q \in job[t].todo :
               /\ routes' = routes \cup {<<job[t].node, q>>}
               /\ GoWith(t, "post", [job[t] EXCEPT !.todo = @ \ {q}])
        BY <3>3 DEF PostRoute
      <4>2. r \in routes \/ r[1] = job[t].node
        BY <1>1, <4>1
      <4>. QED  BY <3>2, <3>3, <4>1, <4>2 DEF PostRoute
    <3>4. CASE PostRouteFails(t)
      <4>1. PICK q \in job[t].todo :
               GoWith(t, "post", [job[t] EXCEPT !.todo = @ \ {q}, !.ok = FALSE])
        BY <3>4 DEF PostRouteFails
      <4>. QED  BY <1>1, <3>2, <3>4, <4>1 DEF PostRouteFails
    <3>. QED  BY <1>6, <3>3, <3>4
  <2>2. OthersStay(t) /\ pc'[t] = "post" /\ job'[t].node = job[t].node /\ Live(n)' = Live(n)
    BY <1>1, <2>1, Gone, LiveFrame
  <2>3. CASE r[1] = job[t].node
    BY <2>2, <2>3 DEF InHand
  <2>4. CASE r \in routes /\ r[1] # job[t].node
    <3>1. ~InHand(t, r) /\ r \in RoutesOf(n) /\ n \in Node \ tainted
      BY <1>1, <2>1, <2>4 DEF InHand, RoutesOf
    <3>. QED  BY <2>2, <3>1, StillInHand
  <2>. QED  BY <2>1, <2>3, <2>4
<1>7. CASE PutRecord(t)
  <2>. DEFINE q == [status |-> IF job[t].ok THEN "healthy" ELSE "litellm_error",
                    fresh |-> TRUE, roles |-> job[t].roles]
  <2>1. PICK m \in Node : m = job[t].node /\ job[t] \in Job /\ pc[t] = "post"
    BY <1>1, <1>7, HandsOf DEF PutRecord
  <2>2. /\ obj' = [obj EXCEPT ![m] = Append(@, q)] /\ cur' = [cur EXCEPT ![m] = Len(obj[m]) + 1]
        /\ GoWith(t, "idle", job[t]) /\ UNCHANGED <<routes, tainted>>
    BY <1>7, <2>1 DEF PutRecord, Goto
  <2>3. q \in Record /\ q.status \notin GoneStatus
    BY <2>1 DEF Job, Record, NodeStatus, GoneStatus
  <2>. HIDE DEF q
  <2>4. /\ Live(m)' = [status |-> q.status, roles |-> q.roles]
        /\ n # m => Live(n)' = Live(n)
    BY <1>1, <2>2, <2>3, PutLive
  <2>5. n # m
    BY <2>3, <2>4
  <2>6. OthersStay(t) /\ ~InHand(t, r) /\ r \in RoutesOf(n)
    BY <1>1, <2>1, <2>2, <2>5, Gone DEF InHand, RoutesOf
  <2>. QED  BY <2>2, <2>4, <2>5, <2>6, StillInHand
<1>8. ASSUME NEW m \in Node, NEW s \in {"healthy", "down"}, Heartbeat(t, m, s)
      PROVE  \E u \in Thread : InHand(u, r)'
  <2>1. /\ cur[m] # 0 /\ Marked(m, cur[m], s) /\ pc[t] = "idle" /\ routes' = routes
        /\ \/ /\ s # "healthy" /\ Live(m).status = "healthy"
              /\ GoWith(t, "match", [IdleJob EXCEPT !.kind = "heartbeat", !.node = m])
           \/ (s = "healthy" \/ Live(m).status # "healthy") /\ UNCHANGED threads
        /\ tainted' = IF s # "healthy" /\ Live(m).status = "litellm_error"
                      THEN tainted \cup {m} ELSE tainted
    BY <1>8, HeartbeatDoes
  <2>2. cur[m] \in Nat \ {0}
    BY <1>1, <2>1 DEF RegistryTyped
  <2>3. Live(n)' = IF n = m THEN [status |-> s, roles |-> Live(m).roles] ELSE Live(n)
    BY <1>1, <2>1, <2>2, MarkedLive
  <2>4. OthersStay(t)
    BY <1>1, <2>1, Gone DEF threads, OthersStay
  <2>5. CASE n = m /\ Live(m).status = "healthy"
    <3>1. s # "healthy"
      BY <2>3, <2>5 DEF GoneStatus
    <3>2. pc'[t] = "match" /\ job'[t] = [IdleJob EXCEPT !.kind = "heartbeat", !.node = m]
      BY <1>1, <2>1, <2>5, <3>1, Gone
    <3>3. job'[t].node = m
      BY <3>2 DEF IdleJob
    <3>. QED  BY <1>1, <2>5, <3>2, <3>3 DEF InHand
  <2>6. CASE n # m \/ Live(m).status # "healthy"
    <3>1. Live(n).status \in GoneStatus
      <4>1. CASE n # m
        BY <2>3, <4>1
      <4>2. CASE n = m
        <5>1. s # "healthy" /\ Live(m).status # "litellm_error"
          BY <2>1, <2>3, <4>2 DEF GoneStatus
        <5>2. Live(m).status \in NodeStatus
          BY <1>1, <2>1, LiveTyped DEF Record
        <5>. QED  BY <2>6, <4>2, <5>1, <5>2 DEF NodeStatus, GoneStatus
      <4>. QED  BY <4>1, <4>2
    <3>. QED  BY <1>3, <2>1, <2>4, <3>1
  <2>. QED  BY <2>5, <2>6
<1>9. ASSUME NEW m \in Node, Deregister(t, m)  PROVE \E u \in Thread : InHand(u, r)'
  <2>1. /\ GoWith(t, "match", [IdleJob EXCEPT !.kind = "deregister", !.node = m])
        /\ pc[t] = "idle" /\ cur' = [cur EXCEPT ![m] = 0] /\ UNCHANGED <<obj, routes, tainted>>
    BY <1>9 DEF Deregister, Request
  <2>2. /\ OthersStay(t) /\ pc'[t] = "match"
        /\ job'[t] = [IdleJob EXCEPT !.kind = "deregister", !.node = m]
    BY <1>1, <2>1, Gone
  <2>3. CASE n = m
    <3>1. job'[t].node = m
      BY <2>2 DEF IdleJob
    <3>. QED  BY <1>1, <2>2, <2>3, <3>1 DEF InHand
  <2>4. CASE n # m
    <3>1. Live(n)' = Live(n)
      BY <1>1, <2>1, <2>4 DEF Live, RegistryTyped
    <3>. QED  BY <1>3, <2>1, <2>2, <3>1
  <2>. QED  BY <2>3, <2>4
<1>10. CASE Match(t) \/ MatchFails(t) \/ Purge(t) \/ PurgeFails(t)
  <2>1. PICK ids \in SUBSET RoutesFor(job[t].node, Role) :
            /\ pc[t] \in {"match", "purge"} /\ After(t, ids)
            /\ routes' \subseteq routes /\ UNCHANGED registry
            /\ \/ ids = RoutesOf(job[t].node) /\ UNCHANGED <<routes, tainted>>
               \/ tainted' = tainted \cup {job[t].node}
               \/ /\ pc[t] = "purge" /\ UNCHANGED tainted
                  /\ \E q \in job[t].ids : routes' = routes \ {q} /\ ids = job[t].ids \ {q}
    <3>1. Purge(t) => pc[t] = "purge"
      BY DEF Purge
    <3>. QED  BY <1>10, <3>1, HuntDoes
  <2>2. OthersStay(t) /\ (ids # {} => pc'[t] = "purge" /\ job'[t].ids = ids
                                     /\ job'[t].node = job[t].node)
    BY <1>1, <2>1, AfterDoes
  <2>3. /\ Live(n).status \in GoneStatus /\ r \in RoutesOf(n) /\ n \in Node \ tainted
    BY <1>1, <2>1, LiveFrame DEF RoutesOf
  <2>4. CASE job[t].node # n
    BY <1>1, <2>2, <2>3, <2>4, StillInHand DEF InHand
  <2>5. CASE job[t].node = n
    <3>1. CASE ids = RoutesOf(job[t].node)
      BY <1>1, <2>2, <2>3, <2>5, <3>1 DEF InHand
    <3>2. ASSUME pc[t] = "purge",
                 \E q \in job[t].ids : routes' = routes \ {q} /\ ids = job[t].ids \ {q},
                 InHand(t, r)
          PROVE  InHand(t, r)'
      <4>1. r \in job[t].ids
        BY <3>2 DEF InHand
      <4>2. r \in ids
        BY <1>1, <3>2, <4>1
      <4>. QED  BY <1>1, <2>2, <2>5, <4>2 DEF InHand
    <3>. QED  BY <2>1, <2>2, <2>3, <2>5, <3>1, <3>2, StillInHand
  <2>. QED  BY <2>4, <2>5
<1>. QED  BY <1>4, <1>5, <1>6, <1>7, <1>8, <1>9, <1>10

LEMMA NextChased == TypeInv /\ CalmInv /\ Chased /\ [Next]_vars => Chased'
<1>. SUFFICES ASSUME TypeInv, CalmInv, Chased, [Next]_vars  PROVE Chased'
  OBVIOUS
<1>1. RegistryTyped
  BY DEF TypeInv
<1>2. ASSUME UNCHANGED <<registry, threads>>, routes' \subseteq routes, tainted \subseteq tainted'
      PROVE  Chased'
  BY <1>2, LiveFrame, ChasedFrame
<1>3. CASE UNCHANGED vars
  BY <1>2, <1>3 DEF vars, registry, threads
<1>4. CASE Edit
  BY <1>2, <1>4, EditDoes DEF Edited
<1>5. ASSUME NEW n \in Node, Expire(n)  PROVE Chased'
  <2>1. /\ cur[n] # 0 /\ Marked(n, cur[n], Live(n).status)
        /\ UNCHANGED <<routes, threads, tainted>>
    BY <1>5, ExpireDoes
  <2>2. cur[n] \in Nat \ {0}
    BY <1>1, <2>1 DEF RegistryTyped
  <2>3. \A m \in Node : Live(m)'.status = Live(m).status
    BY <1>1, <2>1, <2>2, MarkedLive
  <2>. QED  BY <2>1, <2>3, ChasedFrame
<1>6. CASE RestartRegistry
  BY <1>6 DEF RestartRegistry, Chased
<1>7. CASE Handle
  <2>1. UNCHANGED <<registry, threads>>
    BY <1>7, HandleDoes
  <2>2. ASSUME NEW q \in gw.todo, Posted(q)  PROVE Chased'
    <3>. SUFFICES ASSUME NEW n \in Node \ tainted', Live(n)'.status \in GoneStatus,
                         NEW r \in RoutesOf(n)'
                  PROVE  \E t \in Thread : InHand(t, r)'
      BY DEF Chased
    <3>1. Live(n).status \in GoneStatus
      BY <2>1, LiveFrame
    <3>2. n \notin tainted /\ (r = q => r \in routes)
      BY <2>2, <3>1 DEF Posted, RoutesOf, GoneStatus
    <3>3. r \in RoutesOf(n)
      BY <2>2, <3>2 DEF Posted, RoutesOf
    <3>4. PICK t \in Thread : InHand(t, r)
      BY <3>1, <3>2, <3>3 DEF Chased
    <3>. QED  BY <2>1, <3>4 DEF InHand, threads
  <2>3. CASE Return
    <3>1. CASE gw.kind = "reconcile" /\ calm
      <4>1. gw.pc = "settled" /\ UNCHANGED <<registry, routes>>
        BY <2>3 DEF Return
      <4>2. \A n \in Node : Live(n).status # "healthy" => RoutesOf(n) = {}
        BY <3>1, <4>1, Converged DEF ReconcileConverges
      <4>3. \A n \in Node : Live(n)' = Live(n) /\ RoutesOf(n)' = RoutesOf(n)
        BY <4>1, LiveFrame DEF RoutesOf
      <4>. QED  BY <4>2, <4>3 DEF Chased, GoneStatus
    <3>2. CASE ~(gw.kind = "reconcile" /\ calm)
      BY <1>2, <2>1, <2>3, <3>2 DEF Return
    <3>. QED  BY <3>1, <3>2
  <2>4. CASE GetRegisteredModels \/ GetRegisteredModelsFails \/ GetNodesFails \/ CommitMirror
    BY <1>2, <2>1, <2>4 DEF GetRegisteredModels, GetRegisteredModelsFails, GetNodesFails,
                            CommitMirror
  <2>5. CASE \/ \E r \in gw.doomed : Pruned(r)
             \/ UNCHANGED <<routes, tainted>>
    BY <1>2, <2>1, <2>5 DEF Pruned
  <2>. QED  BY <1>7, <2>2, <2>3, <2>4, <2>5, HandleDoes
<1>8. ASSUME NEW t \in Thread,
         \/ ListNodes(t) \/ AnswerGateway(t) \/ Visit(t) \/ Listed(t)
         \/ PostRoute(t) \/ PostRouteFails(t) \/ PutRecord(t)
         \/ Match(t) \/ MatchFails(t) \/ Purge(t) \/ PurgeFails(t)
         \/ \E n \in Node, R \in Offers : BeginRegister(t, n, R)
         \/ \E n \in Node, s \in {"healthy", "down"} : Heartbeat(t, n, s)
         \/ \E n \in Node : Deregister(t, n)
      PROVE  Chased'
  BY <1>8, ThreadChased DEF Chased
<1>. QED  BY <1>3, <1>4, <1>5, <1>6, <1>7, <1>8, StepCases

(* The proxy routes to no node that left, failed or timed out once nobody   *)
(* in the registry is at work for it, but for the failures, the restart and *)
(* the registrations from an old list that tainted it; a reconcile beside  *)
(* which nothing happened clears these.                                    *)
THEOREM GhostsGone == Spec => []NoGhostRoutes
<1>1. Init => TypeInv /\ CalmInv /\ Chased
  BY InitTypes, InitCalm, InitChased
<1>2. TypeInv /\ CalmInv /\ Chased /\ [Next]_vars => (TypeInv /\ CalmInv /\ Chased)'
  BY NextTypes, NextCalm, NextChased
<1>3. Chased => NoGhostRoutes
  BY DEF Chased, NoGhostRoutes, InHand, GoneStatus, RoutesOf
<1>. QED  BY <1>1, <1>2, <1>3, PTL DEF Spec

================================================================================
