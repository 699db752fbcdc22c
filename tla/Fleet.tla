--------------------------------- MODULE Fleet ---------------------------------
(***************************************************************************)
(* The routing table of the LiteLLM proxy and the two services that write  *)
(* it without a lock or a transaction: the node registry, whose handlers   *)
(* run in threads over the dict ACTIVE_NODES, and the gateway's            *)
(* ManagedModelService, whose blocking handlers run one at a time on its   *)
(* event loop and act on lists they fetched earlier.                       *)
(*                                                                         *)
(* One action per request to the proxy and per access to ACTIVE_NODES.     *)
(* Abstracted: addresses, models and hardware of a node (a route is its    *)
(* owner and its role), authentication, what is only displayed.            *)
(***************************************************************************)
EXTENDS Naturals, Sequences, FiniteSets

CONSTANTS
    Node, Role, Model,  \* nodes, virtual role aliases, models of the database
    Static,             \* owner of routes from the proxy's own configuration
    RoleOf,             \* the assigned_role of a model
    Offers,             \* the sets of roles a node may register for
    Thread,             \* threads that serve the registry
    Faults,             \* requests that may fail
    MaxGen,             \* bound: registrations per node
    MaxRequests,        \* bound: requests to the registry and restarts of it
    MaxEdits            \* bound: administrator requests to the gateway

FaultPoints == {"post", "match", "delete", "nodes"}

ASSUME FleetAssumption ==
    /\ Node \cap Model = {} /\ Static \notin Node \cup Model
    /\ RoleOf \in [Model -> Role]
    /\ Role # {} /\ Offers \subseteq SUBSET Role
    /\ IsFiniteSet(Thread)
    /\ Faults \subseteq FaultPoints
    /\ MaxGen \in Nat \ {0} /\ MaxRequests \in Nat /\ MaxEdits \in Nat

VARIABLES
    obj,      \* per node, the records ever put into ACTIVE_NODES, by generation
    cur,      \* ACTIVE_NODES: the generation a node is registered with, or 0
    routes,   \* the proxy's table
    rows,     \* ManagedModelModel rows that mirror nodes
    models,   \* the other rows
    pc, job,  \* per registry thread, its next step and its locals
    gw,       \* the gateway's handler: its next step and its locals
    calm,     \* history: nothing but the handler's own calls since it began
    tainted,  \* history: nodes whose routes a failure or the gateway spoiled
    spent     \* requests, with restarts, and edits so far

vars == <<obj, cur, routes, rows, models, pc, job, gw, calm, tainted, spent>>

registry == <<obj, cur>>
tables == <<rows, models>>
threads == <<pc, job>>

Owner == Node \cup Model \cup {Static}
Route == Owner \X Role

NodeStatus == {"healthy", "litellm_error", "down", "offline"}
Record == [status : NodeStatus, fresh : BOOLEAN, roles : SUBSET Role]
NotListed == [status |-> "absent", roles |-> {}]
Listing == [status : NodeStatus \cup {"absent"}, roles : SUBSET Role]

NoNodes == [n \in Node |-> NotListed]

IdleJob == [kind |-> "none", node |-> Static, todo |-> {}, roles |-> {}, late |-> {},
            ids |-> {}, ok |-> TRUE, found |-> NoNodes]

IdleGw == [pc |-> "idle", kind |-> "none", seen |-> {}, nodes |-> NoNodes,
           doomed |-> {}, todo |-> {}, visit |-> {}]

RoutesOf(o) == {r \in routes : r[1] = o}
RoutesFor(o, R) == {o} \X R

Live(n) == IF cur[n] = 0 THEN NotListed
           ELSE [status |-> obj[n][cur[n]].status, roles |-> obj[n][cur[n]].roles]

GoWith(t, step, j) ==
    /\ pc' = [pc EXCEPT ![t] = step]
    /\ job' = [job EXCEPT ![t] = IF step = "idle" THEN IdleJob ELSE j]

Goto(t, step) == GoWith(t, step, job[t])

MayFail(point) == point \in Faults

(* A step of the registry that the gateway's handler did not ask for. *)
Disturb(t) == calm' = (calm /\ job[t].kind = "answer")

Request(t) ==
    /\ pc[t] = "idle"
    /\ spent.requests < MaxRequests
    /\ spent' = [spent EXCEPT !.requests = @ + 1]
    /\ calm' = FALSE

-----------------------------------------------------------------------------
(* What the gateway makes of the lists it fetched.                         *)

Enabled == {m \in Model : models[m] = "on"}

(* Mutant of StaleRoute: roles a node has dropped are not looked for. *)
StaleOwner(r, nodes) ==
    \/ r[1] \in Node /\ nodes[r[1]].status # "healthy"
    \/ r[1] \in Model /\ (r[1] \notin Enabled \/ r[2] # RoleOf[r[1]])
    \/ r[1] = Static /\ Enabled # {}

(* What reconcile takes for a route nobody stands behind. *)
StaleRoute(r, nodes) ==
    \/ r[1] \in Node /\ (nodes[r[1]].status # "healthy" \/ r[2] \notin nodes[r[1]].roles)
    \/ r[1] \in Model /\ (r[1] \notin Enabled \/ r[2] # RoleOf[r[1]])
    \/ r[1] = Static /\ Enabled # {}

(* The enabled models and the healthy nodes that are not disabled. *)
WantedRoutes(nodes) ==
    {<<m, RoleOf[m]>> : m \in Enabled} \cup
    UNION {RoutesFor(n, nodes[n].roles) :
              n \in {n \in Node : nodes[n].status = "healthy" /\ rows[n] # "off"}}

(* The handler goes on to its next request. *)
Onward(g) ==
    LET step == IF g.pc = "prune" /\ g.doomed = {} THEN "post" ELSE g.pc
    IN [g EXCEPT !.pc = IF step # "post" \/ g.todo # {} THEN step
                        ELSE IF g.kind = "list" THEN "mirror" ELSE "settled"]

Planned(nodes) ==
    IF gw.kind = "list"
    THEN [gw EXCEPT !.pc = "mirror", !.nodes = nodes,
                    !.visit = {n \in Node : nodes[n] # NotListed}]
    ELSE Onward([gw EXCEPT !.pc = "prune", !.seen = {},
                    !.doomed = {r \in gw.seen : StaleRoute(r, nodes)},
                    !.todo = WantedRoutes(nodes)])

-----------------------------------------------------------------------------
(* The registry: register_node.                                            *)

BeginRegister(t, n, R) ==
    /\ Request(t)
    /\ Len(obj[n]) + Cardinality({u \in Thread : job[u].kind = "register" /\ job[u].node = n})
          < MaxGen
    /\ GoWith(t, "post", [IdleJob EXCEPT !.kind = "register", !.node = n,
                                         !.todo = R, !.roles = R])
    /\ UNCHANGED <<registry, routes, tables, gw, tainted>>

(* /model/new, or /model/update when the id is taken. *)
PostRoute(t) ==
    /\ pc[t] = "post"
    /\ \E r \in job[t].todo :
          /\ routes' = routes \cup {<<job[t].node, r>>}
          /\ GoWith(t, "post", [job[t] EXCEPT !.todo = @ \ {r}])
    /\ Disturb(t)
    /\ UNCHANGED <<registry, tables, gw, tainted, spent>>

PostRouteFails(t) ==
    /\ MayFail("post")
    /\ pc[t] = "post"
    /\ \E r \in job[t].todo : GoWith(t, "post", [job[t] EXCEPT !.todo = @ \ {r}, !.ok = FALSE])
    /\ Disturb(t)
    /\ UNCHANGED <<registry, routes, tables, gw, tainted, spent>>

(* A new record takes the place of the old one, whatever that has become. *)
PutRecord(t) ==
    /\ pc[t] = "post" /\ job[t].todo = {}
    /\ LET n == job[t].node
           r == [status |-> IF job[t].ok THEN "healthy" ELSE "litellm_error",
                 fresh |-> TRUE, roles |-> job[t].roles]
       IN /\ obj' = [obj EXCEPT ![n] = Append(@, r)]
          /\ cur' = [cur EXCEPT ![n] = Len(obj[n]) + 1]
    /\ Goto(t, "idle")
    /\ Disturb(t)
    /\ UNCHANGED <<routes, tables, gw, tainted, spent>>

-----------------------------------------------------------------------------
(* record_heartbeat, deregister_node, list_nodes.                          *)

(* Mutant of Heartbeat: a failing node keeps its routes. *)
HeartbeatOnly(t, n, s) ==
    /\ Request(t)
    /\ cur[n] # 0
    /\ obj' = [obj EXCEPT ![n][cur[n]].status = s, ![n][cur[n]].fresh = TRUE]
    /\ UNCHANGED <<cur, threads, routes, tables, gw, tainted>>

(* Only a transition out of "healthy" purges; a node that had failed to     *)
(* register completely keeps what it has.                                  *)
Heartbeat(t, n, s) ==
    /\ Request(t)
    /\ cur[n] # 0
    /\ LET was == obj[n][cur[n]].status IN
          /\ obj' = [obj EXCEPT ![n][cur[n]].status = s, ![n][cur[n]].fresh = TRUE]
          /\ tainted' = IF s # "healthy" /\ was = "litellm_error"
                        THEN tainted \cup {n} ELSE tainted
          /\ IF s # "healthy" /\ was = "healthy"
             THEN GoWith(t, "match", [IdleJob EXCEPT !.kind = "heartbeat", !.node = n])
             ELSE UNCHANGED threads
    /\ UNCHANGED <<cur, routes, tables, gw>>

Deregister(t, n) ==
    /\ Request(t)
    /\ cur[n] # 0
    /\ cur' = [cur EXCEPT ![n] = 0]
    /\ GoWith(t, "match", [IdleJob EXCEPT !.kind = "deregister", !.node = n])
    /\ UNCHANGED <<obj, routes, tables, gw, tainted>>

(* list(ACTIVE_NODES.items()): the pairs, and the time, are taken once; the *)
(* records are shared with the other threads.                              *)
Snapshot(kind) ==
    [IdleJob EXCEPT !.kind = kind,
                    !.todo = {<<n, cur[n]>> : n \in {n \in Node : cur[n] # 0}},
                    !.late = {n \in Node : cur[n] # 0 /\ ~obj[n][cur[n]].fresh}]

ListNodes(t) ==
    /\ Request(t)
    /\ GoWith(t, "visit", Snapshot("list"))
    /\ UNCHANGED <<registry, routes, tables, gw, tainted>>

AnswerGateway(t) ==
    /\ pc[t] = "idle" /\ gw.pc = "ask"
    /\ GoWith(t, "visit", Snapshot("answer"))
    /\ gw' = [gw EXCEPT !.pc = "await"]
    /\ UNCHANGED <<registry, routes, tables, calm, tainted, spent>>

Visit(t) ==
    /\ pc[t] = "visit"
    /\ \E item \in job[t].todo :
          LET n == item[1]
              o == obj[n][item[2]]
              dead == n \in job[t].late /\ ~o.fresh /\ o.status = "healthy"
              status == IF dead THEN "offline" ELSE o.status
          IN /\ obj' = [obj EXCEPT ![n][item[2]].status = status]
             /\ GoWith(t, IF dead THEN "match" ELSE "visit",
                       [job[t] EXCEPT !.todo = @ \ {item}, !.node = IF dead THEN n ELSE @,
                                      !.found[n] = IF job[t].kind = "answer"
                                                   THEN [status |-> status, roles |-> o.roles]
                                                   ELSE @])
    /\ Disturb(t)
    /\ UNCHANGED <<cur, routes, tables, gw, tainted, spent>>

(* The answer reaches the gateway if that still waits for it. *)
Listed(t) ==
    /\ pc[t] = "visit" /\ job[t].todo = {}
    /\ gw' = IF job[t].kind = "answer" /\ gw.pc = "await"
             THEN Planned(job[t].found) ELSE gw
    /\ Goto(t, "idle")
    /\ Disturb(t)
    /\ UNCHANGED <<registry, routes, tables, tainted, spent>>

-----------------------------------------------------------------------------
(* remove_node_from_litellm: by the node_id in the routes' model_info.      *)

(* Mutant of After: the loop is entered though no route was found. *)
AfterUnchecked(t, ids) ==
    GoWith(t, IF ids # {} \/ pc[t] = "match" THEN "purge" ELSE "idle", [job[t] EXCEPT !.ids = ids])

(* The routes still to delete; then the caller's loop goes on. *)
After(t, ids) ==
    GoWith(t, IF ids # {} THEN "purge"
              ELSE IF job[t].kind \in {"list", "answer"} THEN "visit" ELSE "idle",
           [job[t] EXCEPT !.ids = ids, !.node = IF ids = {} THEN Static ELSE @])

(* Mutant of Match: the routes are found by the node's roles. *)
MatchByRole(t) ==
    /\ pc[t] = "match"
    /\ After(t, {r \in routes : <<job[t].node, r[2]>> \in routes})
    /\ Disturb(t)
    /\ UNCHANGED <<registry, routes, tables, gw, tainted, spent>>

Match(t) ==
    /\ pc[t] = "match"
    /\ After(t, RoutesOf(job[t].node))
    /\ Disturb(t)
    /\ UNCHANGED <<registry, routes, tables, gw, tainted, spent>>

MatchFails(t) ==
    /\ MayFail("match")
    /\ pc[t] = "match"
    /\ After(t, {})
    /\ calm' = FALSE
    /\ tainted' = tainted \cup {job[t].node}
    /\ UNCHANGED <<registry, routes, tables, gw, spent>>

Purge(t) ==
    /\ pc[t] = "purge"
    /\ \E r \in job[t].ids : routes' = routes \ {r} /\ After(t, job[t].ids \ {r})
    /\ Disturb(t)
    /\ UNCHANGED <<registry, tables, gw, tainted, spent>>

(* The status of a deletion is not looked at. *)
PurgeFails(t) ==
    /\ MayFail("delete")
    /\ pc[t] = "purge"
    /\ \E r \in job[t].ids : After(t, job[t].ids \ {r})
    /\ calm' = FALSE
    /\ tainted' = tainted \cup {job[t].node}
    /\ UNCHANGED <<registry, routes, tables, gw, spent>>

-----------------------------------------------------------------------------
(* The gateway: toggle_model, create_model, delete_model and the explicit   *)
(* sync all end in reconcile_all_models_with_litellm; list_all mirrors.     *)

BeginEdit(kind, step) ==
    /\ gw.pc = "idle"
    /\ spent.edits < MaxEdits
    /\ spent' = [spent EXCEPT !.edits = @ + 1]
    /\ gw' = [IdleGw EXCEPT !.pc = step, !.kind = kind]
    /\ calm' = \A t \in Thread : pc[t] = "idle"

ToggleModel(m) ==
    /\ BeginEdit("reconcile", "seen")
    /\ models[m] # "none"
    /\ \E v \in {"on", "off"} : models' = [models EXCEPT ![m] = v]
    /\ UNCHANGED <<registry, routes, rows, threads, tainted>>

ToggleNode(n) ==
    /\ BeginEdit("reconcile", "seen")
    /\ rows[n] # "none"
    /\ \E v \in {"on", "off"} : rows' = [rows EXCEPT ![n] = v]
    /\ UNCHANGED <<registry, routes, models, threads, tainted>>

CreateModel(m) ==
    /\ BeginEdit("reconcile", "seen")
    /\ models[m] = "none"
    /\ \E v \in {"on", "off"} : models' = [models EXCEPT ![m] = v]
    /\ UNCHANGED <<registry, routes, rows, threads, tainted>>

DeleteModel(x) ==
    /\ BeginEdit("reconcile", "seen")
    /\ IF x \in Model THEN models[x] # "none" /\ models' = [models EXCEPT ![x] = "none"]
                      ELSE UNCHANGED models
    /\ IF x \in Node THEN rows[x] # "none" /\ rows' = [rows EXCEPT ![x] = "none"]
                     ELSE UNCHANGED rows
    /\ UNCHANGED <<registry, routes, threads, tainted>>

ListAll ==
    /\ BeginEdit("list", "ask")
    /\ UNCHANGED <<registry, routes, tables, threads, tainted>>

GetRegisteredModels ==
    /\ gw.pc = "seen"
    /\ gw' = [gw EXCEPT !.pc = "ask", !.seen = routes]
    /\ UNCHANGED <<registry, routes, tables, threads, calm, tainted, spent>>

(* A failure is the empty list. *)
GetRegisteredModelsFails ==
    /\ MayFail("match")
    /\ gw.pc = "seen"
    /\ gw' = [gw EXCEPT !.pc = "ask"]
    /\ calm' = FALSE
    /\ UNCHANGED <<registry, routes, tables, threads, tainted, spent>>

(* No connection, or no answer in two seconds, is a registry without nodes. *)
GetNodesFails ==
    /\ MayFail("nodes")
    /\ gw.pc \in {"ask", "await"}
    /\ gw' = Planned(NoNodes)
    /\ calm' = FALSE
    /\ UNCHANGED <<registry, routes, tables, threads, tainted, spent>>

Prune ==
    /\ gw.pc = "prune"
    /\ \E r \in gw.doomed :
          /\ routes' = routes \ {r}
          /\ gw' = Onward([gw EXCEPT !.doomed = @ \ {r}])
    /\ UNCHANGED <<registry, tables, threads, calm, tainted, spent>>

PruneFails ==
    /\ MayFail("delete")
    /\ gw.pc = "prune"
    /\ \E r \in gw.doomed : gw' = Onward([gw EXCEPT !.doomed = @ \ {r}])
    /\ calm' = FALSE
    /\ UNCHANGED <<registry, routes, tables, threads, tainted, spent>>

(* The models of the database come first. *)
Due == IF \E r \in gw.todo : r[1] \in Model THEN {r \in gw.todo : r[1] \in Model} ELSE gw.todo

(* The node may have left since the list was fetched: it has its route back. *)
RegisterModel ==
    /\ gw.pc = "post"
    /\ \E r \in Due :
          /\ routes' = routes \cup {r}
          /\ gw' = Onward([gw EXCEPT !.todo = @ \ {r}])
          /\ tainted' = IF r[1] \in Node /\ Live(r[1]).status # "healthy"
                        THEN tainted \cup {r[1]} ELSE tainted
    /\ UNCHANGED <<registry, tables, threads, calm, spent>>

RegisterModelFails ==
    /\ MayFail("post")
    /\ gw.pc = "post"
    /\ \E r \in Due : gw' = Onward([gw EXCEPT !.todo = @ \ {r}])
    /\ calm' = FALSE
    /\ UNCHANGED <<registry, routes, tables, threads, tainted, spent>>

(* A new node is enabled iff it is healthy; a known one is disabled when it *)
(* is not, and never enabled; an enabled one gets its routes (again).      *)
MirrorNode ==
    /\ gw.pc = "mirror"
    /\ \E n \in gw.visit :
          LET healthy == gw.nodes[n].status = "healthy"
              row == IF ~healthy THEN "off" ELSE IF rows[n] = "none" THEN "on" ELSE rows[n]
          IN /\ rows' = [rows EXCEPT ![n] = row]
             /\ gw' = Onward([gw EXCEPT !.visit = @ \ {n}, !.pc = "post",
                          !.todo = IF row = "on" THEN RoutesFor(n, gw.nodes[n].roles) ELSE {}])
    /\ UNCHANGED <<registry, routes, models, threads, calm, tainted, spent>>

(* Mutant of CommitMirror: the rows of nodes that left stay enabled. *)
CommitMirrorOnly ==
    /\ gw.pc = "mirror" /\ gw.visit = {}
    /\ gw' = [gw EXCEPT !.pc = "settled"]
    /\ UNCHANGED <<registry, routes, tables, threads, calm, tainted, spent>>

CommitMirror ==
    /\ gw.pc = "mirror" /\ gw.visit = {}
    /\ rows' = [n \in Node |-> IF rows[n] = "on" /\ gw.nodes[n] = NotListed
                               THEN "off" ELSE rows[n]]
    /\ gw' = [gw EXCEPT !.pc = "settled"]
    /\ UNCHANGED <<registry, routes, models, threads, calm, tainted, spent>>

Return ==
    /\ gw.pc = "settled"
    /\ gw' = IdleGw
    /\ tainted' = IF gw.kind = "reconcile" /\ calm THEN {} ELSE tainted
    /\ calm' = FALSE
    /\ UNCHANGED <<registry, routes, tables, threads, spent>>

-----------------------------------------------------------------------------
(* NODE_TIMEOUT_SECONDS without a heartbeat. *)
Expire(n) ==
    /\ cur[n] # 0 /\ obj[n][cur[n]].fresh
    /\ obj' = [obj EXCEPT ![n][cur[n]].fresh = FALSE]
    /\ calm' = FALSE
    /\ UNCHANGED <<cur, routes, tables, threads, gw, tainted, spent>>

(* ACTIVE_NODES is memory; the proxy keeps its table. *)
RestartRegistry ==
    /\ spent.requests < MaxRequests
    /\ spent' = [spent EXCEPT !.requests = @ + 1]
    /\ cur' = [n \in Node |-> 0]
    /\ pc' = [t \in Thread |-> "idle"]
    /\ job' = [t \in Thread |-> IdleJob]
    /\ tainted' = Node
    /\ calm' = FALSE
    /\ UNCHANGED <<obj, routes, tables, gw>>

(* Nodes may have registered before the behaviour begins, for every role;   *)
(* the database is empty or knows every model and (departed) node.         *)
Registered == [status |-> "healthy", fresh |-> TRUE, roles |-> Role]

Init ==
    /\ \E up \in SUBSET Node :
          /\ obj = [n \in Node |-> IF n \in up THEN <<Registered>> ELSE <<>>]
          /\ cur = [n \in Node |-> IF n \in up THEN 1 ELSE 0]
          /\ \E known \in {"none", "on"} :
                /\ models = [m \in Model |-> known]
                /\ rows = [n \in Node |-> known]
          /\ routes = (up \X Role) \cup
                IF Enabled # {} THEN {<<m, RoleOf[m]>> : m \in Enabled}
                                ELSE {<<Static, CHOOSE r \in Role : TRUE>>}
    /\ pc = [t \in Thread |-> "idle"]
    /\ job = [t \in Thread |-> IdleJob]
    /\ gw = IdleGw
    /\ calm = FALSE
    /\ tainted = {}
    /\ spent = [requests |-> 0, edits |-> 0]

Call(t) ==
    \/ ListNodes(t)
    \/ \E n \in Node :
          \/ \E R \in Offers : BeginRegister(t, n, R)
          \/ \E s \in {"healthy", "down"} : Heartbeat(t, n, s)
          \/ Deregister(t, n)

Edit ==
    \/ \E m \in Model : ToggleModel(m) \/ CreateModel(m)
    \/ \E n \in Node : ToggleNode(n)
    \/ \E x \in Model \cup Node : DeleteModel(x)
    \/ ListAll

Serve(t) ==
    \/ PostRoute(t) \/ PostRouteFails(t) \/ PutRecord(t) \/ AnswerGateway(t)
    \/ Visit(t) \/ Listed(t) \/ Match(t) \/ MatchFails(t) \/ Purge(t) \/ PurgeFails(t)

Handle ==
    \/ GetRegisteredModels \/ GetRegisteredModelsFails \/ GetNodesFails
    \/ Prune \/ PruneFails \/ RegisterModel \/ RegisterModelFails
    \/ MirrorNode \/ CommitMirror \/ Return

(* The bounds are reached and nothing runs. *)
AllDone ==
    /\ \A t \in Thread : pc[t] = "idle"
    /\ gw.pc = "idle"
    /\ UNCHANGED vars

Next ==
    \/ \E t \in Thread : Call(t) \/ Serve(t)
    \/ Edit \/ Handle
    \/ \E n \in Node : Expire(n)
    \/ RestartRegistry
    \/ AllDone

Spec == Init /\ [][Next]_vars

-----------------------------------------------------------------------------
(* Properties.                                                             *)

TypeOK ==
    /\ obj \in [Node -> Seq(Record)]
    /\ \A n \in Node : Len(obj[n]) <= MaxGen /\ cur[n] \in 0..Len(obj[n])
    /\ routes \subseteq Route
    /\ rows \in [Node -> {"none", "on", "off"}]
    /\ models \in [Model -> {"none", "on", "off"}]
    /\ \A t \in Thread : pc[t] = "purge" => job[t].ids # {}
    /\ \A t \in Thread : pc[t] = "idle" <=> job[t] = IdleJob
    /\ gw.nodes \in [Node -> Listing]
    /\ gw.seen \cup gw.doomed \cup gw.todo \subseteq Route
    /\ gw.visit \subseteq Node
    /\ tainted \subseteq Node

(* A reconcile beside which nothing happened and no call failed leaves the  *)
(* table right, whatever had happened before: a healthy node has routes for *)
(* its roles only and, unless disabled, for all of them; any other has none;*)
(* a model has its route iff enabled; nothing static beside such a route.  *)
ReconcileConverges ==
    gw.pc = "settled" /\ gw.kind = "reconcile" /\ calm =>
        /\ \A n \in Node :
              IF Live(n).status # "healthy" THEN RoutesOf(n) = {}
              ELSE /\ RoutesOf(n) \subseteq RoutesFor(n, Live(n).roles)
                   /\ rows[n] = "off" \/ RoutesOf(n) = RoutesFor(n, Live(n).roles)
        /\ \A m \in Model : RoutesOf(m) = IF m \in Enabled THEN {<<m, RoleOf[m]>>} ELSE {}
        /\ Enabled # {} => RoutesOf(Static) = {}

(* After list_all beside which nothing happened, what the administrator     *)
(* sees enabled is healthy.                                                *)
RowsFollow ==
    gw.pc = "settled" /\ gw.kind = "list" /\ calm =>
        \A n \in Node : rows[n] = "on" => Live(n).status = "healthy"

(* The proxy never routes to a node that left, failed or timed out, once    *)
(* the registry has dealt with it: unless a purge failed, the node had never*)
(* registered completely, the registry restarted or the gateway registered *)
(* it from an old list (tainted); a calm reconcile heals these.            *)
NoGhostRoutes ==
    \A n \in Node \ tainted :
        /\ \A t \in Thread : job[t].node # n
        /\ Live(n).status \in {"absent", "down", "offline"}
        => RoutesOf(n) = {}

(* A purge is for one node: "routes of other nodes or DB models are NEVER   *)
(* accidentally purged", though several purges run at once.                *)
PurgeSparesOthers ==
    [][\A r \in routes \ routes' :
          gw' = gw => \E t \in Thread : pc[t] = "purge" /\ job[t].node = r[1]]_vars

=============================================================================
