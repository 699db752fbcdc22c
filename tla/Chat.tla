--------------------------------- MODULE Chat ----------------------------------
(***************************************************************************)
(* The gateway's chat: a request is authenticated in a thread, checked      *)
(* against three quotas, its prompt stored and charged, and answered by a   *)
(* coroutine that gives way to the others at every event it sends; what the *)
(* answer cost is charged, and the answer stored, only after the last one.  *)
(* Beside it, the requests that edit what it relies on: conversations,      *)
(* users, teams and the organization, whose handlers run at once because    *)
(* they block the event loop of the one gateway process.                    *)
(*                                                                         *)
(* Abstracted: texts (a message is its role and its request), titles, ids,  *)
(* token estimates (a cost out of a small set), what only tracing sees. The *)
(* caller of an administrative request is a super admin.                    *)
(***************************************************************************)
EXTENDS Naturals, Sequences, FiniteSets, FiniteSetsExt, SequencesExt

CONSTANTS
    User, Team, Conv, Request,
    NoTeam, Org,   \* no team; the one organization
    FirstUsers, FirstTeams,  \* those at the start, the others can be created
    Limits,        \* token limits of users, teams and the organization
    Charged,       \* used_tokens of a user or team at the start
    Prompt,        \* what a prompt costs (the larger of 5 and its length / 3.5)
    Remainders,    \* what an answer may cost beyond that
    Live,          \* sets of models the proxy may list
    Roles,         \* sets of roles of enabled rows and healthy nodes
    MaxEdits       \* bound: requests of users and administrators beside the chat

ASSUME ChatAssumption ==
    /\ FirstUsers \subseteq User /\ FirstTeams \subseteq Team /\ FirstTeams # {}
    /\ NoTeam \notin Team /\ Org \notin User \cup Team
    /\ \A S \in {Limits, Charged, Remainders} : S \subseteq Nat /\ S # {} /\ IsFiniteSet(S)
    /\ IsFiniteSet(User) /\ IsFiniteSet(Request)
    /\ Prompt \in Nat \ {0} /\ MaxEdits \in Nat
    /\ \A S \in Live \cup Roles : "" \notin S

VARIABLES
    users, teams, org,  \* rows of the gateway's database
    budgets,            \* the proxy's user table: the budget of a user, or NoBudget
    convs,              \* conversations
    req,                \* per chat request, its next step and its locals
    cut,                \* history: requests whose prompt an edit or deletion removed
    loose,              \* history: whose limit an administrator changed
    torn,               \* history: users whose update died before its synchronization
    edits               \* edits so far

vars == <<users, teams, org, budgets, convs, req, cut, loose, torn, edits>>

rows == <<users, teams, org, budgets, torn>>
history == <<cut, loose>>

Message == {"user", "assistant"} \X Request
NoBudget == 1 + Max(Limits)  \* no limit is as high

RouteNames == {"general", "coding", "reasoning", "rag"}
Idle == [pc |-> "new", user |-> Org, team |-> NoTeam, org |-> FALSE, conv |-> Org,
         rag |-> FALSE, canned |-> FALSE, route |-> "general", target |-> "",
         active |-> {}, tried |-> {}, cost |-> 0]

Running == {"stream", "route", "search", "choose", "ask", "answer", "simulate", "complete"}
Refused == {"quota", "error"}
Over == {"stored", "unsaved", "failed", "gone", "lost"}

Is(r) == r.status = "here"

-----------------------------------------------------------------------------
(* check_quotas.                                                           *)

OrgUsed == MapThenSumSet(LAMBDA u : users[u].used, {u \in User : Is(users[u]) /\ users[u].org})

(* Mutant of Exceeded: the last token of a limit can be spent twice. *)
ExceededBeyond(j) ==
    \/ j.org /\ Is(org) /\ OrgUsed > org.limit
    \/ j.team \in Team /\ Is(teams[j.team]) /\ teams[j.team].used > teams[j.team].limit
    \/ Is(users[j.user]) /\ users[j.user].limit # 0 /\ users[j.user].used > users[j.user].limit

(* The limit 0 blocks a team and the organization, and unblocks a user. *)
Exceeded(j) ==
    \/ j.org /\ Is(org) /\ OrgUsed >= org.limit
    \/ j.team \in Team /\ Is(teams[j.team]) /\ teams[j.team].used >= teams[j.team].limit
    \/ Is(users[j.user]) /\ users[j.user].limit # 0 /\ users[j.user].used >= users[j.user].limit

(* The user and the team the request was authenticated with. *)
Charge(j, n) ==
    /\ users' = [users EXCEPT ![j.user].used = IF Is(users[j.user]) THEN @ + n ELSE @]
    /\ teams' = [t \in Team |-> IF t = j.team /\ Is(teams[t])
                                THEN [teams[t] EXCEPT !.used = @ + n] ELSE teams[t]]

-----------------------------------------------------------------------------
(* A chat request, from get_current_user to prepare_conversation.          *)

(* What a step leaves behind: whom to charge until the end, then the price. *)
At(j, step) ==
    IF step \in Running THEN [Idle EXCEPT !.pc = step, !.user = j.user, !.team = j.team,
                              !.conv = j.conv, !.canned = j.canned, !.rag = j.rag, !.cost = j.cost]
    ELSE [Idle EXCEPT !.pc = step, !.cost = j.cost]

Become(q, step) == req' = [req EXCEPT ![q] = At(req[q], step)]

(* The row is read in a thread; the handler gets a copy of it. *)
Authenticate(q, u, c, rag, canned) ==
    /\ req[q].pc = "new"
    /\ Is(users[u]) /\ users[u].active
    /\ req' = [req EXCEPT ![q] = [Idle EXCEPT
          !.pc = "auth", !.user = u, !.team = users[u].team, !.org = users[u].org,
          !.conv = c, !.rag = rag, !.canned = canned]]
    /\ UNCHANGED <<rows, convs, history, edits>>

Refuse(q) ==
    /\ req[q].pc = "auth"
    /\ Exceeded(req[q])
    /\ Become(q, "quota")
    /\ UNCHANGED <<rows, convs, history, edits>>

Say(c, m) == convs' = [convs EXCEPT ![c] = [state |-> "here", log |-> Append(@.log, m)]]

(* Mutant of Prepare: the prompt is saved with a new conversation only. *)
PrepareNewOnly(q) ==
    /\ req[q].pc = "auth"
    /\ ~Exceeded(req[q])
    /\ IF convs[req[q].conv].state = "here" THEN UNCHANGED convs
                                            ELSE Say(req[q].conv, <<"user", q>>)
    /\ Charge(req[q], Prompt)
    /\ Become(q, "stream")
    /\ UNCHANGED <<org, budgets, torn, history, edits>>

Prepare(q) ==
    /\ req[q].pc = "auth"
    /\ ~Exceeded(req[q])
    /\ Say(req[q].conv, <<"user", q>>)
    /\ Charge(req[q], Prompt)
    /\ Become(q, "stream")
    /\ UNCHANGED <<org, budgets, torn, history, edits>>

(* The prompt is committed on its own, before it is charged. *)
PrepareFails(q) ==
    /\ req[q].pc = "auth"
    /\ ~Exceeded(req[q])
    /\ Say(req[q].conv, <<"user", q>>)
    /\ Become(q, "error")
    /\ UNCHANGED <<rows, history, edits>>

-----------------------------------------------------------------------------
(* event_generator, up to the model.                                       *)

(* A starter question is answered from a table; nothing more is charged. *)
Canned(q) ==
    /\ req[q].pc = "stream" /\ req[q].canned
    /\ Become(q, "complete")
    /\ UNCHANGED <<rows, convs, history, edits>>

(* Nobody but the user sends a question to the documents: whatever the      *)
(* semantic service says, its "rag" is "general".                          *)
Classified(rag) == IF rag THEN {"rag"} ELSE RouteNames \ {"rag"}

Route(q) ==
    /\ req[q].pc = "stream" /\ ~req[q].canned
    /\ \E r \in Classified(req[q].rag) :
          req' = [req EXCEPT ![q].route = r, ![q].rag = FALSE,
                             ![q].pc = IF r = "rag" THEN "search" ELSE "choose"]
    /\ UNCHANGED <<rows, convs, history, edits>>

(* The search answers, if only with nothing: its errors are caught. *)
Search(q) ==
    /\ req[q].pc = "search"
    /\ req' = [req EXCEPT ![q].pc = "choose"]
    /\ UNCHANGED <<rows, convs, history, edits>>

Preferred == [general |-> "general-model", coding |-> "coding-model",
              reasoning |-> "reasoning-model", rag |-> "rag-model"]
Standard == <<"general-model", "coding-model", "reasoning-model">>

FirstStandard(S) == Standard[Min({i \in DOMAIN Standard : Standard[i] \in S})]

Targets(route, live, active) ==
    IF Preferred[route] \in active THEN {Preferred[route]}
    ELSE IF active \cap Range(Standard) # {} THEN {FirstStandard(active)}
    ELSE IF live # {} THEN live
    ELSE IF active # {} THEN active ELSE {"general-model"}

(* What is active now; it may not be when it is asked. *)
Choose(q) ==
    /\ req[q].pc = "choose"
    /\ \E live \in Live, roles \in Roles : \E m \in Targets(req[q].route, live, live \cup roles) :
          req' = [req EXCEPT ![q].pc = "ask", ![q].target = m, ![q].active = live \cup roles,
                             ![q].route = "general"]
    /\ UNCHANGED <<rows, convs, history, edits>>

(* An exception ends the stream with an error event and no accounting. *)
HandlerFails(q) ==
    /\ req[q].pc \in {"stream", "choose"}
    /\ Become(q, "failed")
    /\ UNCHANGED <<rows, convs, history, edits>>

-----------------------------------------------------------------------------
(* event_generator, from the model to finalize_conversation.               *)

(* The first event with text; a stream that breaks later counts as an answer. *)
Answer(q) ==
    /\ req[q].pc = "ask"
    /\ Become(q, "answer")
    /\ UNCHANGED <<rows, convs, history, edits>>

(* Mutant of NextModel: a model that did not answer is asked again. *)
NextModelAgain(q) ==
    /\ req[q].pc = "ask"
    /\ LET tried == req[q].tried \cup {req[q].target}
           pool == (req[q].active \cup Range(Standard)) \ {req[q].target}
       IN \E m \in pool : req' = [req EXCEPT ![q].tried = tried, ![q].target = m]
    /\ UNCHANGED <<rows, convs, history, edits>>

(* No answer: the other models in turn, whether or not they are active. *)
NextModel(q) ==
    /\ req[q].pc = "ask"
    /\ LET tried == req[q].tried \cup {req[q].target}
           pool == (req[q].active \cup Range(Standard)) \ tried
       IN IF pool = {}
          THEN req' = [req EXCEPT ![q].tried = tried, ![q].pc = "simulate", ![q].target = ""]
          ELSE \E m \in IF pool \cap Range(Standard) # {} THEN {FirstStandard(pool)} ELSE pool :
                  req' = [req EXCEPT ![q].tried = tried, ![q].target = m]
    /\ UNCHANGED <<rows, convs, history, edits>>

(* The complete event is sent, with what the answer is estimated to cost. *)
Complete(q) ==
    /\ req[q].pc \in {"answer", "simulate"}
    /\ \E n \in Remainders :
          req' = [req EXCEPT ![q] = At([req[q] EXCEPT !.cost = n], "complete")]
    /\ UNCHANGED <<rows, convs, history, edits>>

(* Mutant of Finalize: the prompt is charged again with the answer. *)
FinalizeTotal(q) ==
    /\ req[q].pc = "complete"
    /\ IF convs[req[q].conv].state = "here" THEN Say(req[q].conv, <<"assistant", q>>)
                                            ELSE UNCHANGED convs
    /\ Charge(req[q], Prompt + req[q].cost)
    /\ Become(q, "stored")
    /\ UNCHANGED <<org, budgets, torn, history, edits>>

(* Mutant of Finalize: the list read with the prompt is written back. *)
FinalizeFromPrompt(q) ==
    /\ req[q].pc = "complete"
    /\ LET log == convs[req[q].conv].log
           own == {i \in DOMAIN log : log[i] = <<"user", q>>}
       IN IF convs[req[q].conv].state = "here" /\ own # {}
          THEN convs' = [convs EXCEPT ![req[q].conv].log =
                            Append(SubSeq(log, 1, Min(own)), <<"assistant", q>>)]
          ELSE UNCHANGED convs
    /\ Charge(req[q], req[q].cost)
    /\ Become(q, "stored")
    /\ UNCHANGED <<org, budgets, torn, history, edits>>

(* Mutant of Finalize: a conversation that is gone is made again. *)
FinalizeAnyway(q) ==
    /\ req[q].pc = "complete"
    /\ Say(req[q].conv, <<"assistant", q>>)
    /\ Charge(req[q], req[q].cost)
    /\ Become(q, "stored")
    /\ UNCHANGED <<org, budgets, torn, history, edits>>

(* In a session of its own: to the conversation as it is now, if it is. *)
Finalize(q) ==
    /\ req[q].pc = "complete"
    /\ IF convs[req[q].conv].state = "here" THEN Say(req[q].conv, <<"assistant", q>>)
                                            ELSE UNCHANGED convs
    /\ Charge(req[q], req[q].cost)
    /\ Become(q, "stored")
    /\ UNCHANGED <<org, budgets, torn, history, edits>>

(* An error is logged and rolled back; the client has its answer. *)
FinalizeFails(q) ==
    /\ req[q].pc = "complete"
    /\ Become(q, "unsaved")
    /\ UNCHANGED <<rows, convs, history, edits>>

(* The generator is closed, or cancelled, at one of its events. *)
Disconnect(q) ==
    /\ req[q].pc \in Running
    /\ Become(q, "gone")
    /\ UNCHANGED <<rows, convs, history, edits>>

-----------------------------------------------------------------------------
(* Conversations.                                                          *)

Administer == edits < MaxEdits /\ edits' = edits + 1

Prompts(log) == {q \in Request : \E i \in DOMAIN log : log[i] = <<"user", q>>}

CreateConversation(c) ==
    /\ Administer
    /\ convs[c].state = "none"
    /\ convs' = [convs EXCEPT ![c].state = "here"]
    /\ UNCHANGED <<rows, req, history>>

(* Its id stays with its clients: another prompt makes it again. *)
DeleteConversation(c) ==
    /\ Administer
    /\ convs[c].state = "here"
    /\ convs' = [convs EXCEPT ![c] = [state |-> "gone", log |-> <<>>]]
    /\ cut' = cut \cup Prompts(convs[c].log)
    /\ UNCHANGED <<rows, req, loose>>

(* edit_conversation: everything from a message on is dropped. *)
EditConversation(c, i) ==
    /\ Administer
    /\ convs[c].state = "here"
    /\ convs' = [convs EXCEPT ![c].log = SubSeq(@, 1, i - 1)]
    /\ cut' = cut \cup Prompts(SubSeq(convs[c].log, i, Len(convs[c].log)))
    /\ UNCHANGED <<rows, req, loose>>

-----------------------------------------------------------------------------
(* Users.                                                                  *)

(* _sync_user_instance_to_litellm: /user/new, or /user/update. *)
Synchronized(table, ok) ==
    /\ users' = [u \in User |-> IF u \in DOMAIN ok THEN [table[u] EXCEPT !.synced = ok[u]]
                                                   ELSE table[u]]
    /\ budgets' = [u \in User |-> IF u \in DOMAIN ok /\ ok[u] THEN table[u].limit ELSE budgets[u]]
    /\ torn' = torn \ DOMAIN ok

Sync(table, U) == \E ok \in [U -> BOOLEAN] : Synchronized(table, ok)

CreateUser(u, limit, t) ==
    /\ Administer
    /\ users[u].status = "unborn"
    /\ limit # 0  \* a missing or zero limit is the default
    /\ Sync([users EXCEPT ![u] = [@ EXCEPT !.status = "here", !.limit = limit, !.team = t,
                                           !.org = Is(org)]], {u})
    /\ UNCHANGED <<teams, org, convs, req, history>>

(* Mutant of UpdateUser: the proxy is told before the row is changed. *)
UpdateUserLate(u, row) ==
    /\ Administer
    /\ Is(users[u])
    /\ \E ok \in BOOLEAN :
          /\ users' = [users EXCEPT ![u] = [row EXCEPT !.synced = ok]]
          /\ budgets' = IF ok THEN [budgets EXCEPT ![u] = users[u].limit] ELSE budgets
    /\ torn' = torn \ {u}
    /\ loose' = loose \cup {u}
    /\ UNCHANGED <<teams, org, convs, req, cut>>

UpdateUser(u, row) ==
    /\ Administer
    /\ Is(users[u])
    /\ Sync([users EXCEPT ![u] = row], {u})
    /\ loose' = loose \cup {u}
    /\ UNCHANGED <<teams, org, convs, req, cut>>

(* What an update may make of a row: its limit, state or team. *)
Updates(u) == {[users[u] EXCEPT !.limit = n] : n \in Limits}
         \cup {[users[u] EXCEPT !.active = ~@]}
         \cup {[users[u] EXCEPT !.team = t] : t \in {NoTeam} \cup {t \in Team : Is(teams[t])}}

(* The proxy is asked first, but not heard. *)
DeleteUser(u) ==
    /\ Administer
    /\ Is(users[u])
    /\ users' = [users EXCEPT ![u].status = "gone"]
    /\ \E deleted \in BOOLEAN :
          budgets' = IF deleted THEN [budgets EXCEPT ![u] = NoBudget] ELSE budgets
    /\ UNCHANGED <<teams, org, torn, convs, req, history>>

(* sync_user_by_id for one user, reconcile_all_users_with_litellm for all. *)
SyncUsers(U) ==
    /\ Administer
    /\ U # {} /\ \A u \in U : Is(users[u])
    /\ Sync(users, U)
    /\ UNCHANGED <<teams, org, convs, req, history>>

-----------------------------------------------------------------------------
(* Teams and the organization; what the proxy says to them is not heard.    *)

CreateTeam(t, limit) ==
    /\ Administer
    /\ teams[t].status = "unborn" /\ Is(org)
    /\ limit # 0
    /\ teams' = [teams EXCEPT ![t] = [status |-> "here", limit |-> limit, used |-> 0]]
    /\ UNCHANGED <<users, org, budgets, torn, convs, req, history>>

UpdateTeam(t, limit) ==
    /\ Administer
    /\ Is(teams[t])
    /\ teams' = [teams EXCEPT ![t].limit = limit]
    /\ loose' = loose \cup {t}
    /\ UNCHANGED <<users, org, budgets, torn, convs, req, cut>>

(* The foreign keys of its members are set to NULL. *)
Leave(T, out) == users' = [u \in User |-> [users[u] EXCEPT
    !.team = IF @ \in T THEN NoTeam ELSE @, !.org = @ /\ ~out]]

DeleteTeam(t) ==
    /\ Administer
    /\ Is(teams[t])
    /\ teams' = [teams EXCEPT ![t].status = "gone"]
    /\ Leave({t}, FALSE)
    /\ UNCHANGED <<org, budgets, torn, convs, req, history>>

UpdateOrg(limit) ==
    /\ Administer
    /\ Is(org)
    /\ org' = [org EXCEPT !.limit = limit]
    /\ loose' = loose \cup {Org}
    /\ UNCHANGED <<users, teams, budgets, torn, convs, req, cut>>

DeleteOrg ==
    /\ Administer
    /\ Is(org)
    /\ org' = [org EXCEPT !.status = "gone"]
    /\ teams' = [t \in Team |-> IF Is(teams[t]) THEN [teams[t] EXCEPT !.status = "gone"]
                                                ELSE teams[t]]
    /\ Leave(Team, TRUE)
    /\ UNCHANGED <<budgets, torn, convs, req, history>>

-----------------------------------------------------------------------------
(* A restart takes the streams with it; it may come between the commit of   *)
(* an update and its synchronization.                                      *)

Restart ==
    /\ Administer
    /\ req' = [q \in Request |->
          IF req[q].pc = "auth" THEN At(req[q], "error")
          ELSE IF req[q].pc \in Running
               THEN At(req[q], "lost")
               ELSE req[q]]
    /\ \/ UNCHANGED <<users, torn, loose>>
       \/ \E u \in User : \E row \in Updates(u) :
             /\ Is(users[u])
             /\ users' = [users EXCEPT ![u] = row]
             /\ torn' = torn \cup {u}
             /\ loose' = loose \cup {u}
    /\ UNCHANGED <<teams, org, budgets, convs, cut>>

Init ==
    /\ org = [status |-> "here", limit |-> Max(Limits)]
    /\ \E n \in Limits, m \in Limits \ {0}, used \in Charged :
          /\ teams = [t \in Team |-> [status |-> IF t \in FirstTeams THEN "here" ELSE "unborn",
                                    limit |-> m, used |-> IF t \in FirstTeams THEN used ELSE 0]]
          /\ users = [u \in User |->
                [status |-> IF u \in FirstUsers THEN "here" ELSE "unborn", active |-> TRUE,
                 team |-> IF u \in FirstUsers THEN CHOOSE t \in FirstTeams : TRUE ELSE NoTeam,
                 org |-> u \in FirstUsers, limit |-> n,
                 used |-> IF u \in FirstUsers THEN used ELSE 0, synced |-> FALSE]]
    /\ budgets = [u \in User |-> NoBudget]
    /\ convs = [c \in Conv |-> [state |-> "none", log |-> <<>>]]
    /\ req = [q \in Request |-> Idle]
    /\ cut = {} /\ loose = {} /\ torn = {}
    /\ edits = 0

Progress(q) ==
    \/ Refuse(q) \/ Prepare(q) \/ PrepareFails(q) \/ Canned(q) \/ Route(q) \/ Search(q)
    \/ Choose(q) \/ HandlerFails(q) \/ Answer(q) \/ NextModel(q) \/ Complete(q)
    \/ Finalize(q) \/ FinalizeFails(q)

Edit ==
    \/ \E c \in Conv : \/ CreateConversation(c) \/ DeleteConversation(c)
                       \/ \E i \in DOMAIN convs[c].log : EditConversation(c, i)
    \/ \E u \in User : \/ \E n \in Limits, t \in Team : Is(teams[t]) /\ CreateUser(u, n, t)
                       \/ \E row \in Updates(u) : UpdateUser(u, row)
                       \/ DeleteUser(u)
    \/ \E U \in SUBSET User : SyncUsers(U)
    \/ \E t \in Team, n \in Limits : CreateTeam(t, n) \/ UpdateTeam(t, n)
    \/ \E t \in Team : DeleteTeam(t)
    \/ \E n \in Limits : UpdateOrg(n)
    \/ DeleteOrg
    \/ Restart

AllDone ==
    /\ \A q \in Request : req[q].pc \in Over \cup Refused \cup {"new"}
    /\ UNCHANGED vars

Next ==
    \/ \E q \in Request :
          \/ \E u \in User, c \in Conv, rag, canned \in BOOLEAN : Authenticate(q, u, c, rag, canned)
          \/ Progress(q) \/ Disconnect(q)
    \/ Edit
    \/ AllDone

Spec == Init /\ [][Next]_vars

-----------------------------------------------------------------------------
(* Properties.                                                             *)

TypeOK ==
    /\ \A u \in User : users[u].used \in Nat /\ users[u].limit \in Limits
                       /\ users[u].team \in Team \cup {NoTeam}
    /\ \A t \in Team : teams[t].used \in Nat /\ teams[t].limit \in Limits
    /\ \A c \in Conv : convs[c].log \in Seq(Message)
                       /\ (convs[c].state # "here" => convs[c].log = <<>>)
    /\ \A q \in Request :
          /\ req[q].pc \in {"new", "auth"} \cup Running \cup Refused \cup Over
          /\ req[q].pc = "ask" <=> req[q].target # ""
          /\ req[q].pc = "ask" => req[q].target \notin req[q].tried
          /\ req[q].pc = "search" => req[q].route = "rag"

(* What a request has cost so far: nothing if it was turned away, its       *)
(* prompt if it was accepted, its answer only if that was stored.          *)
Due(j) == IF j.pc \in {"new", "auth"} \cup Refused THEN 0
          ELSE IF j.pc = "stored" THEN Prompt + j.cost ELSE Prompt

(* The ledger: while its row exists, the used tokens of a user and of a     *)
(* team grow by exactly what is due for their requests, whatever streams,  *)
(* edits and failures interleave: no lost update and no double charge.      *)
Ledger ==
    [][/\ \A u \in User : Is(users[u]) /\ Is(users'[u]) =>
             users'[u].used = users[u].used +
                MapThenSumSet(LAMBDA q : IF req[q].user = u THEN Due(req'[q]) - Due(req[q])
                                         ELSE 0, Request)
       /\ \A t \in Team : Is(teams[t]) /\ Is(teams'[t]) =>
             teams'[t].used = teams[t].used +
                MapThenSumSet(LAMBDA q : IF req[q].team = t THEN Due(req'[q]) - Due(req[q])
                                         ELSE 0, Request)]_vars

(* The quotas are checked before the answer's cost is known, so they can be *)
(* overrun: but by one prompt and the answers then in flight, no more.      *)
Overrun == Prompt + Cardinality(Request) * Max(Remainders)

Within(used, limit, start) == used <= Max({limit - 1 + Overrun, limit, start})

QuotaHolds ==
    /\ \A u \in User \ loose : Is(users[u]) /\ users[u].limit # 0 =>
          Within(users[u].used, users[u].limit, Max(Charged))
    /\ \A t \in Team \ loose : Is(teams[t]) => Within(teams[t].used, teams[t].limit, Max(Charged))
    /\ Org \notin loose /\ Is(org) =>
          Within(OrgUsed, org.limit, Max(Charged) * Cardinality(FirstUsers))

(* Streams that end in one conversation lose none of its messages: only an  *)
(* edit or a deletion takes one away.                                      *)
KeptMessages ==
    [][\A c \in Conv : edits' = edits => IsPrefix(convs[c].log, convs'[c].log)]_vars

(* An answer stands behind its prompt, unless that has been edited away or  *)
(* its conversation deleted and made again while the answer was streaming. *)
Threaded ==
    \A c \in Conv : \A i \in DOMAIN convs[c].log : \A q \in Request \ cut :
        convs[c].log[i] = <<"assistant", q>> =>
            \E k \in 1..(i - 1) : convs[c].log[k] = <<"user", q>>

(* A deleted conversation comes back only with a prompt. *)
StaysDeleted ==
    [][\A c \in Conv : convs[c].state = "gone" /\ convs'[c].state = "here" =>
          Last(convs'[c].log)[1] = "user"]_vars

(* A user marked synchronized has its limit as budget in the proxy, unless  *)
(* the gateway died between the commit and the call.                       *)
SyncTrue ==
    \A u \in User \ torn : Is(users[u]) /\ users[u].synced => budgets[u] = users[u].limit

================================================================================
