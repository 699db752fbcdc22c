------------------------------ MODULE Chat_proofs ------------------------------
(***************************************************************************)
(* Proofs about Chat.                                                      *)
(***************************************************************************)
EXTENDS Chat, Collections

-----------------------------------------------------------------------------
(* The types of the rows, of the conversations and of the requests.        *)

Status == {"unborn", "here", "gone"}
UserRow == [status : Status, active : BOOLEAN, team : Team \cup {NoTeam}, org : BOOLEAN,
            limit : Limits, used : Nat, synced : BOOLEAN]
TeamRow == [status : Status, limit : Limits, used : Nat]
OrgRow == [status : Status, limit : Limits]
Thread == [state : {"none", "here", "gone"}, log : Seq(Message)]

Model == {"general-model", "coding-model", "reasoning-model", "rag-model"} \cup UNION (Live \cup Roles)
Steps == {"new", "auth"} \cup Running \cup Refused \cup Over
Local == [pc : Steps, user : User \cup {Org}, team : Team \cup {NoTeam}, org : BOOLEAN,
          conv : Conv \cup {Org}, rag : BOOLEAN, canned : BOOLEAN, route : RouteNames,
          target : Model \cup {""}, active : SUBSET Model, tried : SUBSET Model,
          cost : Nat]

(* What the locals of a request are at each of its steps. *)
Fits(j) ==
    /\ j \in Local
    /\ j.pc = "ask" <=> j.target # ""
    /\ j.pc = "ask" => j.target \notin j.tried
    /\ j.pc = "search" => j.route = "rag"
    /\ j.pc \in {"auth"} \cup Running => j.user \in User /\ j.conv \in Conv
    /\ j.pc \in {"auth", "stream", "search", "choose"} => j.tried = {}
    /\ j.cost <= Max(Remainders)

RowsTyped ==
    /\ users \in [User -> UserRow] /\ teams \in [Team -> TeamRow]
    /\ org \in OrgRow /\ budgets \in [User -> Nat]
    /\ edits \in Nat
    /\ \A u \in User : users[u].status = "unborn" => users[u].used = 0 /\ ~users[u].org
    /\ \A t \in Team : teams[t].status = "unborn" => teams[t].used = 0

ThreadsTyped ==
    /\ convs \in [Conv -> Thread]
    /\ \A c \in Conv : convs[c].state # "here" => convs[c].log = <<>>

LocalsTyped == req \in [Request -> Local] /\ \A q \in Request : Fits(req[q])

(* Whom a request is for; what it is counted in. *)
Joined ==
    \A q \in Request : req[q].pc \in {"auth"} \cup Running =>
        /\ users[req[q].user].status # "unborn"
        /\ req[q].pc = "auth" /\ Is(org) /\ Is(users[req[q].user]) =>
              req[q].org = users[req[q].user].org

TypeInv == RowsTyped /\ ThreadsTyped /\ LocalsTyped /\ Joined

(* The prompt of a request that is still answered. *)
ThreadInv ==
    /\ Threaded
    /\ \A q \in Request \ cut : req[q].pc \in Running =>
          \E k \in DOMAIN convs[req[q].conv].log : convs[req[q].conv].log[k] = <<"user", q>>

(* Used tokens below the limit when a prompt was accepted, then one prompt, *)
(* and an answer for each request that stored one.                         *)
Stored == {q \in Request : req[q].pc = "stored"}
Allowance(limit) == limit - 1 + Prompt + Max(Remainders) * Cardinality(Stored)

Charging == {q \in Request : req[q].pc \in Running}
Member(u) == Is(users[u]) /\ users[u].org

UserQuota(u) ==
    Is(users[u]) /\ users[u].limit # 0 =>
        \/ users[u].used <= Allowance(users[u].limit)
        \/ users[u].used <= Max(Charged) /\ \A q \in Charging : req[q].user # u
TeamQuota(t) ==
    Is(teams[t]) =>
        \/ teams[t].used <= Allowance(teams[t].limit)
        \/ teams[t].used <= Max(Charged) /\ \A q \in Charging : req[q].team # t
OrgQuota ==
    Is(org) =>
        \/ OrgUsed <= Allowance(org.limit)
        \/ /\ OrgUsed <= Max(Charged) * Cardinality(FirstUsers)
           /\ \A q \in Charging : ~Member(req[q].user)

QuotaInv ==
    /\ \A u \in User \ loose : UserQuota(u)
    /\ \A t \in Team \ loose : TeamQuota(t)
    /\ Org \notin loose => OrgQuota

-----------------------------------------------------------------------------
(* The constants, and the locals of a request.                             *)

LEMMA Numbers ==
  /\ Max(Limits) \in Limits /\ Limits \subseteq Nat /\ \A n \in Limits : n <= Max(Limits)
  /\ Max(Charged) \in Nat /\ \A n \in Charged : n <= Max(Charged)
  /\ Max(Remainders) \in Nat /\ \A n \in Remainders : n \in Nat /\ n <= Max(Remainders)
  /\ Prompt \in Nat /\ Prompt > 0 /\ NoBudget \in Nat
<1>1. \A S : S \subseteq Nat => S \subseteq Int
  OBVIOUS
<1>2. \A S \in {Limits, Charged, Remainders} : Max(S) \in S /\ \A n \in S : n <= Max(S)
  BY <1>1, ChatAssumption, LargestExists
<1>3. \A S \in {Limits, Charged, Remainders} : S \subseteq Nat
  BY ChatAssumption
<1>4. Prompt \in Nat /\ Prompt # 0
  BY ChatAssumption
<1>5. Prompt > 0
  BY <1>4
<1>6. /\ Limits \subseteq Nat /\ Max(Limits) \in Limits /\ \A n \in Limits : n <= Max(Limits)
      /\ Charged \subseteq Nat /\ Max(Charged) \in Charged /\ \A n \in Charged : n <= Max(Charged)
      /\ Remainders \subseteq Nat /\ Max(Remainders) \in Remainders
      /\ \A n \in Remainders : n <= Max(Remainders)
  BY <1>2, <1>3
<1>7. NoBudget \in Nat
  <2>1. Max(Limits) \in Nat
    BY <1>6
  <2>. QED  BY <2>1 DEF NoBudget
<1>. QED  BY <1>4, <1>5, <1>6, <1>7

LEMMA ModelFacts ==
  /\ "" \notin Model
  /\ \A S \in Live \cup Roles : S \subseteq Model
  /\ Range(Standard) \subseteq Model
  /\ \A r \in RouteNames : Preferred[r] \in Model
<1>1. Range(Standard) = {"general-model", "coding-model", "reasoning-model"}
  <2>1. Range(Standard) = {Standard[1], Standard[2], Standard[3]}
    BY DEF Range, Standard
  <2>. QED  BY <2>1 DEF Standard
<1>2. "" \notin Model /\ \A S \in Live \cup Roles : S \subseteq Model
  BY ChatAssumption DEF Model
<1>3. Range(Standard) \subseteq Model
  BY <1>1 DEF Model
<1>4. ASSUME NEW r \in RouteNames PROVE Preferred[r] \in Model
  <2>1. r = "general" \/ r = "coding" \/ r = "reasoning" \/ r = "rag"
    BY DEF RouteNames
  <2>. QED  BY <2>1 DEF Preferred, Model
<1>. QED  BY <1>2, <1>3, <1>4

LEMMA FirstStandardIn ==
  ASSUME NEW S, S \cap Range(Standard) # {}
  PROVE  FirstStandard(S) \in S
<1>. DEFINE I == {i \in DOMAIN Standard : Standard[i] \in S}
<1>1. DOMAIN Standard = 1 .. 3
  BY DEF Standard
<1>2. I # {} /\ I \subseteq Int /\ I \subseteq 1 .. 3
  BY <1>1 DEF Range
<1>3. \E i \in I : \A k \in I : i <= k
  <2>1. CASE 1 \in I
    BY <2>1, <1>2
  <2>2. CASE 1 \notin I /\ 2 \in I
    BY <2>2, <1>2
  <2>3. CASE 1 \notin I /\ 2 \notin I
    BY <2>3, <1>2
  <2>. QED  BY <2>1, <2>2, <2>3
<1>4. Min(I) \in I
  BY <1>3 DEF Min
<1>. QED  BY <1>4 DEF FirstStandard

LEMMA TargetIn ==
  ASSUME NEW r \in RouteNames, NEW live \in Live, NEW roles \in Roles,
         NEW m \in Targets(r, live, live \cup roles)
  PROVE  m \in Model
<1>1. live \cup roles \subseteq Model /\ live \subseteq Model
  BY ModelFacts
<1>2. (live \cup roles) \cap Range(Standard) # {} => FirstStandard(live \cup roles) \in Model
  BY <1>1, FirstStandardIn
<1>3. "general-model" \in Model
  BY DEF Model
<1>. QED  BY <1>1, <1>2, <1>3, ModelFacts DEF Targets

LEMMA IdleFits == Idle \in Local /\ Fits(Idle)
<1>1. Idle \in Local
  BY DEF Idle, Local, Steps, RouteNames
<1>2. Max(Remainders) \in Nat
  BY Numbers
<1>3. /\ Idle.pc = "new" /\ Idle.target = "" /\ Idle.cost = 0
  BY DEF Idle
<1>4. "new" \notin {"auth"} \cup Running /\ 0 <= Max(Remainders)
  BY <1>2 DEF Running
<1>. QED  BY <1>1, <1>3, <1>4 DEF Fits

LEMMA AtFits ==
  ASSUME NEW j, Fits(j), NEW step \in Steps \ {"ask", "search", "auth"},
         step \in Running => j.pc \in {"auth"} \cup Running
  PROVE  /\ Fits(At(j, step)) /\ At(j, step) \in Local
         /\ At(j, step).pc = step /\ At(j, step).cost = j.cost
         /\ step \in Running => /\ At(j, step).user = j.user /\ At(j, step).team = j.team
                                /\ At(j, step).conv = j.conv
<1>1. j \in Local /\ Idle \in Local
  BY IdleFits DEF Fits
<1>2. CASE step \in Running
  <2>1. At(j, step) = [Idle EXCEPT !.pc = step, !.user = j.user, !.team = j.team,
                          !.conv = j.conv, !.canned = j.canned, !.rag = j.rag, !.cost = j.cost]
    BY <1>2 DEF At
  <2>2. At(j, step) \in Local
    BY <1>1, <2>1 DEF Local
  <2>3. /\ At(j, step).pc = step /\ At(j, step).target = "" /\ At(j, step).tried = {}
        /\ At(j, step).user = j.user /\ At(j, step).team = j.team /\ At(j, step).conv = j.conv
        /\ At(j, step).cost = j.cost
    BY <2>1 DEF Idle
  <2>. QED  BY <1>2, <2>2, <2>3 DEF Fits
<1>3. CASE step \notin Running
  <2>1. At(j, step) = [Idle EXCEPT !.pc = step, !.cost = j.cost]
    BY <1>3 DEF At
  <2>2. At(j, step) \in Local
    BY <1>1, <2>1 DEF Local
  <2>3. /\ At(j, step).pc = step /\ At(j, step).target = "" /\ At(j, step).tried = {}
        /\ At(j, step).cost = j.cost
    BY <2>1 DEF Idle
  <2>. QED  BY <1>3, <2>2, <2>3 DEF Fits
<1>. QED  BY <1>2, <1>3

-----------------------------------------------------------------------------
(* The steps of a request that change nothing but its locals.              *)

Quiet(q, j) ==
    /\ req' = [req EXCEPT ![q] = j]
    /\ Fits(j) /\ Due(j) = Due(req[q])
    /\ req[q].pc # "stored" /\ j.pc # "stored"
    /\ j.pc \in Running => /\ req[q].pc \in Running /\ j.user = req[q].user
                           /\ j.team = req[q].team /\ j.conv = req[q].conv
    /\ j.pc = "auth" => Is(users[j.user]) /\ j.org = users[j.user].org
    /\ UNCHANGED <<rows, convs, history, edits>>

Pending == {"auth"} \cup Running

LEMMA BecomeQuiet ==
  ASSUME LocalsTyped, NEW q \in Request, NEW step, Become(q, step),
         UNCHANGED <<rows, convs, history, edits>>,
         \/ req[q].pc = "auth" /\ step \in Refused
         \/ req[q].pc \in Running /\ step \in {"complete", "failed", "answer", "unsaved", "gone"}
  PROVE  Quiet(q, At(req[q], step))
<1>. DEFINE j == At(req[q], step)
<1>1. Fits(req[q]) /\ step \in Steps \ {"ask", "search", "auth"}
  BY DEF LocalsTyped, Steps, Refused, Running, Over
<1>2. step \in Running => req[q].pc \in Running
  BY DEF Running, Refused
<1>3. /\ Fits(j) /\ j.pc = step /\ j.cost = req[q].cost
      /\ step \in Running => j.user = req[q].user /\ j.team = req[q].team
                             /\ j.conv = req[q].conv
  BY <1>1, <1>2, AtFits
<1>4. req' = [req EXCEPT ![q] = j]
  BY DEF Become
<1>5. Due(j) = Due(req[q])
  BY <1>3 DEF Due, Running, Refused
<1>6. req[q].pc # "stored" /\ step # "stored" /\ step # "auth"
  BY DEF Refused, Running
<1>7. j.pc # "auth" /\ j.pc # "stored" /\ (j.pc \in Running => req[q].pc \in Running)
  BY <1>2, <1>3, <1>6
<1>8. j.pc \in Running => j.user = req[q].user /\ j.team = req[q].team /\ j.conv = req[q].conv
  BY <1>3
<1>. QED  BY <1>3, <1>4, <1>5, <1>6, <1>7, <1>8 DEF Quiet

LEMMA QuietSteps ==
  ASSUME LocalsTyped, RowsTyped, NEW q \in Request,
         \/ \E u \in User, c \in Conv, rag, canned \in BOOLEAN : Authenticate(q, u, c, rag, canned)
         \/ Refuse(q) \/ Canned(q) \/ Route(q) \/ Search(q) \/ Choose(q) \/ HandlerFails(q)
         \/ Answer(q) \/ NextModel(q) \/ Complete(q) \/ FinalizeFails(q) \/ Disconnect(q)
  PROVE  \E j \in Local : Quiet(q, j)
<1>1. Fits(req[q]) /\ req[q] \in Local
  BY DEF LocalsTyped, Fits
<1>2. ASSUME NEW step, Quiet(q, At(req[q], step))
      PROVE  \E j \in Local : Quiet(q, j)
  BY <1>2 DEF Quiet, Fits
<1>3. CASE Refuse(q)
  BY <1>3, <1>2, BecomeQuiet DEF Refuse, Refused
<1>4. CASE Canned(q)
  BY <1>4, <1>2, BecomeQuiet DEF Canned, Running
<1>5. CASE HandlerFails(q)
  BY <1>5, <1>2, BecomeQuiet DEF HandlerFails, Running
<1>6. CASE Answer(q)
  BY <1>6, <1>2, BecomeQuiet DEF Answer, Running
<1>7. CASE FinalizeFails(q)
  BY <1>7, <1>2, BecomeQuiet DEF FinalizeFails, Running
<1>8. CASE Disconnect(q)
  BY <1>8, <1>2, BecomeQuiet DEF Disconnect
<1>9. CASE \E u \in User, c \in Conv, rag, canned \in BOOLEAN : Authenticate(q, u, c, rag, canned)
  <2>1. PICK u \in User, c \in Conv, rag \in BOOLEAN, canned \in BOOLEAN :
          Authenticate(q, u, c, rag, canned)
    BY <1>9
  <2>. DEFINE j == [Idle EXCEPT !.pc = "auth", !.user = u, !.team = users[u].team,
                      !.org = users[u].org, !.conv = c, !.rag = rag, !.canned = canned]
  <2>2. users[u] \in UserRow
    BY DEF RowsTyped
  <2>3. j \in Local
    BY <2>2, IdleFits DEF Local, UserRow, Steps
  <2>4. /\ j.pc = "auth" /\ j.user = u /\ j.conv = c /\ j.org = users[u].org
        /\ j.target = "" /\ j.tried = {} /\ j.cost = 0
    BY DEF Idle
  <2>5. req' = [req EXCEPT ![q] = j] /\ req[q].pc = "new" /\ Is(users[u])
        /\ UNCHANGED <<rows, convs, history, edits>>
    BY <2>1 DEF Authenticate
  <2>. HIDE DEF j
  <2>6. Fits(j)
    <3>1. 0 <= Max(Remainders)
      BY Numbers
    <3>. QED  BY <3>1, <2>3, <2>4 DEF Fits
  <2>7. Due(j) = Due(req[q])
    BY <2>4, <2>5 DEF Due
  <2>. QED  BY <2>3, <2>4, <2>5, <2>6, <2>7 DEF Quiet, Running
<1>10. CASE Route(q)
  <2>1. PICK r \in Classified(req[q].rag) :
          req' = [req EXCEPT ![q].route = r, ![q].rag = FALSE,
                             ![q].pc = IF r = "rag" THEN "search" ELSE "choose"]
    BY <1>10 DEF Route
  <2>2. r \in RouteNames
    BY DEF Classified, RouteNames
  <2>. DEFINE j == [req[q] EXCEPT !.route = r, !.rag = FALSE,
                                  !.pc = IF r = "rag" THEN "search" ELSE "choose"]
  <2>3. req' = [req EXCEPT ![q] = j]
    BY <2>1 DEF LocalsTyped
  <2>4. req[q].pc = "stream" /\ UNCHANGED <<rows, convs, history, edits>>
    BY <1>10 DEF Route
  <2>5. j \in Local
    <3>1. (IF r = "rag" THEN "search" ELSE "choose") \in Steps
      BY DEF Steps, Running
    <3>. QED  BY <1>1, <2>2, <3>1 DEF Local
  <2>6. /\ j.pc = IF r = "rag" THEN "search" ELSE "choose"
        /\ j.route = r /\ j.target = req[q].target /\ j.tried = req[q].tried
        /\ j.user = req[q].user /\ j.conv = req[q].conv /\ j.cost = req[q].cost
        /\ j.team = req[q].team
    BY <1>1 DEF Local
  <2>. HIDE DEF j
  <2>7. Fits(j)
    BY <1>1, <2>4, <2>5, <2>6 DEF Fits, Running
  <2>8. Due(j) = Due(req[q])
    BY <2>4, <2>6 DEF Due, Refused
  <2>. QED  BY <2>3, <2>4, <2>5, <2>6, <2>7, <2>8 DEF Quiet, Running
<1>11. CASE Search(q)
  <2>. DEFINE j == [req[q] EXCEPT !.pc = "choose"]
  <2>3. req' = [req EXCEPT ![q] = j]
    BY <1>11 DEF LocalsTyped, Search
  <2>4. req[q].pc = "search" /\ UNCHANGED <<rows, convs, history, edits>>
    BY <1>11 DEF Search
  <2>5. j \in Local
    BY <1>1 DEF Local, Steps, Running
  <2>6. /\ j.pc = "choose"
        /\ j.target = req[q].target /\ j.tried = req[q].tried
        /\ j.user = req[q].user /\ j.conv = req[q].conv /\ j.cost = req[q].cost
        /\ j.team = req[q].team
    BY <1>1 DEF Local
  <2>. HIDE DEF j
  <2>7. Fits(j)
    BY <1>1, <2>4, <2>5, <2>6 DEF Fits, Running
  <2>8. Due(j) = Due(req[q])
    BY <2>4, <2>6 DEF Due, Refused
  <2>. QED  BY <2>3, <2>4, <2>5, <2>6, <2>7, <2>8 DEF Quiet, Running
<1>12. CASE Choose(q)
  <2>1. PICK live \in Live, roles \in Roles :
          \E m \in Targets(req[q].route, live, live \cup roles) :
            req' = [req EXCEPT ![q].pc = "ask", ![q].target = m, ![q].active = live \cup roles,
                               ![q].route = "general"]
    BY <1>12 DEF Choose
  <2>2. PICK m \in Targets(req[q].route, live, live \cup roles) :
            req' = [req EXCEPT ![q].pc = "ask", ![q].target = m, ![q].active = live \cup roles,
                               ![q].route = "general"]
    BY <2>1
  <2>. DEFINE j == [req[q] EXCEPT !.pc = "ask", !.target = m, !.active = live \cup roles,
                                  !.route = "general"]
  <2>3. req' = [req EXCEPT ![q] = j]
    BY <2>2 DEF LocalsTyped
  <2>4. req[q].pc = "choose" /\ UNCHANGED <<rows, convs, history, edits>>
    BY <1>12 DEF Choose
  <2>9. req[q].route \in RouteNames
    BY <1>1 DEF Local
  <2>10. m \in Model /\ m # ""
    BY <2>9, TargetIn, ModelFacts
  <2>11. live \cup roles \subseteq Model
    BY ModelFacts
  <2>5. j \in Local
    BY <1>1, <2>10, <2>11 DEF Local, Steps, Running, RouteNames
  <2>6. /\ j.pc = "ask" /\ j.target = m /\ j.tried = req[q].tried
        /\ j.user = req[q].user /\ j.conv = req[q].conv /\ j.cost = req[q].cost
        /\ j.team = req[q].team
    BY <1>1 DEF Local
  <2>. HIDE DEF j
  <2>7. Fits(j)
    BY <1>1, <2>4, <2>5, <2>6, <2>10 DEF Fits, Running
  <2>8. Due(j) = Due(req[q])
    BY <2>4, <2>6 DEF Due, Refused
  <2>. QED  BY <2>3, <2>4, <2>5, <2>6, <2>7, <2>8 DEF Quiet, Running
<1>13. CASE NextModel(q)
  <2>. DEFINE tried == req[q].tried \cup {req[q].target}
              pool == (req[q].active \cup Range(Standard)) \ tried
  <2>1. /\ req[q].pc = "ask" /\ UNCHANGED <<rows, convs, history, edits>>
        /\ IF pool = {}
           THEN req' = [req EXCEPT ![q].tried = tried, ![q].pc = "simulate", ![q].target = ""]
           ELSE \E m \in IF pool \cap Range(Standard) # {} THEN {FirstStandard(pool)} ELSE pool :
                   req' = [req EXCEPT ![q].tried = tried, ![q].target = m]
    BY <1>13 DEF NextModel
  <2>2. tried \subseteq Model /\ pool \subseteq Model
    <3>1. req[q].target # "" /\ req[q].target \in Model
      BY <1>1, <2>1 DEF Fits, Local
    <3>2. req[q].tried \subseteq Model /\ req[q].active \subseteq Model
      BY <1>1 DEF Local
    <3>. QED  BY <3>1, <3>2, ModelFacts
  <2>3. CASE pool = {}
    <3>. DEFINE j == [req[q] EXCEPT !.tried = tried, !.pc = "simulate", !.target = ""]
    <3>1. req' = [req EXCEPT ![q] = j]
      <4>. HIDE DEF tried, pool
      <4>. QED  BY <2>1, <2>3 DEF LocalsTyped
    <3>5. j \in Local
      <4>. HIDE DEF tried, pool
      <4>. QED  BY <1>1, <2>2 DEF Local, Steps, Running
    <3>6. /\ j.pc = "simulate" /\ j.target = ""
          /\ j.user = req[q].user /\ j.conv = req[q].conv /\ j.cost = req[q].cost
          /\ j.team = req[q].team
      BY <1>1 DEF Local
    <3>. HIDE DEF j
    <3>7. Fits(j)
      BY <1>1, <2>1, <3>5, <3>6 DEF Fits, Running
    <3>8. Due(j) = Due(req[q])
      BY <2>1, <3>6 DEF Due, Refused
    <3>. QED  BY <2>1, <3>1, <3>5, <3>6, <3>7, <3>8 DEF Quiet, Running
  <2>4. CASE pool # {}
    <3>1. PICK m \in IF pool \cap Range(Standard) # {} THEN {FirstStandard(pool)} ELSE pool :
             req' = [req EXCEPT ![q].tried = tried, ![q].target = m]
      BY <2>1, <2>4
    <3>2. m \in pool
      BY <3>1, FirstStandardIn
    <3>3. m \in Model /\ m # "" /\ m \notin tried
      BY <3>2, <2>2, ModelFacts
    <3>. DEFINE j == [req[q] EXCEPT !.tried = tried, !.target = m]
    <3>4. req' = [req EXCEPT ![q] = j]
      <4>. HIDE DEF tried, pool
      <4>. QED  BY <3>1 DEF LocalsTyped
    <3>5. j \in Local
      <4>. HIDE DEF tried, pool
      <4>. QED  BY <1>1, <2>2, <3>3 DEF Local
    <3>6. /\ j.pc = "ask" /\ j.target = m /\ j.tried = tried
          /\ j.user = req[q].user /\ j.conv = req[q].conv /\ j.cost = req[q].cost
          /\ j.team = req[q].team
      BY <1>1, <2>1 DEF Local
    <3>. HIDE DEF j, tried, pool
    <3>7. Fits(j)
      BY <1>1, <2>1, <3>3, <3>5, <3>6 DEF Fits, Running
    <3>8. Due(j) = Due(req[q])
      BY <2>1, <3>6 DEF Due, Refused
    <3>. QED  BY <2>1, <3>4, <3>5, <3>6, <3>7, <3>8 DEF Quiet, Running
  <2>. QED  BY <2>3, <2>4
<1>14. CASE Complete(q)
  <2>1. PICK n \in Remainders : req' = [req EXCEPT ![q] = At([req[q] EXCEPT !.cost = n], "complete")]
    BY <1>14 DEF Complete
  <2>2. req[q].pc \in {"answer", "simulate"} /\ UNCHANGED <<rows, convs, history, edits>>
    BY <1>14 DEF Complete
  <2>. DEFINE i == [req[q] EXCEPT !.cost = n]
              j == At(i, "complete")
  <2>3. i \in Local
    BY <1>1, Numbers DEF Local
  <2>4. /\ i.pc = req[q].pc /\ i.target = req[q].target /\ i.tried = req[q].tried
        /\ i.user = req[q].user /\ i.conv = req[q].conv /\ i.cost = n
        /\ i.team = req[q].team /\ i.route = req[q].route
    BY <1>1 DEF Local
  <2>. HIDE DEF i
  <2>5. Fits(i)
    BY <1>1, <2>3, <2>4, Numbers DEF Fits
  <2>6. i.pc \in Running /\ req[q].pc \in Running
    BY <2>2, <2>4 DEF Running
  <2>7. /\ Fits(j) /\ j \in Local /\ j.pc = "complete" /\ j.user = i.user /\ j.team = i.team
        /\ j.conv = i.conv
    BY <2>5, <2>6, AtFits DEF Steps, Running
  <2>8. req' = [req EXCEPT ![q] = j]
    BY <2>1 DEF i
  <2>. HIDE DEF j
  <2>9. Due(j) = Due(req[q])
    BY <2>2, <2>7 DEF Due, Refused
  <2>. QED  BY <2>2, <2>4, <2>6, <2>7, <2>8, <2>9 DEF Quiet
<1>. QED  BY <1>3, <1>4, <1>5, <1>6, <1>7, <1>8, <1>9, <1>10, <1>11, <1>12, <1>13, <1>14

-----------------------------------------------------------------------------
(* The requests that change rows: what of a row outlives them.             *)

UserKept(u) ==
    /\ users'[u].used = users[u].used
    /\ users'[u].status = "unborn" => users[u].status = "unborn"
    /\ Is(users'[u]) =>
          \/ /\ Is(users[u])
             /\ users'[u].limit = users[u].limit \/ u \in loose'
             /\ users'[u].org = users[u].org \/ ~Is(org')
          \/ users[u].status = "unborn" /\ users'[u].limit # 0

TeamKept(t) ==
    /\ teams'[t].used = teams[t].used
    /\ Is(teams'[t]) =>
          \/ Is(teams[t]) /\ (teams'[t].limit = teams[t].limit \/ t \in loose')
          \/ teams[t].status = "unborn" /\ teams'[t].limit # 0

OrgKept == Is(org') => Is(org) /\ (org'.limit = org.limit \/ Org \in loose')

LocalKept(q) ==
    /\ Due(req'[q]) = Due(req[q])
    /\ req'[q].pc = "stored" <=> req[q].pc = "stored"
    /\ req'[q].pc \in Pending => req'[q] = req[q]

RowEdit ==
    /\ RowsTyped' /\ LocalsTyped'
    /\ (SyncTrue => SyncTrue')
    /\ edits' = edits + 1 /\ loose \subseteq loose' /\ UNCHANGED <<convs, cut>>
    /\ \A u \in User : UserKept(u)
    /\ \A t \in Team : TeamKept(t)
    /\ OrgKept
    /\ \A q \in Request : LocalKept(q)

(* What is left of an edit when the requests, or some tables, are as before. *)
LEMMA LocalsLast ==
  ASSUME LocalsTyped, req' = req
  PROVE  LocalsTyped' /\ \A q \in Request : LocalKept(q)
<1>1. LocalsTyped'
  BY DEF LocalsTyped, Fits
<1>2. ASSUME NEW q \in Request PROVE LocalKept(q)
  BY DEF LocalKept, Due
<1>. QED  BY <1>1, <1>2

LEMMA UsersLast ==
  ASSUME users' = users, org' = org \/ ~Is(org')
  PROVE  \A u \in User : UserKept(u)
  BY DEF UserKept, Is

LEMMA TeamsLast ==
  ASSUME teams' = teams
  PROVE  \A t \in Team : TeamKept(t)
  BY DEF TeamKept, Is

LEMMA OrgLasts ==
  ASSUME org' = org
  PROVE  OrgKept
  BY DEF OrgKept, Is

LEMMA SyncLasts ==
  ASSUME budgets' = budgets, torn \subseteq torn',
         \A u \in User : Is(users'[u]) =>
            Is(users[u]) /\ users'[u].limit = users[u].limit /\ users'[u].synced = users[u].synced
  PROVE  SyncTrue => SyncTrue'
  BY DEF SyncTrue

LEMMA Synced ==
  ASSUME RowsTyped, NEW table \in [User -> UserRow], NEW U \in SUBSET User, Sync(table, U),
         \A u \in User \ U : table[u] = users[u]
  PROVE  /\ users' \in [User -> UserRow] /\ budgets' \in [User -> Nat]
         /\ \A u \in User : /\ users'[u].status = table[u].status
                            /\ users'[u].org = table[u].org
                            /\ users'[u].limit = table[u].limit
                            /\ users'[u].used = table[u].used
         /\ SyncTrue => SyncTrue'
<1>1. PICK ok \in [U -> BOOLEAN] : Synchronized(table, ok)
  BY DEF Sync
<1>2. DOMAIN ok = U /\ \A u \in U : ok[u] \in BOOLEAN
  OBVIOUS
<1>3. /\ users' = [u \in User |-> IF u \in U THEN [table[u] EXCEPT !.synced = ok[u]]
                                             ELSE table[u]]
      /\ budgets' = [u \in User |-> IF u \in U /\ ok[u] THEN table[u].limit ELSE budgets[u]]
      /\ torn' = torn \ U
  BY <1>1, <1>2 DEF Synchronized
<1>4. \A u \in User : table[u] \in UserRow /\ table[u].limit \in Nat /\ budgets[u] \in Nat
  BY Numbers DEF RowsTyped, UserRow
<1>5. \A u \in User : users'[u] = IF u \in U THEN [table[u] EXCEPT !.synced = ok[u]]
                                             ELSE table[u]
  BY <1>3
<1>6. ASSUME NEW u \in User PROVE users'[u] \in UserRow
  <2>1. \A b \in BOOLEAN : [table[u] EXCEPT !.synced = b] \in UserRow
    BY <1>4 DEF UserRow
  <2>. QED  BY <2>1, <1>2, <1>4, <1>5
<1>7. users' \in [User -> UserRow]
  BY <1>3, <1>6
<1>8. budgets' \in [User -> Nat]
  BY <1>3, <1>4
<1>9. \A u \in User : /\ users'[u].status = table[u].status
                      /\ users'[u].org = table[u].org
                      /\ users'[u].limit = table[u].limit
                      /\ users'[u].used = table[u].used
                      /\ users'[u].synced = IF u \in U THEN ok[u] ELSE table[u].synced
  BY <1>4, <1>5 DEF UserRow
<1>10. ASSUME SyncTrue, NEW u \in User \ torn', Is(users'[u]), users'[u].synced
       PROVE  budgets'[u] = users'[u].limit
  <2>1. CASE u \in U
    <3>1. ok[u]
      BY <2>1, <1>9, <1>10
    <3>. QED  BY <2>1, <3>1, <1>3, <1>9
  <2>2. CASE u \notin U
    <3>1. u \notin torn /\ Is(users[u]) /\ users[u].synced
      BY <2>2, <1>3, <1>5, <1>10
    <3>2. budgets[u] = users[u].limit
      BY <3>1, <1>10 DEF SyncTrue
    <3>. QED  BY <2>2, <3>2, <1>3, <1>9
  <2>. QED  BY <2>1, <2>2
<1>11. SyncTrue => SyncTrue'
  BY <1>10 DEF SyncTrue
<1>. QED  BY <1>7, <1>8, <1>9, <1>11

LEMMA UpdateRow ==
  ASSUME RowsTyped, NEW u \in User, Is(users[u]), NEW row \in Updates(u)
  PROVE  /\ row \in UserRow /\ Is(row)
         /\ row.used = users[u].used /\ row.org = users[u].org
<1>1. users[u] \in UserRow
  BY DEF RowsTyped
<1>2. CASE \E n \in Limits : row = [users[u] EXCEPT !.limit = n]
  BY <1>1, <1>2 DEF UserRow, Is
<1>3. CASE row = [users[u] EXCEPT !.active = ~users[u].active]
  BY <1>1, <1>3 DEF UserRow, Is
<1>4. CASE \E t \in Team \cup {NoTeam} : row = [users[u] EXCEPT !.team = t]
  BY <1>1, <1>4 DEF UserRow, Is
<1>. QED  BY <1>2, <1>3, <1>4 DEF Updates

LEMMA CreateUserEdits ==
  ASSUME RowsTyped, LocalsTyped, NEW u \in User, NEW n \in Limits, NEW t \in Team,
         CreateUser(u, n, t)
  PROVE  RowEdit
<1>. DEFINE row == [users[u] EXCEPT !.status = "here", !.limit = n, !.team = t, !.org = Is(org)]
            table == [users EXCEPT ![u] = row]
<1>1. /\ users[u].status = "unborn" /\ n # 0 /\ Sync(table, {u})
      /\ edits' = edits + 1 /\ UNCHANGED <<teams, org, convs, req, history>>
  BY DEF CreateUser, Administer
<1>2. users[u] \in UserRow /\ Is(org) \in BOOLEAN
  BY DEF RowsTyped, Is
<1>3. /\ row \in UserRow /\ row.status = "here" /\ row.limit = n /\ row.used = users[u].used
  BY <1>2 DEF UserRow, Status
<1>4. /\ table \in [User -> UserRow] /\ table[u] = row
      /\ \A v \in User : v # u => table[v] = users[v]
  <2>. HIDE DEF row
  <2>. QED  BY <1>3 DEF RowsTyped
<1>. HIDE DEF table
<1>5. /\ users' \in [User -> UserRow] /\ budgets' \in [User -> Nat]
      /\ \A v \in User : /\ users'[v].status = table[v].status
                         /\ users'[v].org = table[v].org
                         /\ users'[v].limit = table[v].limit
                         /\ users'[v].used = table[v].used
      /\ SyncTrue => SyncTrue'
  BY <1>1, <1>4, Synced
<1>. HIDE DEF row
<1>6. \A v \in User : UserKept(v)
  BY <1>1, <1>3, <1>4, <1>5 DEF UserKept, Is
<1>7. RowsTyped'
  BY <1>1, <1>3, <1>4, <1>5 DEF RowsTyped, Is
<1>. QED  BY <1>1, <1>5, <1>6, <1>7, LocalsLast, TeamsLast, OrgLasts DEF RowEdit, history

LEMMA UpdateUserEdits ==
  ASSUME RowsTyped, LocalsTyped, NEW u \in User, NEW row \in Updates(u), UpdateUser(u, row)
  PROVE  RowEdit
<1>. DEFINE table == [users EXCEPT ![u] = row]
<1>1. /\ Is(users[u]) /\ Sync(table, {u}) /\ loose' = loose \cup {u}
      /\ edits' = edits + 1 /\ UNCHANGED <<teams, org, convs, req, cut>>
  BY DEF UpdateUser, Administer
<1>3. /\ row \in UserRow /\ Is(row) /\ row.used = users[u].used /\ row.org = users[u].org
  BY <1>1, UpdateRow
<1>4. /\ table \in [User -> UserRow] /\ table[u] = row
      /\ \A v \in User : v # u => table[v] = users[v]
  BY <1>3 DEF RowsTyped
<1>. HIDE DEF table
<1>5. /\ users' \in [User -> UserRow] /\ budgets' \in [User -> Nat]
      /\ \A v \in User : /\ users'[v].status = table[v].status
                         /\ users'[v].org = table[v].org
                         /\ users'[v].limit = table[v].limit
                         /\ users'[v].used = table[v].used
      /\ SyncTrue => SyncTrue'
  BY <1>1, <1>4, Synced
<1>6. \A v \in User : UserKept(v)
  BY <1>1, <1>3, <1>4, <1>5 DEF UserKept, Is
<1>7. RowsTyped'
  BY <1>1, <1>3, <1>4, <1>5 DEF RowsTyped, Is
<1>. QED  BY <1>1, <1>5, <1>6, <1>7, LocalsLast, TeamsLast, OrgLasts DEF RowEdit

LEMMA SyncUsersEdits ==
  ASSUME RowsTyped, LocalsTyped, NEW U \in SUBSET User, SyncUsers(U)
  PROVE  RowEdit
<1>1. /\ Sync(users, U) /\ edits' = edits + 1 /\ UNCHANGED <<teams, org, convs, req, history>>
  BY DEF SyncUsers, Administer
<1>4. users \in [User -> UserRow]
  BY DEF RowsTyped
<1>5. /\ users' \in [User -> UserRow] /\ budgets' \in [User -> Nat]
      /\ \A v \in User : /\ users'[v].status = users[v].status
                         /\ users'[v].org = users[v].org
                         /\ users'[v].limit = users[v].limit
                         /\ users'[v].used = users[v].used
      /\ SyncTrue => SyncTrue'
  BY <1>1, <1>4, Synced
<1>6. \A v \in User : UserKept(v)
  BY <1>1, <1>4, <1>5 DEF UserKept, Is
<1>7. RowsTyped'
  BY <1>1, <1>4, <1>5 DEF RowsTyped, Is
<1>. QED  BY <1>1, <1>5, <1>6, <1>7, LocalsLast, TeamsLast, OrgLasts DEF RowEdit, history

LEMMA DeleteUserEdits ==
  ASSUME RowsTyped, LocalsTyped, NEW u \in User, DeleteUser(u)
  PROVE  RowEdit
<1>1. PICK deleted \in BOOLEAN : budgets' = IF deleted THEN [budgets EXCEPT ![u] = NoBudget]
                                                       ELSE budgets
  BY DEF DeleteUser
<1>2. /\ users' = [users EXCEPT ![u].status = "gone"] /\ edits' = edits + 1 /\ Is(users[u])
      /\ UNCHANGED <<teams, org, torn, convs, req, history>>
  BY DEF DeleteUser, Administer
<1>3. \A v \in User : users[v] \in UserRow
  BY DEF RowsTyped
<1>4. /\ users' \in [User -> UserRow] /\ users'[u].status = "gone"
      /\ users'[u].used = users[u].used
      /\ \A v \in User : v # u => users'[v] = users[v]
  BY <1>2, <1>3 DEF RowsTyped, UserRow, Status
<1>5. /\ budgets' \in [User -> Nat] /\ \A v \in User : v # u => budgets'[v] = budgets[v]
  BY <1>1, Numbers DEF RowsTyped
<1>6. \A v \in User : UserKept(v)
  BY <1>2, <1>4 DEF UserKept, Is
<1>7. RowsTyped'
  BY <1>2, <1>4, <1>5 DEF RowsTyped, Is
<1>8. SyncTrue => SyncTrue'
  BY <1>2, <1>4, <1>5 DEF SyncTrue, Is
<1>. QED  BY <1>2, <1>6, <1>7, <1>8, LocalsLast, TeamsLast, OrgLasts DEF RowEdit, history

LEMMA TeamEdits ==
  ASSUME RowsTyped, LocalsTyped, NEW t \in Team, NEW n \in Limits,
         CreateTeam(t, n) \/ UpdateTeam(t, n)
  PROVE  RowEdit
<1>1. /\ edits' = edits + 1 /\ UNCHANGED <<users, org, budgets, torn, convs, req, cut>>
      /\ loose \subseteq loose'
  BY DEF CreateTeam, UpdateTeam, Administer, history
<1>2. teams[t] \in TeamRow /\ teams \in [Team -> TeamRow]
  BY DEF RowsTyped
<1>3. teams' \in [Team -> TeamRow] /\ \A s \in Team : s # t => teams'[s] = teams[s]
  BY <1>2 DEF CreateTeam, UpdateTeam, TeamRow, Status
<1>4. TeamKept(t) /\ (teams'[t].status = "unborn" => teams'[t].used = 0)
  <2>1. CASE CreateTeam(t, n)
    <3>1. /\ teams[t].status = "unborn" /\ n # 0
          /\ teams'[t] = [status |-> "here", limit |-> n, used |-> 0]
      BY <2>1, <1>2 DEF CreateTeam
    <3>2. teams[t].used = 0
      BY <3>1 DEF RowsTyped
    <3>. QED  BY <3>1, <3>2 DEF TeamKept, Is
  <2>2. CASE UpdateTeam(t, n)
    <3>1. Is(teams[t]) /\ teams'[t] = [teams[t] EXCEPT !.limit = n] /\ t \in loose'
      BY <2>2, <1>2 DEF UpdateTeam
    <3>2. teams'[t].status = teams[t].status /\ teams'[t].used = teams[t].used
      BY <3>1, <1>2 DEF TeamRow
    <3>. QED  BY <3>1, <3>2 DEF TeamKept, Is
  <2>. QED  BY <2>1, <2>2
<1>5. \A s \in Team : TeamKept(s)
  BY <1>3, <1>4 DEF TeamKept, Is
<1>6. RowsTyped'
  BY <1>1, <1>3, <1>4 DEF RowsTyped
<1>7. SyncTrue => SyncTrue'
  BY <1>1 DEF SyncTrue, Is
<1>. QED  BY <1>1, <1>5, <1>6, <1>7, LocalsLast, UsersLast, OrgLasts DEF RowEdit

LEMMA Leaves ==
  ASSUME RowsTyped, NEW T \in SUBSET Team, NEW out \in BOOLEAN, Leave(T, out)
  PROVE  /\ users' \in [User -> UserRow]
         /\ \A u \in User : /\ users'[u].status = users[u].status
                            /\ users'[u].limit = users[u].limit
                            /\ users'[u].used = users[u].used
                            /\ users'[u].synced = users[u].synced
                            /\ users'[u].org = (users[u].org /\ ~out)
<1>1. users' = [u \in User |-> [users[u] EXCEPT !.team = IF users[u].team \in T THEN NoTeam
                                                                              ELSE users[u].team,
                                                !.org = users[u].org /\ ~out]]
  BY DEF Leave
<1>2. ASSUME NEW u \in User
      PROVE  /\ users'[u] \in UserRow
             /\ users'[u].status = users[u].status
             /\ users'[u].limit = users[u].limit
             /\ users'[u].used = users[u].used
             /\ users'[u].synced = users[u].synced
             /\ users'[u].org = (users[u].org /\ ~out)
  <2>1. users[u] \in UserRow
    BY DEF RowsTyped
  <2>. DEFINE team == IF users[u].team \in T THEN NoTeam ELSE users[u].team
              in == users[u].org /\ ~out
  <2>2. team \in Team \cup {NoTeam} /\ in \in BOOLEAN
    BY <2>1 DEF UserRow
  <2>3. users'[u] = [users[u] EXCEPT !.team = team, !.org = in]
    BY <1>1
  <2>. HIDE DEF team, in
  <2>4. /\ users'[u] \in UserRow
        /\ users'[u].status = users[u].status
        /\ users'[u].limit = users[u].limit
        /\ users'[u].used = users[u].used
        /\ users'[u].synced = users[u].synced
        /\ users'[u].org = in
    BY <2>1, <2>2, <2>3 DEF UserRow
  <2>. QED  BY <2>4 DEF in
<1>. QED  BY <1>1, <1>2

LEMMA DeleteTeamEdits ==
  ASSUME RowsTyped, LocalsTyped, NEW t \in Team, DeleteTeam(t)
  PROVE  RowEdit
<1>1. /\ edits' = edits + 1 /\ UNCHANGED <<org, budgets, torn, convs, req, cut, loose>>
      /\ teams' = [teams EXCEPT ![t].status = "gone"] /\ Leave({t}, FALSE) /\ Is(teams[t])
  BY DEF DeleteTeam, Administer, history
<1>2. teams[t] \in TeamRow /\ teams \in [Team -> TeamRow]
  BY DEF RowsTyped
<1>3. /\ teams' \in [Team -> TeamRow] /\ \A s \in Team : s # t => teams'[s] = teams[s]
      /\ teams'[t].status = "gone" /\ teams'[t].used = teams[t].used
  BY <1>1, <1>2 DEF TeamRow, Status
<1>4. /\ users' \in [User -> UserRow]
      /\ \A u \in User : /\ users'[u].status = users[u].status
                         /\ users'[u].limit = users[u].limit
                         /\ users'[u].used = users[u].used
                         /\ users'[u].synced = users[u].synced
                         /\ users'[u].org = users[u].org
  <2>1. \A u \in User : users[u].org \in BOOLEAN
    BY DEF RowsTyped, UserRow
  <2>. QED  BY <2>1, <1>1, Leaves
<1>5. \A s \in Team : TeamKept(s)
  BY <1>1, <1>3 DEF TeamKept, Is
<1>6. \A u \in User : UserKept(u)
  BY <1>4 DEF UserKept, Is
<1>7. RowsTyped'
  BY <1>1, <1>3, <1>4 DEF RowsTyped
<1>8. SyncTrue => SyncTrue'
  BY <1>1, <1>4, SyncLasts DEF Is
<1>. QED  BY <1>1, <1>5, <1>6, <1>7, <1>8, LocalsLast, OrgLasts DEF RowEdit

LEMMA OrgEdits ==
  ASSUME RowsTyped, LocalsTyped, DeleteOrg \/ \E n \in Limits : UpdateOrg(n)
  PROVE  RowEdit
<1>1. CASE \E n \in Limits : UpdateOrg(n)
  <2>1. PICK n \in Limits : UpdateOrg(n)
    BY <1>1
  <2>2. /\ edits' = edits + 1 /\ UNCHANGED <<users, teams, budgets, torn, convs, req, cut>>
        /\ org' = [org EXCEPT !.limit = n] /\ loose' = loose \cup {Org} /\ Is(org)
    BY <2>1 DEF UpdateOrg, Administer
  <2>3. org' \in OrgRow /\ org'.status = org.status
    BY <2>2 DEF RowsTyped, OrgRow
  <2>4. \A u \in User : UserKept(u)
    BY <2>2 DEF UserKept, Is
  <2>5. OrgKept
    BY <2>2 DEF OrgKept
  <2>6. RowsTyped'
    BY <2>2, <2>3 DEF RowsTyped
  <2>7. SyncTrue => SyncTrue'
    BY <2>2 DEF SyncTrue, Is
  <2>. QED  BY <2>2, <2>4, <2>5, <2>6, <2>7, LocalsLast, TeamsLast DEF RowEdit
<1>2. CASE DeleteOrg
  <2>1. /\ edits' = edits + 1 /\ UNCHANGED <<budgets, torn, convs, req, cut, loose>>
        /\ org' = [org EXCEPT !.status = "gone"] /\ Leave(Team, TRUE)
        /\ teams' = [t \in Team |-> IF Is(teams[t]) THEN [teams[t] EXCEPT !.status = "gone"]
                                                    ELSE teams[t]]
    BY <1>2 DEF DeleteOrg, Administer, history
  <2>2. org' \in OrgRow /\ ~Is(org')
    BY <2>1 DEF RowsTyped, OrgRow, Status, Is
  <2>3. \A t \in Team : /\ teams'[t] \in TeamRow /\ ~Is(teams'[t])
                        /\ teams'[t].used = teams[t].used
                        /\ teams'[t].status = "unborn" => teams[t].status = "unborn"
    BY <2>1 DEF RowsTyped, TeamRow, Status, Is
  <2>4. /\ users' \in [User -> UserRow]
        /\ \A u \in User : /\ users'[u].status = users[u].status
                           /\ users'[u].limit = users[u].limit
                           /\ users'[u].used = users[u].used
                           /\ users'[u].synced = users[u].synced
                           /\ users'[u].org = FALSE
    BY <2>1, Leaves
  <2>5. \A t \in Team : TeamKept(t)
    BY <2>3 DEF TeamKept
  <2>6. \A u \in User : UserKept(u)
    BY <2>2, <2>4 DEF UserKept, Is
  <2>7. RowsTyped'
    BY <2>1, <2>2, <2>3, <2>4 DEF RowsTyped
  <2>8. SyncTrue => SyncTrue'
    BY <2>1, <2>4, SyncLasts DEF Is
  <2>9. OrgKept
    BY <2>2 DEF OrgKept
  <2>. QED  BY <2>1, <2>5, <2>6, <2>7, <2>8, <2>9, LocalsLast DEF RowEdit
<1>. QED  BY <1>1, <1>2

LEMMA RestartEdits ==
  ASSUME RowsTyped, LocalsTyped, Restart
  PROVE  RowEdit
<1>1. /\ edits' = edits + 1 /\ UNCHANGED <<teams, org, budgets, convs, cut>>
      /\ req' = [q \in Request |-> IF req[q].pc = "auth" THEN At(req[q], "error")
                                   ELSE IF req[q].pc \in Running THEN At(req[q], "lost")
                                   ELSE req[q]]
  BY DEF Restart, Administer
<1>2. ASSUME NEW q \in Request
      PROVE  req'[q] \in Local /\ Fits(req'[q]) /\ LocalKept(q)
  <2>1. Fits(req[q]) /\ req[q] \in Local /\ {"error", "lost"} \subseteq Steps \ {"ask", "search", "auth"}
    BY DEF LocalsTyped, Fits, Steps, Refused, Running, Over
  <2>2. "error" \notin Running /\ "lost" \notin Running
    BY DEF Running
  <2>3. CASE req[q].pc = "auth"
    <3>1. req'[q] = At(req[q], "error")
      BY <1>1, <2>3
    <3>2. Fits(req'[q]) /\ req'[q] \in Local /\ req'[q].pc = "error"
      BY <2>1, <2>2, <3>1, AtFits
    <3>. QED  BY <2>3, <3>2 DEF LocalKept, Due, Refused, Pending, Running
  <2>4. CASE req[q].pc \in Running
    <3>1. req'[q] = At(req[q], "lost")
      BY <1>1, <2>4 DEF Running
    <3>2. Fits(req'[q]) /\ req'[q] \in Local /\ req'[q].pc = "lost"
      BY <2>1, <2>2, <3>1, AtFits
    <3>. QED  BY <2>4, <3>2 DEF LocalKept, Due, Refused, Pending, Running
  <2>5. CASE req[q].pc # "auth" /\ req[q].pc \notin Running
    <3>1. req'[q] = req[q]
      BY <1>1, <2>5
    <3>. QED  BY <3>1, <2>1 DEF LocalKept, Due
  <2>. QED  BY <2>3, <2>4, <2>5
<1>3. LocalsTyped' /\ \A q \in Request : LocalKept(q)
  BY <1>1, <1>2 DEF LocalsTyped, Fits
<1>4. CASE UNCHANGED <<users, torn, loose>>
  <2>1. RowsTyped' /\ (SyncTrue => SyncTrue')
    BY <1>1, <1>4 DEF RowsTyped, SyncTrue, Is
  <2>. QED  BY <2>1, <1>1, <1>3, <1>4, UsersLast, TeamsLast, OrgLasts DEF RowEdit
<1>5. ASSUME NEW u \in User, NEW row \in Updates(u), Is(users[u]),
             users' = [users EXCEPT ![u] = row], torn' = torn \cup {u}, loose' = loose \cup {u}
      PROVE  RowEdit
  <2>1. row \in UserRow /\ Is(row) /\ row.used = users[u].used /\ row.org = users[u].org
    BY <1>5, UpdateRow
  <2>2. /\ users' \in [User -> UserRow] /\ users'[u] = row
        /\ \A v \in User : v # u => users'[v] = users[v]
    BY <1>5, <2>1 DEF RowsTyped
  <2>3. \A v \in User : UserKept(v)
    BY <1>1, <1>5, <2>1, <2>2 DEF UserKept, Is
  <2>4. RowsTyped'
    BY <1>1, <1>5, <2>1, <2>2 DEF RowsTyped, Is
  <2>5. SyncTrue => SyncTrue'
    BY <1>1, <1>5, <2>2 DEF SyncTrue, Is
  <2>. QED  BY <1>1, <1>3, <1>5, <2>3, <2>4, <2>5, TeamsLast, OrgLasts DEF RowEdit
<1>. QED  BY <1>4, <1>5 DEF Restart

-----------------------------------------------------------------------------
(* The steps that store a message or charge for it.                        *)

Served(q, j, n) ==
    /\ req' = [req EXCEPT ![q] = j] /\ Fits(j)
    /\ n \in Nat /\ Due(j) = Due(req[q]) + n
    /\ RowsTyped' /\ ThreadsTyped' /\ (SyncTrue => SyncTrue')
    /\ \A u \in User :
          /\ users'[u].status = users[u].status /\ users'[u].limit = users[u].limit
          /\ users'[u].org = users[u].org
          /\ users'[u].used = users[u].used + (IF u = req[q].user /\ Is(users[u]) THEN n ELSE 0)
    /\ \A t \in Team :
          /\ teams'[t].status = teams[t].status /\ teams'[t].limit = teams[t].limit
          /\ teams'[t].used = teams[t].used + (IF t = req[q].team /\ Is(teams[t]) THEN n ELSE 0)
    /\ UNCHANGED <<org, history, edits>>
    /\ j.pc \in Running => /\ req[q].pc \in Pending /\ j.user = req[q].user
                           /\ j.team = req[q].team /\ j.conv = req[q].conv
    /\ j.pc = "auth" => Is(users[j.user]) /\ j.org = users[j.user].org

LEMMA QuietServes ==
  ASSUME RowsTyped, ThreadsTyped, NEW q \in Request, NEW j, Quiet(q, j)
  PROVE  Served(q, j, 0)
<1>1. UNCHANGED <<users, teams, org, budgets, torn, convs, cut, loose, edits>>
  BY DEF Quiet, rows, history
<1>2. RowsTyped' /\ ThreadsTyped' /\ (SyncTrue => SyncTrue')
  BY <1>1 DEF RowsTyped, ThreadsTyped, SyncTrue, Is
<1>3. Due(j) = Due(req[q]) + 0
  <2>1. j \in Local
    BY DEF Quiet, Fits
  <2>2. Due(j) \in Nat
    <3>1. Prompt \in Nat /\ j.cost \in Nat
      BY <2>1, Numbers DEF Local
    <3>. QED  BY <3>1 DEF Due
  <2>. QED  BY <2>2 DEF Quiet
<1>4. \A u \in User : users[u].used \in Nat
  BY DEF RowsTyped, UserRow
<1>5. \A t \in Team : teams[t].used \in Nat
  BY DEF RowsTyped, TeamRow
<1>6. /\ \A u \in User : users[u].used = users[u].used + (IF u = req[q].user /\ Is(users[u]) THEN 0 ELSE 0)
      /\ \A t \in Team : teams[t].used = teams[t].used + (IF t = req[q].team /\ Is(teams[t]) THEN 0 ELSE 0)
  BY <1>4, <1>5
<1>7. /\ req' = [req EXCEPT ![q] = j] /\ Fits(j)
      /\ j.pc \in Running => /\ req[q].pc \in Pending /\ j.user = req[q].user
                             /\ j.team = req[q].team /\ j.conv = req[q].conv
      /\ j.pc = "auth" => Is(users[j.user]) /\ j.org = users[j.user].org
  BY DEF Quiet, Pending
<1>. QED  BY <1>1, <1>2, <1>3, <1>6, <1>7 DEF Served, history

LEMMA Said ==
  ASSUME ThreadsTyped, NEW c \in Conv, NEW m \in Message, Say(c, m)
  PROVE  /\ ThreadsTyped' /\ convs'[c].state = "here"
         /\ convs'[c].log = Append(convs[c].log, m)
         /\ convs[c].log \in Seq(Message)
         /\ Len(convs'[c].log) = Len(convs[c].log) + 1
         /\ \A i \in 1 .. Len(convs[c].log) : convs'[c].log[i] = convs[c].log[i]
         /\ convs'[c].log[Len(convs[c].log) + 1] = m
         /\ \A d \in Conv : d # c => convs'[d] = convs[d]
<1>1. convs \in [Conv -> Thread] /\ convs[c] \in Thread /\ convs[c].log \in Seq(Message)
  BY DEF ThreadsTyped, Thread
<1>2. convs' = [convs EXCEPT ![c] = [state |-> "here", log |-> Append(convs[c].log, m)]]
  BY DEF Say
<1>3. convs'[c] = [state |-> "here", log |-> Append(convs[c].log, m)]
  BY <1>1, <1>2
<1>4. \A d \in Conv : d # c => convs'[d] = convs[d]
  BY <1>2
<1>5. /\ Append(convs[c].log, m) \in Seq(Message)
      /\ Len(Append(convs[c].log, m)) = Len(convs[c].log) + 1
      /\ \A i \in 1 .. Len(convs[c].log) : Append(convs[c].log, m)[i] = convs[c].log[i]
      /\ Append(convs[c].log, m)[Len(convs[c].log) + 1] = m
  BY <1>1, AppendProperties
<1>6. convs' \in [Conv -> Thread]
  BY <1>1, <1>2, <1>5 DEF Thread
<1>7. ThreadsTyped'
  BY <1>3, <1>4, <1>6 DEF ThreadsTyped
<1>. QED  BY <1>1, <1>3, <1>4, <1>5, <1>7

LEMMA Charges ==
  ASSUME RowsTyped, NEW j, j.user \in User, NEW n \in Nat, Charge(j, n),
         UNCHANGED <<org, budgets, torn, history, edits>>
  PROVE  /\ RowsTyped' /\ (SyncTrue => SyncTrue')
         /\ \A u \in User :
              /\ users'[u].status = users[u].status /\ users'[u].limit = users[u].limit
              /\ users'[u].org = users[u].org
              /\ users'[u].used = users[u].used + (IF u = j.user /\ Is(users[u]) THEN n ELSE 0)
         /\ \A t \in Team :
              /\ teams'[t].status = teams[t].status /\ teams'[t].limit = teams[t].limit
              /\ teams'[t].used = teams[t].used + (IF t = j.team /\ Is(teams[t]) THEN n ELSE 0)
<1>1. /\ users' = [users EXCEPT ![j.user].used = IF Is(users[j.user]) THEN users[j.user].used + n
                                                                      ELSE users[j.user].used]
      /\ teams' = [t \in Team |-> IF t = j.team /\ Is(teams[t])
                                  THEN [teams[t] EXCEPT !.used = teams[t].used + n] ELSE teams[t]]
  BY DEF Charge
<1>2. ASSUME NEW u \in User
      PROVE  /\ users'[u] \in UserRow
             /\ users'[u].status = users[u].status /\ users'[u].limit = users[u].limit
             /\ users'[u].org = users[u].org /\ users'[u].synced = users[u].synced
             /\ users'[u].used = users[u].used + (IF u = j.user /\ Is(users[u]) THEN n ELSE 0)
  <2>1. users[u] \in UserRow /\ users[u].used \in Nat
    BY DEF RowsTyped, UserRow
  <2>2. CASE u = j.user
    <3>. DEFINE k == users[u].used + (IF Is(users[u]) THEN n ELSE 0)
    <3>1. k \in Nat /\ k = IF Is(users[u]) THEN users[u].used + n ELSE users[u].used
      BY <2>1
    <3>2. users'[u] = [users[u] EXCEPT !.used = k]
      BY <1>1, <2>2, <3>1 DEF RowsTyped
    <3>3. k = users[u].used + (IF u = j.user /\ Is(users[u]) THEN n ELSE 0)
      BY <2>2
    <3>. HIDE DEF k
    <3>. QED  BY <2>1, <3>1, <3>2, <3>3 DEF UserRow
  <2>3. CASE u # j.user
    BY <1>1, <2>1, <2>3 DEF RowsTyped
  <2>. QED  BY <2>2, <2>3
<1>3. ASSUME NEW t \in Team
      PROVE  /\ teams'[t] \in TeamRow
             /\ teams'[t].status = teams[t].status /\ teams'[t].limit = teams[t].limit
             /\ teams'[t].used = teams[t].used + (IF t = j.team /\ Is(teams[t]) THEN n ELSE 0)
  <2>1. teams[t] \in TeamRow /\ teams[t].used \in Nat
    BY DEF RowsTyped, TeamRow
  <2>2. teams[t].used + n \in Nat
    BY <2>1
  <2>. QED  BY <1>1, <2>1, <2>2 DEF TeamRow
<1>4. users' \in [User -> UserRow] /\ teams' \in [Team -> TeamRow]
  BY <1>1, <1>2, <1>3 DEF RowsTyped
<1>5. \A u \in User : users'[u].status = "unborn" => users'[u].used = 0 /\ ~users'[u].org
  <2>1. \A u \in User : users[u].status = "unborn" => users[u].used = 0 /\ ~users[u].org
    BY DEF RowsTyped
  <2>. QED  BY <2>1, <1>2 DEF Is
<1>6. \A t \in Team : teams'[t].status = "unborn" => teams'[t].used = 0
  <2>1. \A t \in Team : teams[t].status = "unborn" => teams[t].used = 0
    BY DEF RowsTyped
  <2>. QED  BY <2>1, <1>3 DEF Is
<1>7. RowsTyped'
  BY <1>4, <1>5, <1>6 DEF RowsTyped
<1>8. SyncTrue => SyncTrue'
  BY <1>2, SyncLasts DEF Is
<1>. QED  BY <1>2, <1>3, <1>7, <1>8

LEMMA PrepareServes ==
  ASSUME TypeInv, NEW q \in Request, Prepare(q)
  PROVE  /\ Served(q, At(req[q], "stream"), Prompt)
         /\ req[q].conv \in Conv /\ Say(req[q].conv, <<"user", q>>)
         /\ req[q].pc = "auth" /\ ~Exceeded(req[q]) /\ At(req[q], "stream").pc = "stream"
<1>. DEFINE j == At(req[q], "stream")
<1>1. /\ req[q].pc = "auth" /\ ~Exceeded(req[q]) /\ Say(req[q].conv, <<"user", q>>)
      /\ Charge(req[q], Prompt) /\ req' = [req EXCEPT ![q] = j]
      /\ UNCHANGED <<org, budgets, torn, history, edits>>
  BY DEF Prepare, Become
<1>2. RowsTyped /\ ThreadsTyped /\ Fits(req[q])
  BY DEF TypeInv, LocalsTyped
<1>3. req[q].user \in User /\ req[q].conv \in Conv
  BY <1>1, <1>2 DEF Fits
<1>4. /\ Fits(j) /\ j.pc = "stream" /\ j.user = req[q].user /\ j.team = req[q].team
      /\ j.conv = req[q].conv
  BY <1>1, <1>2, AtFits DEF Steps, Running
<1>5. Prompt \in Nat
  BY Numbers
<1>6. Due(j) = Due(req[q]) + Prompt
  BY <1>1, <1>4, <1>5 DEF Due, Refused
<1>7. <<"user", q>> \in Message
  BY DEF Message
<1>8. ThreadsTyped'
  BY <1>1, <1>2, <1>3, <1>7, Said
<1>. HIDE DEF j
<1>9. /\ RowsTyped' /\ (SyncTrue => SyncTrue')
      /\ \A u \in User :
           /\ users'[u].status = users[u].status /\ users'[u].limit = users[u].limit
           /\ users'[u].org = users[u].org
           /\ users'[u].used = users[u].used + (IF u = req[q].user /\ Is(users[u]) THEN Prompt ELSE 0)
      /\ \A t \in Team :
           /\ teams'[t].status = teams[t].status /\ teams'[t].limit = teams[t].limit
           /\ teams'[t].used = teams[t].used + (IF t = req[q].team /\ Is(teams[t]) THEN Prompt ELSE 0)
  BY <1>1, <1>2, <1>3, <1>5, Charges
<1>10. Served(q, j, Prompt)
  BY <1>1, <1>4, <1>5, <1>6, <1>8, <1>9 DEF Served, Pending
<1>. QED  BY <1>1, <1>3, <1>4, <1>10 DEF j

LEMMA PrepareFailsServes ==
  ASSUME TypeInv, NEW q \in Request, PrepareFails(q)
  PROVE  /\ Served(q, At(req[q], "error"), 0)
         /\ req[q].conv \in Conv /\ Say(req[q].conv, <<"user", q>>)
         /\ req[q].pc = "auth" /\ At(req[q], "error").pc = "error"
<1>. DEFINE j == At(req[q], "error")
<1>1. /\ req[q].pc = "auth" /\ Say(req[q].conv, <<"user", q>>)
      /\ req' = [req EXCEPT ![q] = j]
      /\ UNCHANGED <<users, teams, org, budgets, torn, history, edits>>
  BY DEF PrepareFails, Become, rows
<1>2. RowsTyped /\ ThreadsTyped /\ Fits(req[q])
  BY DEF TypeInv, LocalsTyped
<1>3. req[q].user \in User /\ req[q].conv \in Conv
  BY <1>1, <1>2 DEF Fits
<1>4. Fits(j) /\ j.pc = "error"
  BY <1>1, <1>2, AtFits DEF Steps, Running, Refused
<1>6. Due(j) = Due(req[q]) + 0
  BY <1>1, <1>4 DEF Due, Refused
<1>7. <<"user", q>> \in Message
  BY DEF Message
<1>8. ThreadsTyped'
  BY <1>1, <1>2, <1>3, <1>7, Said
<1>. HIDE DEF j
<1>9. /\ RowsTyped' /\ (SyncTrue => SyncTrue')
      /\ \A u \in User : users'[u].used = users[u].used + (IF u = req[q].user /\ Is(users[u]) THEN 0 ELSE 0)
      /\ \A t \in Team : teams'[t].used = teams[t].used + (IF t = req[q].team /\ Is(teams[t]) THEN 0 ELSE 0)
  BY <1>1, <1>2 DEF RowsTyped, SyncTrue, Is, UserRow, TeamRow
<1>10. j.pc \notin Running /\ j.pc # "auth"
  BY <1>4 DEF Running
<1>11. Served(q, j, 0)
  BY <1>1, <1>4, <1>6, <1>8, <1>9, <1>10 DEF Served
<1>. QED  BY <1>1, <1>3, <1>4, <1>11 DEF j

LEMMA FinalizeServes ==
  ASSUME TypeInv, NEW q \in Request, Finalize(q)
  PROVE  /\ Served(q, At(req[q], "stored"), req[q].cost)
         /\ req[q].conv \in Conv
         /\ IF convs[req[q].conv].state = "here" THEN Say(req[q].conv, <<"assistant", q>>)
                                                 ELSE UNCHANGED convs
         /\ req[q].pc = "complete" /\ At(req[q], "stored").pc = "stored"
         /\ req[q].cost \in Nat /\ req[q].cost <= Max(Remainders)
<1>. DEFINE j == At(req[q], "stored")
<1>1. /\ req[q].pc = "complete"
      /\ IF convs[req[q].conv].state = "here" THEN Say(req[q].conv, <<"assistant", q>>)
                                              ELSE UNCHANGED convs
      /\ Charge(req[q], req[q].cost) /\ req' = [req EXCEPT ![q] = j]
      /\ UNCHANGED <<org, budgets, torn, history, edits>>
  BY DEF Finalize, Become
<1>2. RowsTyped /\ ThreadsTyped /\ Fits(req[q])
  BY DEF TypeInv, LocalsTyped
<1>3. req[q].user \in User /\ req[q].conv \in Conv
  BY <1>1, <1>2 DEF Fits, Running
<1>4. Fits(j) /\ j.pc = "stored" /\ j.cost = req[q].cost
  BY <1>1, <1>2, AtFits DEF Steps, Running, Over
<1>5. Prompt \in Nat /\ req[q].cost \in Nat /\ req[q].cost <= Max(Remainders)
  BY <1>2, Numbers DEF Fits, Local
<1>6. Due(j) = Due(req[q]) + req[q].cost
  BY <1>1, <1>4, <1>5 DEF Due, Refused
<1>7. <<"assistant", q>> \in Message
  BY DEF Message
<1>8. ThreadsTyped'
  <2>1. CASE convs[req[q].conv].state = "here"
    BY <2>1, <1>1, <1>2, <1>3, <1>7, Said
  <2>2. CASE convs[req[q].conv].state # "here"
    BY <2>2, <1>1, <1>2 DEF ThreadsTyped
  <2>. QED  BY <2>1, <2>2
<1>. HIDE DEF j
<1>9. /\ RowsTyped' /\ (SyncTrue => SyncTrue')
      /\ \A u \in User :
           /\ users'[u].status = users[u].status /\ users'[u].limit = users[u].limit
           /\ users'[u].org = users[u].org
           /\ users'[u].used = users[u].used + (IF u = req[q].user /\ Is(users[u]) THEN req[q].cost ELSE 0)
      /\ \A t \in Team :
           /\ teams'[t].status = teams[t].status /\ teams'[t].limit = teams[t].limit
           /\ teams'[t].used = teams[t].used + (IF t = req[q].team /\ Is(teams[t]) THEN req[q].cost ELSE 0)
  BY <1>1, <1>2, <1>3, <1>5, Charges
<1>10. j.pc \notin Running /\ j.pc # "auth"
  BY <1>4 DEF Running
<1>11. Served(q, j, req[q].cost)
  BY <1>1, <1>4, <1>5, <1>6, <1>8, <1>9, <1>10 DEF Served
<1>. QED  BY <1>1, <1>3, <1>4, <1>5, <1>11 DEF j

-----------------------------------------------------------------------------
(* The requests that edit conversations.                                   *)

ConvEdit(c) ==
    \/ CreateConversation(c) \/ DeleteConversation(c)
    \/ \E i \in DOMAIN convs[c].log : EditConversation(c, i)

LEMMA Cuts ==
  ASSUME ThreadsTyped, NEW c \in Conv, NEW i \in DOMAIN convs[c].log, EditConversation(c, i)
  PROVE  /\ convs[c].log \in Seq(Message) /\ Len(convs[c].log) \in Nat
         /\ i \in 1 .. Len(convs[c].log)
         /\ convs'[c].log \in Seq(Message) /\ Len(convs'[c].log) = i - 1
         /\ DOMAIN convs'[c].log = 1 .. (i - 1)
         /\ \A k \in 1 .. (i - 1) : convs'[c].log[k] = convs[c].log[k]
         /\ convs'[c].state = "here" /\ convs[c].state = "here"
         /\ convs' \in [Conv -> Thread]
         /\ \A d \in Conv : d # c => convs'[d] = convs[d]
         /\ \A k \in i .. Len(convs[c].log) : \A q \in Request :
               convs[c].log[k] = <<"user", q>> => q \in cut'
<1>. DEFINE log == convs[c].log
<1>1. convs \in [Conv -> Thread] /\ convs[c] \in Thread /\ log \in Seq(Message)
  BY DEF ThreadsTyped, Thread
<1>2. Len(log) \in Nat /\ i \in 1 .. Len(log) /\ DOMAIN log = 1 .. Len(log)
      /\ \A k \in 1 .. Len(log) : log[k] \in Message
  BY <1>1, LenProperties
<1>3. /\ convs[c].state = "here"
      /\ convs' = [convs EXCEPT ![c].log = SubSeq(log, 1, i - 1)]
      /\ cut' = cut \cup Prompts(SubSeq(log, i, Len(log)))
  BY DEF EditConversation
<1>4. convs'[c].log = SubSeq(log, 1, i - 1) /\ convs'[c].state = "here"
      /\ \A d \in Conv : d # c => convs'[d] = convs[d]
  BY <1>1, <1>3 DEF Thread
<1>. HIDE DEF log
<1>5. /\ SubSeq(log, 1, i - 1) \in Seq(Message) /\ Len(SubSeq(log, 1, i - 1)) = i - 1
      /\ \A k \in 1 .. (i - 1) : SubSeq(log, 1, i - 1)[k] = log[k]
  <2>1. i \in Int /\ i - 1 \in Int /\ \A k \in 1 .. (i - 1) : log[k] \in Message
    BY <1>2
  <2>2. /\ SubSeq(log, 1, i - 1) \in Seq(Message)
        /\ Len(SubSeq(log, 1, i - 1)) = IF 1 <= i - 1 THEN (i - 1) - 1 + 1 ELSE 0
        /\ \A k \in 1 .. ((i - 1) - 1 + 1) : SubSeq(log, 1, i - 1)[k] = log[1 + k - 1]
    BY <2>1, SubSeqProperties
  <2>3. Len(SubSeq(log, 1, i - 1)) = i - 1
    BY <1>2, <2>2
  <2>4. \A k \in 1 .. (i - 1) : k \in 1 .. ((i - 1) - 1 + 1) /\ 1 + k - 1 = k
    BY <1>2
  <2>5. \A k \in 1 .. (i - 1) : SubSeq(log, 1, i - 1)[k] = log[k]
    BY <2>2, <2>4
  <2>. QED  BY <2>2, <2>3, <2>5
<1>6. DOMAIN SubSeq(log, 1, i - 1) = 1 .. (i - 1)
  BY <1>5, LenProperties
<1>7. convs' \in [Conv -> Thread]
  BY <1>1, <1>3, <1>5 DEF Thread
<1>8. ASSUME NEW k \in i .. Len(log), NEW q \in Request, log[k] = <<"user", q>>
      PROVE  q \in cut'
  <2>. DEFINE tail == SubSeq(log, i, Len(log))
              p == k - i + 1
  <2>1. i \in Int /\ Len(log) \in Int /\ (\A m \in i .. Len(log) : log[m] \in Message)
        /\ i <= Len(log)
    BY <1>2
  <2>2. /\ tail \in Seq(Message) /\ Len(tail) = Len(log) - i + 1
        /\ \A m \in 1 .. (Len(log) - i + 1) : tail[m] = log[i + m - 1]
    BY <2>1, SubSeqProperties
  <2>3. p \in 1 .. (Len(log) - i + 1) /\ i + p - 1 = k
    BY <1>2, <1>8
  <2>. HIDE DEF tail, p
  <2>4. p \in DOMAIN tail /\ tail[p] = <<"user", q>>
    BY <2>2, <2>3, <1>8, LenProperties
  <2>5. q \in Prompts(tail)
    BY <2>4 DEF Prompts
  <2>. QED  BY <2>5, <1>3 DEF tail
<1>. QED  BY <1>1, <1>2, <1>3, <1>4, <1>5, <1>6, <1>7, <1>8 DEF log

LEMMA ConvEdits ==
  ASSUME ThreadsTyped, NEW c \in Conv, ConvEdit(c)
  PROVE  /\ ThreadsTyped' /\ edits' = edits + 1
         /\ UNCHANGED <<users, teams, org, budgets, torn, req, loose>>
<1>1. convs \in [Conv -> Thread] /\ convs[c] \in Thread
  BY DEF ThreadsTyped
<1>2. CASE CreateConversation(c)
  <2>1. /\ convs' = [convs EXCEPT ![c].state = "here"] /\ convs[c].state = "none"
        /\ edits' = edits + 1 /\ UNCHANGED <<users, teams, org, budgets, torn, req, loose>>
    BY <1>2 DEF CreateConversation, Administer, rows, history
  <2>2. convs' \in [Conv -> Thread]
    BY <1>1, <2>1 DEF Thread
  <2>. QED  BY <1>1, <2>1, <2>2 DEF ThreadsTyped, Thread
<1>3. CASE DeleteConversation(c)
  <2>1. /\ convs' = [convs EXCEPT ![c] = [state |-> "gone", log |-> <<>>]]
        /\ edits' = edits + 1 /\ UNCHANGED <<users, teams, org, budgets, torn, req, loose>>
    BY <1>3 DEF DeleteConversation, Administer, rows
  <2>2. <<>> \in Seq(Message)
    BY EmptySeq
  <2>3. convs' \in [Conv -> Thread]
    BY <1>1, <2>1, <2>2 DEF Thread
  <2>. QED  BY <1>1, <2>1, <2>3 DEF ThreadsTyped
<1>4. CASE \E i \in DOMAIN convs[c].log : EditConversation(c, i)
  <2>1. PICK i \in DOMAIN convs[c].log : EditConversation(c, i)
    BY <1>4
  <2>2. edits' = edits + 1 /\ UNCHANGED <<users, teams, org, budgets, torn, req, loose>>
    BY <2>1 DEF EditConversation, Administer, rows
  <2>3. convs' \in [Conv -> Thread] /\ convs'[c].state = "here"
        /\ \A d \in Conv : d # c => convs'[d] = convs[d]
    BY <2>1, Cuts
  <2>4. ThreadsTyped'
    BY <2>3 DEF ThreadsTyped
  <2>. QED  BY <2>2, <2>4
<1>. QED  BY <1>2, <1>3, <1>4 DEF ConvEdit

-----------------------------------------------------------------------------
(* Every step is one of these; each keeps the types and SyncTrue.          *)

RequestStep(q) ==
    \/ \E j \in Local : Quiet(q, j) /\ Served(q, j, 0)
    \/ Prepare(q) \/ PrepareFails(q) \/ Finalize(q)

LEMMA StepCases ==
  ASSUME TypeInv, [Next]_vars
  PROVE  \/ \E q \in Request : RequestStep(q)
         \/ \E c \in Conv : ConvEdit(c)
         \/ RowEdit
         \/ UNCHANGED vars
<1>1. RowsTyped /\ ThreadsTyped /\ LocalsTyped
  BY DEF TypeInv
<1>2. ASSUME NEW q \in Request,
             \/ \E u \in User, c \in Conv, rag, canned \in BOOLEAN :
                   Authenticate(q, u, c, rag, canned)
             \/ Progress(q) \/ Disconnect(q)
      PROVE  RequestStep(q)
  <2>1. CASE Prepare(q) \/ PrepareFails(q) \/ Finalize(q)
    BY <2>1 DEF RequestStep
  <2>2. CASE ~ (Prepare(q) \/ PrepareFails(q) \/ Finalize(q))
    <3>1. PICK j \in Local : Quiet(q, j)
      <4>1. \/ \E u \in User, c \in Conv, rag, canned \in BOOLEAN : Authenticate(q, u, c, rag, canned)
            \/ Refuse(q) \/ Canned(q) \/ Route(q) \/ Search(q) \/ Choose(q) \/ HandlerFails(q)
            \/ Answer(q) \/ NextModel(q) \/ Complete(q) \/ FinalizeFails(q) \/ Disconnect(q)
        BY <1>2, <2>2 DEF Progress
      <4>. QED  BY <4>1, <1>1, QuietSteps
    <3>2. Served(q, j, 0)
      BY <1>1, <3>1, QuietServes
    <3>. QED  BY <3>1, <3>2 DEF RequestStep
  <2>. QED  BY <2>1, <2>2
<1>3. ASSUME Edit, \A c \in Conv : ~ ConvEdit(c)
      PROVE  RowEdit
  <2>1. CASE \E u \in User, n \in Limits, t \in Team : CreateUser(u, n, t)
    BY <1>1, <2>1, CreateUserEdits
  <2>2. CASE \E u \in User : \E row \in Updates(u) : UpdateUser(u, row)
    BY <1>1, <2>2, UpdateUserEdits
  <2>3. CASE \E u \in User : DeleteUser(u)
    BY <1>1, <2>3, DeleteUserEdits
  <2>4. CASE \E U \in SUBSET User : SyncUsers(U)
    BY <1>1, <2>4, SyncUsersEdits
  <2>5. CASE \E t \in Team, n \in Limits : CreateTeam(t, n) \/ UpdateTeam(t, n)
    BY <1>1, <2>5, TeamEdits
  <2>6. CASE \E t \in Team : DeleteTeam(t)
    BY <1>1, <2>6, DeleteTeamEdits
  <2>7. CASE DeleteOrg \/ \E n \in Limits : UpdateOrg(n)
    BY <1>1, <2>7, OrgEdits
  <2>8. CASE Restart
    BY <1>1, <2>8, RestartEdits
  <2>. QED  BY <1>3, <2>1, <2>2, <2>3, <2>4, <2>5, <2>6, <2>7, <2>8 DEF Edit, ConvEdit
<1>. QED  BY <1>2, <1>3 DEF Next, AllDone

LEMMA ServedTypes ==
  ASSUME TypeInv, NEW q \in Request, NEW j, NEW n, Served(q, j, n)
  PROVE  TypeInv' /\ (SyncTrue => SyncTrue')
<1>1. /\ req' = [req EXCEPT ![q] = j] /\ Fits(j) /\ j \in Local
      /\ RowsTyped' /\ ThreadsTyped' /\ (SyncTrue => SyncTrue') /\ org' = org
      /\ \A u \in User : users'[u].status = users[u].status /\ users'[u].org = users[u].org
      /\ j.pc \in Running => req[q].pc \in Pending /\ j.user = req[q].user
      /\ j.pc = "auth" => Is(users[j.user]) /\ j.org = users[j.user].org
  BY DEF Served, Fits
<1>2. req \in [Request -> Local] /\ \A p \in Request : Fits(req[p])
  BY DEF TypeInv, LocalsTyped
<1>3. /\ req' \in [Request -> Local] /\ req'[q] = j
      /\ \A p \in Request : p # q => req'[p] = req[p]
  BY <1>1, <1>2
<1>4. LocalsTyped'
  <2>1. \A p \in Request : Fits(req'[p])
    BY <1>1, <1>2, <1>3
  <2>. QED  BY <1>3, <2>1 DEF LocalsTyped, Fits
<1>5. ASSUME NEW p \in Request, req'[p].pc \in {"auth"} \cup Running
      PROVE  /\ users'[req'[p].user].status # "unborn"
             /\ req'[p].pc = "auth" /\ Is(org') /\ Is(users'[req'[p].user]) =>
                   req'[p].org = users'[req'[p].user].org
  <2>1. req'[p].user \in User
    BY <1>1, <1>2, <1>3, <1>5 DEF Fits
  <2>2. CASE p # q
    <3>1. req'[p] = req[p]
      BY <2>2, <1>3
    <3>. QED  BY <3>1, <2>1, <1>1, <1>5 DEF TypeInv, Joined, Is
  <2>3. CASE p = q /\ j.pc = "auth"
    BY <2>1, <2>3, <1>1, <1>3 DEF Is
  <2>4. CASE p = q /\ j.pc \in Running
    <3>1. users[req[q].user].status # "unborn" /\ j.user = req[q].user
      BY <2>4, <1>1 DEF TypeInv, Joined, Pending
    <3>. QED  BY <3>1, <2>1, <2>4, <1>1, <1>3 DEF Running
  <2>. QED  BY <2>2, <2>3, <2>4, <1>3, <1>5
<1>6. Joined'
  BY <1>5 DEF Joined, Is
<1>. QED  BY <1>1, <1>4, <1>6 DEF TypeInv

LEMMA RowEditTypes ==
  ASSUME TypeInv, RowEdit
  PROVE  TypeInv' /\ (SyncTrue => SyncTrue')
<1>1. RowsTyped' /\ LocalsTyped' /\ (SyncTrue => SyncTrue') /\ convs' = convs
  BY DEF RowEdit
<1>2. ThreadsTyped'
  BY <1>1 DEF TypeInv, ThreadsTyped
<1>3. ASSUME NEW p \in Request, req'[p].pc \in {"auth"} \cup Running
      PROVE  /\ users'[req'[p].user].status # "unborn"
             /\ req'[p].pc = "auth" /\ Is(org') /\ Is(users'[req'[p].user]) =>
                   req'[p].org = users'[req'[p].user].org
  <2>1. req'[p] = req[p]
    BY <1>3 DEF RowEdit, LocalKept, Pending
  <2>2. Fits(req[p])
    BY DEF TypeInv, LocalsTyped
  <2>3. req[p].user \in User
    BY <2>1, <2>2, <1>3 DEF Fits
  <2>4. users[req[p].user].status # "unborn"
        /\ (req[p].pc = "auth" /\ Is(org) /\ Is(users[req[p].user]) =>
                   req[p].org = users[req[p].user].org)
    BY <2>1, <1>3 DEF TypeInv, Joined
  <2>5. UserKept(req[p].user) /\ OrgKept
    BY <2>3 DEF RowEdit
  <2>. QED  BY <2>1, <2>4, <2>5 DEF UserKept, OrgKept
<1>4. Joined'
  BY <1>3 DEF Joined, Is
<1>. QED  BY <1>1, <1>2, <1>4 DEF TypeInv

LEMMA NextTypes ==
  ASSUME TypeInv, [Next]_vars
  PROVE  TypeInv' /\ (SyncTrue => SyncTrue')
<1>1. ASSUME NEW q \in Request, RequestStep(q)
      PROVE  \E j, n : Served(q, j, n)
  BY <1>1, PrepareServes, PrepareFailsServes, FinalizeServes DEF RequestStep
<1>2. ASSUME NEW c \in Conv, ConvEdit(c)
      PROVE  TypeInv' /\ (SyncTrue => SyncTrue')
  <2>1. ThreadsTyped' /\ edits' = edits + 1 /\ UNCHANGED <<users, teams, org, budgets, torn, req, loose>>
    BY <1>2, ConvEdits DEF TypeInv
  <2>2. RowsTyped'
    BY <2>1 DEF TypeInv, RowsTyped
  <2>3. LocalsTyped' /\ Joined'
    BY <2>1 DEF TypeInv, LocalsTyped, Fits, Joined, Is
  <2>. QED  BY <2>1, <2>2, <2>3 DEF TypeInv, SyncTrue, Is
<1>3. CASE UNCHANGED vars
  <2>1. UNCHANGED <<users, teams, org, budgets, convs, req, edits, torn>>
    BY <1>3 DEF vars
  <2>2. RowsTyped' /\ ThreadsTyped'
    BY <2>1 DEF TypeInv, RowsTyped, ThreadsTyped
  <2>3. LocalsTyped' /\ Joined'
    BY <2>1 DEF TypeInv, LocalsTyped, Fits, Joined, Is
  <2>. QED  BY <2>1, <2>2, <2>3 DEF TypeInv, SyncTrue, Is
<1>. QED  BY <1>1, <1>2, <1>3, StepCases, ServedTypes, RowEditTypes

LEMMA InitTypes ==
  ASSUME Init
  PROVE  TypeInv /\ SyncTrue /\ ThreadInv
<1>1. /\ Max(Limits) \in Limits /\ NoBudget \in Nat /\ Limits \subseteq Nat
  BY Numbers
<1>2. org \in OrgRow
  BY <1>1 DEF Init, OrgRow, Status
<1>3. PICK n \in Limits, m \in Limits \ {0}, used \in Charged :
          /\ teams = [t \in Team |-> [status |-> IF t \in FirstTeams THEN "here" ELSE "unborn",
                                    limit |-> m, used |-> IF t \in FirstTeams THEN used ELSE 0]]
          /\ users = [u \in User |->
                [status |-> IF u \in FirstUsers THEN "here" ELSE "unborn", active |-> TRUE,
                 team |-> IF u \in FirstUsers THEN CHOOSE t \in FirstTeams : TRUE ELSE NoTeam,
                 org |-> u \in FirstUsers, limit |-> n,
                 used |-> IF u \in FirstUsers THEN used ELSE 0, synced |-> FALSE]]
  BY DEF Init
<1>4. used \in Nat
  BY ChatAssumption
<1>5. teams \in [Team -> TeamRow] /\ \A t \in Team : teams[t].status = "unborn" => teams[t].used = 0
  BY <1>3, <1>4 DEF TeamRow, Status
<1>6. (CHOOSE t \in FirstTeams : TRUE) \in Team
  BY ChatAssumption
<1>7. ASSUME NEW u \in User
      PROVE  /\ users[u] \in UserRow /\ users[u].synced = FALSE
             /\ users[u].status = "unborn" => users[u].used = 0 /\ ~users[u].org
  <2>1. CASE u \in FirstUsers
    BY <2>1, <1>3, <1>4, <1>6 DEF UserRow, Status
  <2>2. CASE u \notin FirstUsers
    <3>1. users[u] = [status |-> "unborn", active |-> TRUE, team |-> NoTeam, org |-> u \in FirstUsers,
                      limit |-> n, used |-> 0, synced |-> FALSE]
      BY <2>2, <1>3
    <3>2. (u \in FirstUsers) = FALSE
      BY <2>2
    <3>3. users[u] = [status |-> "unborn", active |-> TRUE, team |-> NoTeam, org |-> FALSE,
                      limit |-> n, used |-> 0, synced |-> FALSE]
      BY <3>1, <3>2
    <3>. QED  BY <3>3 DEF UserRow, Status
  <2>. QED  BY <2>1, <2>2
<1>8. users \in [User -> UserRow]
  BY <1>3, <1>7
<1>9. budgets \in [User -> Nat] /\ edits \in Nat
  BY <1>1 DEF Init
<1>10. RowsTyped
  BY <1>2, <1>5, <1>7, <1>8, <1>9 DEF RowsTyped
<1>11. /\ convs = [c \in Conv |-> [state |-> "none", log |-> <<>>]]
       /\ req = [q \in Request |-> Idle]
  BY DEF Init
<1>12. <<>> \in Seq(Message) /\ DOMAIN <<>> = {}
  BY EmptySeq
<1>13. ThreadsTyped
  BY <1>11, <1>12 DEF ThreadsTyped, Thread
<1>14. LocalsTyped
  BY <1>11, IdleFits DEF LocalsTyped
<1>15. \A q \in Request : req[q].pc \notin {"auth"} \cup Running
  BY <1>11 DEF Idle, Running
<1>16. Joined
  BY <1>15 DEF Joined
<1>17. ThreadInv
  BY <1>11, <1>12, <1>15 DEF ThreadInv, Threaded
<1>. QED  BY <1>7, <1>10, <1>13, <1>14, <1>16, <1>17 DEF TypeInv, SyncTrue

LEMMA TypesAlways == Spec => [](TypeInv /\ SyncTrue)
<1>1. Init => TypeInv /\ SyncTrue
  BY InitTypes
<1>2. TypeInv /\ SyncTrue /\ [Next]_vars => (TypeInv /\ SyncTrue)'
  BY NextTypes
<1>. QED  BY <1>1, <1>2, PTL DEF Spec

(* The rows, the conversations and the locals of a chat request are of     *)
(* their types, a model is asked that has not been, and only a search runs  *)
(* on the route of the documents.                                          *)
THEOREM ChatTyped == Spec => []TypeOK
<1>1. TypeInv => TypeOK
  <2>. SUFFICES ASSUME TypeInv PROVE TypeOK
    OBVIOUS
  <2>1. \A u \in User : users[u].used \in Nat /\ users[u].limit \in Limits
                        /\ users[u].team \in Team \cup {NoTeam}
    BY DEF TypeInv, RowsTyped, UserRow
  <2>2. \A t \in Team : teams[t].used \in Nat /\ teams[t].limit \in Limits
    BY DEF TypeInv, RowsTyped, TeamRow
  <2>3. \A c \in Conv : convs[c].log \in Seq(Message)
                        /\ (convs[c].state # "here" => convs[c].log = <<>>)
    BY DEF TypeInv, ThreadsTyped, Thread
  <2>4. \A q \in Request :
          /\ req[q].pc \in {"new", "auth"} \cup Running \cup Refused \cup Over
          /\ req[q].pc = "ask" <=> req[q].target # ""
          /\ req[q].pc = "ask" => req[q].target \notin req[q].tried
          /\ req[q].pc = "search" => req[q].route = "rag"
    BY DEF TypeInv, LocalsTyped, Fits, Local, Steps
  <2>. QED  BY <2>1, <2>2, <2>3, <2>4 DEF TypeOK
<1>. QED  BY <1>1, TypesAlways, PTL

(* A user marked as synchronized has the limit of its row as its budget in  *)
(* the proxy, unless the gateway died between the commit and the call.      *)
THEOREM SyncHonest == Spec => []SyncTrue
  BY TypesAlways, PTL

-----------------------------------------------------------------------------
(* Conversations.                                                          *)

(* The log of a conversation after a step of a request: as before, or with *)
(* one more message.                                                       *)
LEMMA Grows ==
  ASSUME ThreadsTyped, NEW c \in Conv, NEW m \in Message, Say(c, m), NEW d \in Conv
  PROVE  IsPrefix(convs[d].log, convs'[d].log)
<1>1. /\ convs[c].log \in Seq(Message) /\ convs'[c].log \in Seq(Message)
      /\ Len(convs'[c].log) = Len(convs[c].log) + 1 /\ Len(convs[c].log) \in Nat
      /\ \A i \in 1 .. Len(convs[c].log) : convs'[c].log[i] = convs[c].log[i]
      /\ \A e \in Conv : e # c => convs'[e] = convs[e]
  <2>1. /\ convs[c].log \in Seq(Message) /\ convs'[c].log = Append(convs[c].log, m)
        /\ Len(convs'[c].log) = Len(convs[c].log) + 1
        /\ \A i \in 1 .. Len(convs[c].log) : convs'[c].log[i] = convs[c].log[i]
        /\ \A e \in Conv : e # c => convs'[e] = convs[e]
    BY Said
  <2>2. convs'[c].log \in Seq(Message)
    BY <2>1, AppendProperties
  <2>. QED  BY <2>1, <2>2, LenProperties
<1>2. CASE d = c
  <2>. DEFINE s == convs[c].log
              t == convs'[c].log
              n == Len(s)
  <2>1. /\ s \in Seq(Message) /\ t \in Seq(Message) /\ n \in Nat /\ Len(t) = n + 1
        /\ \A i \in 1 .. n : t[i] = s[i]
    BY <1>1
  <2>. HIDE DEF s, t, n
  <2>2. n = Len(s)
    BY DEF n
  <2>3. /\ SubSeq(s, 1, n) \in Seq(Message) /\ SubSeq(t, 1, n) \in Seq(Message)
        /\ Len(SubSeq(s, 1, n)) = n /\ Len(SubSeq(t, 1, n)) = n
        /\ \A i \in 1 .. n : SubSeq(s, 1, n)[i] = s[i] /\ SubSeq(t, 1, n)[i] = t[i]
    <3>1. \A i \in 1 .. n : s[i] \in Message /\ t[i] \in Message
      BY <2>1, <2>2, LenProperties
    <3>2. /\ SubSeq(s, 1, n) \in Seq(Message)
          /\ Len(SubSeq(s, 1, n)) = IF 1 <= n THEN n - 1 + 1 ELSE 0
          /\ \A i \in 1 .. (n - 1 + 1) : SubSeq(s, 1, n)[i] = s[1 + i - 1]
      BY <2>1, <3>1, SubSeqProperties
    <3>3. /\ SubSeq(t, 1, n) \in Seq(Message)
          /\ Len(SubSeq(t, 1, n)) = IF 1 <= n THEN n - 1 + 1 ELSE 0
          /\ \A i \in 1 .. (n - 1 + 1) : SubSeq(t, 1, n)[i] = t[1 + i - 1]
      BY <2>1, <3>1, SubSeqProperties
    <3>4. (IF 1 <= n THEN n - 1 + 1 ELSE 0) = n
      BY <2>1
    <3>5. \A i \in 1 .. n : i \in 1 .. (n - 1 + 1) /\ 1 + i - 1 = i
      BY <2>1
    <3>6. \A i \in 1 .. n : SubSeq(s, 1, n)[i] = s[i]
      BY <3>2, <3>5
    <3>7. \A i \in 1 .. n : SubSeq(t, 1, n)[i] = t[i]
      BY <3>3, <3>5
    <3>. QED  BY <3>2, <3>3, <3>4, <3>6, <3>7
  <2>4. SubSeq(s, 1, n) = SubSeq(t, 1, n)
    BY <2>1, <2>3, SeqEqual
  <2>5. IsPrefix(s, t)
    BY <2>1, <2>2, <2>4 DEF IsPrefix
  <2>. QED  BY <1>2, <2>5 DEF s, t
<1>3. CASE d # c
  <2>1. convs'[d] = convs[d] /\ Len(convs[d].log) \in Nat
    BY <1>1, <1>3, LenProperties DEF ThreadsTyped, Thread
  <2>. QED  BY <2>1 DEF IsPrefix
<1>. QED  BY <1>2, <1>3

LEMMA SameLogs ==
  ASSUME ThreadsTyped, convs' = convs, NEW d \in Conv
  PROVE  IsPrefix(convs[d].log, convs'[d].log)
<1>1. Len(convs[d].log) \in Nat
  BY LenProperties DEF ThreadsTyped, Thread
<1>. QED  BY <1>1 DEF IsPrefix

LEMMA MessagesKept ==
  ASSUME TypeInv, [Next]_vars, edits' = edits, NEW d \in Conv
  PROVE  IsPrefix(convs[d].log, convs'[d].log)
<1>1. ThreadsTyped /\ edits \in Nat
  BY DEF TypeInv, RowsTyped
<1>2. \A q \in Request : <<"user", q>> \in Message /\ <<"assistant", q>> \in Message
  BY DEF Message
<1>3. ASSUME NEW q \in Request, RequestStep(q)
      PROVE  IsPrefix(convs[d].log, convs'[d].log)
  <2>1. CASE \E j \in Local : Quiet(q, j)
    BY <1>1, <2>1, SameLogs DEF Quiet
  <2>2. CASE Prepare(q)
    BY <1>1, <1>2, <2>2, PrepareServes, Grows
  <2>3. CASE PrepareFails(q)
    BY <1>1, <1>2, <2>3, PrepareFailsServes, Grows
  <2>4. CASE Finalize(q)
    BY <1>1, <1>2, <2>4, FinalizeServes, Grows, SameLogs
  <2>. QED  BY <1>3, <2>1, <2>2, <2>3, <2>4 DEF RequestStep
<1>4. \A c \in Conv : ~ ConvEdit(c)
  BY <1>1, ConvEdits
<1>5. ~ RowEdit
  BY <1>1 DEF RowEdit
<1>6. CASE UNCHANGED vars
  BY <1>1, <1>6, SameLogs DEF vars
<1>. QED  BY <1>3, <1>4, <1>5, <1>6, StepCases

(* Streams that end in one conversation lose none of its messages: only an  *)
(* edit or a deletion takes one away.                                      *)
THEOREM MessagesLast == Spec => KeptMessages
<1>1. TypeInv /\ [Next]_vars =>
        [\A c \in Conv : edits' = edits => IsPrefix(convs[c].log, convs'[c].log)]_vars
  BY MessagesKept
<1>. QED  BY <1>1, TypesAlways, PTL DEF KeptMessages, Spec

LEMMA DeletedStays ==
  ASSUME TypeInv, [Next]_vars, NEW d \in Conv, convs[d].state = "gone", convs'[d].state = "here"
  PROVE  Last(convs'[d].log)[1] = "user"
<1>1. ThreadsTyped /\ convs \in [Conv -> Thread]
  BY DEF TypeInv, ThreadsTyped
<1>2. ASSUME NEW q \in Request, NEW c \in Conv, Say(c, <<"user", q>>)
      PROVE  Last(convs'[d].log)[1] = "user"
  <2>1. <<"user", q>> \in Message
    BY DEF Message
  <2>2. /\ Len(convs'[c].log) = Len(convs[c].log) + 1
        /\ convs'[c].log[Len(convs[c].log) + 1] = <<"user", q>>
        /\ \A e \in Conv : e # c => convs'[e] = convs[e]
    BY <1>1, <1>2, <2>1, Said
  <2>3. d = c
    BY <2>2
  <2>. QED  BY <2>2, <2>3 DEF Last
<1>3. ASSUME NEW q \in Request, RequestStep(q)
      PROVE  Last(convs'[d].log)[1] = "user"
  <2>1. CASE \E j \in Local : Quiet(q, j)
    BY <2>1 DEF Quiet
  <2>2. CASE Prepare(q)
    BY <1>2, <2>2, PrepareServes
  <2>3. CASE PrepareFails(q)
    BY <1>2, <2>3, PrepareFailsServes
  <2>4. CASE Finalize(q)
    <3>1. /\ req[q].conv \in Conv
          /\ IF convs[req[q].conv].state = "here" THEN Say(req[q].conv, <<"assistant", q>>)
                                                  ELSE UNCHANGED convs
      BY <2>4, FinalizeServes
    <3>. QED  BY <3>1, <1>1 DEF Say
  <2>. QED  BY <1>3, <2>1, <2>2, <2>3, <2>4 DEF RequestStep
<1>4. ASSUME NEW c \in Conv, ConvEdit(c)
      PROVE  FALSE
  <2>1. CASE CreateConversation(c)
    BY <2>1, <1>1 DEF CreateConversation, Thread
  <2>2. CASE DeleteConversation(c)
    BY <2>2, <1>1 DEF DeleteConversation
  <2>3. CASE \E i \in DOMAIN convs[c].log : EditConversation(c, i)
    BY <2>3, <1>1, Cuts
  <2>. QED  BY <1>4, <2>1, <2>2, <2>3 DEF ConvEdit
<1>5. ~ RowEdit
  BY DEF RowEdit
<1>6. CASE UNCHANGED vars
  BY <1>6 DEF vars
<1>. QED  BY <1>3, <1>4, <1>5, <1>6, StepCases

(* A deleted conversation comes back only with a prompt: no answer that was *)
(* streaming brings it back.                                               *)
THEOREM DeletedLasts == Spec => StaysDeleted
<1>1. TypeInv /\ [Next]_vars =>
        [\A c \in Conv : convs[c].state = "gone" /\ convs'[c].state = "here" =>
            Last(convs'[c].log)[1] = "user"]_vars
  BY DeletedStays
<1>. QED  BY <1>1, TypesAlways, PTL DEF StaysDeleted, Spec

(* The prompt of a request is where its answer goes, until it is cut.      *)
Asked(q) == \E k \in DOMAIN convs[req[q].conv].log :
                convs[req[q].conv].log[k] = <<"user", q>>

Behind(log, i, q) == \E k \in 1 .. (i - 1) : log[k] = <<"user", q>>

InOrder(log, gone) ==
    \A i \in DOMAIN log : \A q \in Request \ gone :
        log[i] = <<"assistant", q>> => Behind(log, i, q)

LEMMA ThreadedInOrder ==
  /\ Threaded <=> \A c \in Conv : InOrder(convs[c].log, cut)
  /\ Threaded' <=> \A c \in Conv : InOrder(convs'[c].log, cut')
  BY DEF Threaded, InOrder, Behind

LEMMA InOrderLasts ==
  ASSUME NEW log, NEW gone, NEW more, gone \subseteq more, InOrder(log, gone)
  PROVE  InOrder(log, more)
  BY DEF InOrder

LEMMA SaidThreads ==
  ASSUME ThreadInv, ThreadsTyped, NEW p \in Request, NEW c \in Conv, NEW r \in {"user", "assistant"},
         Say(c, <<r, p>>), cut' = cut,
         r = "assistant" /\ p \notin cut => \E k \in DOMAIN convs[c].log : convs[c].log[k] = <<"user", p>>
  PROVE  /\ Threaded'
         /\ \A d \in Conv : \A q \in Request :
               (\E k \in DOMAIN convs[d].log : convs[d].log[k] = <<"user", q>>) =>
               \E k \in DOMAIN convs'[d].log : convs'[d].log[k] = <<"user", q>>
         /\ r = "user" => \E k \in DOMAIN convs'[c].log : convs'[c].log[k] = <<"user", p>>
<1>. DEFINE n == Len(convs[c].log)
<1>1. <<r, p>> \in Message
  BY DEF Message
<1>2. /\ convs[c].log \in Seq(Message) /\ convs'[c].log \in Seq(Message)
      /\ Len(convs'[c].log) = n + 1 /\ n \in Nat
      /\ DOMAIN convs[c].log = 1 .. n /\ DOMAIN convs'[c].log = 1 .. (n + 1)
      /\ \A i \in 1 .. n : convs'[c].log[i] = convs[c].log[i]
      /\ convs'[c].log[n + 1] = <<r, p>>
      /\ \A d \in Conv : d # c => convs'[d] = convs[d]
  <2>1. /\ convs[c].log \in Seq(Message) /\ convs'[c].log = Append(convs[c].log, <<r, p>>)
        /\ Len(convs'[c].log) = n + 1
        /\ \A i \in 1 .. n : convs'[c].log[i] = convs[c].log[i]
        /\ convs'[c].log[n + 1] = <<r, p>>
        /\ \A d \in Conv : d # c => convs'[d] = convs[d]
    BY <1>1, Said
  <2>2. convs'[c].log \in Seq(Message)
    BY <1>1, <2>1, AppendProperties
  <2>. QED  BY <2>1, <2>2, LenProperties
<1>. HIDE DEF n
<1>0. \A d \in Conv : InOrder(convs[d].log, cut)
  BY ThreadedInOrder DEF ThreadInv
<1>3. ASSUME NEW i \in DOMAIN convs'[c].log, NEW q \in Request \ cut,
             convs'[c].log[i] = <<"assistant", q>>
      PROVE  Behind(convs'[c].log, i, q)
  <2>3. CASE i \in 1 .. n
    <3>1. convs[c].log[i] = <<"assistant", q>> /\ i \in DOMAIN convs[c].log
      BY <2>3, <1>2, <1>3
    <3>2. PICK k \in 1 .. (i - 1) : convs[c].log[k] = <<"user", q>>
      BY <1>0, <3>1 DEF InOrder, Behind
    <3>3. k \in 1 .. n
      BY <1>2, <2>3
    <3>. QED  BY <2>3, <3>2, <3>3, <1>2 DEF Behind
  <2>4. CASE i = n + 1
    <3>1. <<r, p>> = <<"assistant", q>>
      BY <2>4, <1>2, <1>3
    <3>2. r = "assistant" /\ p = q
      BY <3>1
    <3>3. PICK k \in DOMAIN convs[c].log : convs[c].log[k] = <<"user", q>>
      BY <3>2
    <3>4. k \in 1 .. (i - 1) /\ convs'[c].log[k] = <<"user", q>>
      BY <2>4, <3>3, <1>2
    <3>. QED  BY <2>4, <3>4 DEF Behind
  <2>. QED  BY <2>3, <2>4, <1>2
<1>4. Threaded'
  <2>1. InOrder(convs'[c].log, cut)
    BY <1>3 DEF InOrder
  <2>2. \A d \in Conv : InOrder(convs'[d].log, cut')
    BY <1>0, <1>2, <2>1
  <2>. QED  BY <2>2, ThreadedInOrder
<1>5. ASSUME NEW d \in Conv, NEW q \in Request,
             NEW k \in DOMAIN convs[d].log, convs[d].log[k] = <<"user", q>>
      PROVE  k \in DOMAIN convs'[d].log /\ convs'[d].log[k] = <<"user", q>>
  <2>1. CASE d = c
    BY <2>1, <1>2, <1>5
  <2>2. CASE d # c
    BY <2>2, <1>2, <1>5
  <2>. QED  BY <2>1, <2>2
<1>6. n + 1 \in DOMAIN convs'[c].log
  BY <1>2
<1>. QED  BY <1>2, <1>4, <1>5, <1>6

LEMMA NextThreads ==
  ASSUME TypeInv, ThreadInv, [Next]_vars
  PROVE  ThreadInv'
<1>1. ThreadsTyped /\ req \in [Request -> Local] /\ \A q \in Request : Fits(req[q])
  BY DEF TypeInv, LocalsTyped
<1>2. ASSUME NEW q \in Request, Prepare(q)
      PROVE  ThreadInv'
  <2>1. /\ Served(q, At(req[q], "stream"), Prompt) /\ req[q].conv \in Conv
        /\ Say(req[q].conv, <<"user", q>>) /\ At(req[q], "stream").pc = "stream"
    BY <1>2, PrepareServes
  <2>2. /\ req' = [req EXCEPT ![q] = At(req[q], "stream")] /\ cut' = cut
        /\ At(req[q], "stream").conv = req[q].conv
    BY <2>1 DEF Served, history, Running
  <2>3. /\ Threaded'
        /\ \A d \in Conv : \A p \in Request :
               (\E k \in DOMAIN convs[d].log : convs[d].log[k] = <<"user", p>>) =>
               \E k \in DOMAIN convs'[d].log : convs'[d].log[k] = <<"user", p>>
        /\ \E k \in DOMAIN convs'[req[q].conv].log : convs'[req[q].conv].log[k] = <<"user", q>>
    BY <1>1, <2>1, <2>2, SaidThreads
  <2>4. ASSUME NEW p \in Request \ cut', req'[p].pc \in Running
        PROVE  \E k \in DOMAIN convs'[req'[p].conv].log : convs'[req'[p].conv].log[k] = <<"user", p>>
    <3>1. CASE p = q
      BY <3>1, <1>1, <2>2, <2>3
    <3>2. CASE p # q
      <4>1. req'[p] = req[p] /\ p \in Request \ cut
        BY <3>2, <1>1, <2>2
      <4>2. req[p].conv \in Conv
        BY <1>1, <2>4, <4>1 DEF Fits
      <4>3. \E k \in DOMAIN convs[req[p].conv].log : convs[req[p].conv].log[k] = <<"user", p>>
        BY <2>4, <4>1 DEF ThreadInv
      <4>. QED  BY <4>1, <4>2, <4>3, <2>3
    <3>. QED  BY <3>1, <3>2
  <2>. QED  BY <2>3, <2>4 DEF ThreadInv
<1>3. ASSUME NEW q \in Request, NEW j, NEW n, Served(q, j, n), j.pc \notin Running \/ req[q].pc \in Running,
             \/ convs' = convs
             \/ \E c \in Conv, r \in {"user", "assistant"} :
                  /\ Say(c, <<r, q>>)
                  /\ r = "assistant" /\ q \notin cut =>
                        \E k \in DOMAIN convs[c].log : convs[c].log[k] = <<"user", q>>
      PROVE  ThreadInv'
  <2>1. /\ req' = [req EXCEPT ![q] = j] /\ cut' = cut
        /\ j.pc \in Running => j.conv = req[q].conv
    BY <1>3 DEF Served, history
  <2>2. /\ Threaded'
        /\ \A d \in Conv : \A p \in Request :
               (\E k \in DOMAIN convs[d].log : convs[d].log[k] = <<"user", p>>) =>
               \E k \in DOMAIN convs'[d].log : convs'[d].log[k] = <<"user", p>>
    <3>1. CASE convs' = convs
      BY <3>1, <2>1, ThreadedInOrder DEF ThreadInv
    <3>2. CASE convs' # convs
      BY <1>1, <1>3, <2>1, <3>2, SaidThreads
    <3>. QED  BY <3>1, <3>2
  <2>3. ASSUME NEW p \in Request \ cut', req'[p].pc \in Running
        PROVE  \E k \in DOMAIN convs'[req'[p].conv].log : convs'[req'[p].conv].log[k] = <<"user", p>>
    <3>1. req[p].pc \in Running /\ req'[p].conv = req[p].conv /\ p \in Request \ cut
      BY <1>1, <1>3, <2>1, <2>3
    <3>2. req[p].conv \in Conv
      BY <1>1, <3>1 DEF Fits
    <3>3. \E k \in DOMAIN convs[req[p].conv].log : convs[req[p].conv].log[k] = <<"user", p>>
      BY <3>1 DEF ThreadInv
    <3>. QED  BY <3>1, <3>2, <3>3, <2>2
  <2>. QED  BY <2>2, <2>3 DEF ThreadInv
<1>4. ASSUME NEW q \in Request, RequestStep(q)
      PROVE  ThreadInv'
  <2>1. CASE \E j \in Local : Quiet(q, j) /\ Served(q, j, 0)
    BY <2>1, <1>3 DEF Quiet
  <2>2. CASE PrepareFails(q)
    <3>1. /\ Served(q, At(req[q], "error"), 0)
          /\ req[q].conv \in Conv /\ Say(req[q].conv, <<"user", q>>)
          /\ At(req[q], "error").pc = "error"
      BY <2>2, PrepareFailsServes
    <3>. QED  BY <3>1, <1>3 DEF Running
  <2>3. CASE Finalize(q)
    <3>1. /\ Served(q, At(req[q], "stored"), req[q].cost)
          /\ req[q].conv \in Conv
          /\ IF convs[req[q].conv].state = "here" THEN Say(req[q].conv, <<"assistant", q>>)
                                                  ELSE UNCHANGED convs
          /\ req[q].pc = "complete" /\ At(req[q], "stored").pc = "stored"
      BY <2>3, FinalizeServes
    <3>2. req[q].pc \in Running /\ At(req[q], "stored").pc \notin Running
      BY <3>1 DEF Running
    <3>3. q \notin cut => \E k \in DOMAIN convs[req[q].conv].log : convs[req[q].conv].log[k] = <<"user", q>>
      BY <3>2 DEF ThreadInv
    <3>. QED  BY <3>1, <3>2, <3>3, <1>3
  <2>. QED  BY <1>4, <2>1, <2>2, <2>3, <1>2 DEF RequestStep
<1>5. ASSUME RowEdit
      PROVE  ThreadInv'
  <2>1. convs' = convs /\ cut' = cut /\ \A q \in Request : req'[q].pc \in Pending => req'[q] = req[q]
    BY <1>5 DEF RowEdit, LocalKept
  <2>2. Threaded'
    BY <2>1, ThreadedInOrder DEF ThreadInv
  <2>3. ASSUME NEW p \in Request \ cut', req'[p].pc \in Running
        PROVE  \E k \in DOMAIN convs'[req'[p].conv].log : convs'[req'[p].conv].log[k] = <<"user", p>>
    BY <2>1, <2>3 DEF ThreadInv, Pending
  <2>. QED  BY <2>2, <2>3 DEF ThreadInv
<1>6. ASSUME UNCHANGED vars
      PROVE  ThreadInv'
  <2>1. convs' = convs /\ cut' = cut /\ req' = req
    BY <1>6 DEF vars
  <2>2. Threaded'
    BY <2>1, ThreadedInOrder DEF ThreadInv
  <2>. QED  BY <2>1, <2>2 DEF ThreadInv
<1>7. ASSUME NEW c \in Conv, ConvEdit(c)
      PROVE  ThreadInv'
  <2>1. req' = req
    BY <1>1, <1>7, ConvEdits
  <2>2. CASE CreateConversation(c)
    <3>1. cut' = cut /\ \A d \in Conv : convs'[d].log = convs[d].log
      BY <2>2, <1>1 DEF CreateConversation, history, ThreadsTyped, Thread
    <3>2. Threaded'
      BY <3>1, ThreadedInOrder DEF ThreadInv
    <3>3. \A p \in Request : req[p].pc \in Running => req[p].conv \in Conv
      BY <1>1 DEF Fits
    <3>. QED  BY <2>1, <3>1, <3>2, <3>3 DEF ThreadInv
  <2>3. CASE DeleteConversation(c)
    <3>1. /\ convs'[c].log = <<>> /\ \A d \in Conv : d # c => convs'[d] = convs[d]
          /\ cut' = cut \cup Prompts(convs[c].log)
      BY <2>3, <1>1 DEF DeleteConversation, ThreadsTyped
    <3>2. DOMAIN convs'[c].log = {}
      BY <3>1
    <3>3. Threaded'
      <4>1. InOrder(convs'[c].log, cut')
        BY <3>2 DEF InOrder
      <4>2. \A d \in Conv : InOrder(convs[d].log, cut)
        BY ThreadedInOrder DEF ThreadInv
      <4>3. \A d \in Conv : InOrder(convs'[d].log, cut')
        BY <3>1, <4>1, <4>2, InOrderLasts
      <4>. QED  BY <4>3, ThreadedInOrder
    <3>4. ASSUME NEW p \in Request \ cut', req'[p].pc \in Running
          PROVE  \E k \in DOMAIN convs'[req'[p].conv].log : convs'[req'[p].conv].log[k] = <<"user", p>>
      <4>1. req[p].conv \in Conv /\ p \in Request \ cut /\ req[p].pc \in Running
        BY <1>1, <2>1, <3>1, <3>4 DEF Fits
      <4>2. \E k \in DOMAIN convs[req[p].conv].log : convs[req[p].conv].log[k] = <<"user", p>>
        BY <4>1 DEF ThreadInv
      <4>3. req[p].conv # c
        BY <4>2, <3>1 DEF Prompts
      <4>. QED  BY <4>1, <4>2, <4>3, <2>1, <3>1
    <3>. QED  BY <3>3, <3>4 DEF ThreadInv
  <2>4. ASSUME NEW i \in DOMAIN convs[c].log, EditConversation(c, i)
        PROVE  ThreadInv'
    <3>1. /\ Len(convs[c].log) \in Nat /\ i \in 1 .. Len(convs[c].log)
          /\ DOMAIN convs'[c].log = 1 .. (i - 1)
          /\ \A k \in 1 .. (i - 1) : convs'[c].log[k] = convs[c].log[k]
          /\ \A d \in Conv : d # c => convs'[d] = convs[d]
          /\ \A k \in i .. Len(convs[c].log) : \A q \in Request :
                convs[c].log[k] = <<"user", q>> => q \in cut'
      BY <1>1, <2>4, Cuts
    <3>2. cut \subseteq cut' /\ DOMAIN convs[c].log = 1 .. Len(convs[c].log)
      BY <1>1, <2>4, LenProperties DEF EditConversation, ThreadsTyped, Thread
    <3>5. \A d \in Conv : InOrder(convs[d].log, cut)
      BY ThreadedInOrder DEF ThreadInv
    <3>6. ASSUME NEW k \in DOMAIN convs'[c].log, NEW q \in Request \ cut',
                 convs'[c].log[k] = <<"assistant", q>>
          PROVE  Behind(convs'[c].log, k, q)
      <4>1. k \in 1 .. (i - 1) /\ k \in DOMAIN convs[c].log /\ convs[c].log[k] = <<"assistant", q>>
        <5>1. k \in 1 .. (i - 1)
          BY <3>1, <3>6
        <5>2. k \in 1 .. Len(convs[c].log)
          BY <5>1, <3>1
        <5>. QED  BY <5>1, <5>2, <3>1, <3>2, <3>6
      <4>2. PICK m \in 1 .. (k - 1) : convs[c].log[m] = <<"user", q>>
        BY <4>1, <3>2, <3>5 DEF InOrder, Behind
      <4>3. m \in 1 .. (i - 1)
        BY <4>1, <3>1
      <4>. QED  BY <4>2, <4>3, <3>1 DEF Behind
    <3>7. InOrder(convs'[c].log, cut')
      BY <3>6 DEF InOrder
    <3>8. \A d \in Conv : InOrder(convs'[d].log, cut')
      BY <3>1, <3>2, <3>5, <3>7, InOrderLasts
    <3>3. Threaded'
      BY <3>8, ThreadedInOrder
    <3>4. ASSUME NEW p \in Request \ cut', req'[p].pc \in Running
          PROVE  \E k \in DOMAIN convs'[req'[p].conv].log : convs'[req'[p].conv].log[k] = <<"user", p>>
      <4>1. req[p].conv \in Conv /\ p \in Request \ cut /\ req[p].pc \in Running
        BY <1>1, <2>1, <3>2, <3>4 DEF Fits
      <4>2. PICK k \in DOMAIN convs[req[p].conv].log : convs[req[p].conv].log[k] = <<"user", p>>
        BY <4>1 DEF ThreadInv
      <4>3. CASE req[p].conv # c
        BY <4>1, <4>2, <4>3, <2>1, <3>1
      <4>4. CASE req[p].conv = c
        <5>1. k \in 1 .. Len(convs[c].log) /\ k \notin i .. Len(convs[c].log)
          BY <4>2, <4>4, <3>1, <3>2, <3>4
        <5>2. k \in 1 .. (i - 1)
          BY <5>1, <3>1
        <5>. QED  BY <4>2, <4>4, <5>2, <2>1, <3>1
      <4>. QED  BY <4>3, <4>4
    <3>. QED  BY <3>3, <3>4 DEF ThreadInv
  <2>. QED  BY <1>7, <2>2, <2>3, <2>4 DEF ConvEdit
<1>. QED  BY <1>4, <1>5, <1>6, <1>7, StepCases

(* An answer stands behind its prompt, unless that has been edited away or  *)
(* its conversation deleted and made again while the answer was streaming:  *)
(* inductive with the prompt of every request that is still answered.      *)
THEOREM AnswersThreaded == Spec => []Threaded
<1>1. Init => ThreadInv
  BY InitTypes
<1>2. TypeInv /\ ThreadInv /\ [Next]_vars => ThreadInv'
  BY NextThreads
<1>3. ThreadInv => Threaded
  BY DEF ThreadInv
<1>. QED  BY <1>1, <1>2, <1>3, TypesAlways, PTL DEF Spec

-----------------------------------------------------------------------------
(* The ledger.                                                             *)

(* What a step adds to what is due for the requests that satisfy mine.      *)
Delta(mine) == [q \in Request |-> IF q \in mine THEN Due(req'[q]) - Due(req[q]) ELSE 0]

LEMMA DueNat ==
  ASSUME NEW j \in Local
  PROVE  Due(j) \in Nat
<1>1. Prompt \in Nat /\ j.cost \in Nat
  BY Numbers DEF Local
<1>. QED  BY <1>1 DEF Due

(* A step of one request moves the account of whoever it is for by what it  *)
(* charges; any other step moves none.                                     *)
LEMMA DeltaServed ==
  ASSUME LocalsTyped, NEW q \in Request, NEW j, NEW n, Served(q, j, n), NEW mine \in SUBSET Request
  PROVE  Total(Delta(mine), Request) = IF q \in mine THEN n ELSE 0
<1>1. /\ req' = [req EXCEPT ![q] = j] /\ j \in Local /\ n \in Nat /\ Due(j) = Due(req[q]) + n
      /\ req \in [Request -> Local]
  BY DEF Served, Fits, LocalsTyped
<1>2. \A p \in Request : Due(req[p]) \in Nat
  BY <1>1, DueNat
<1>3. ASSUME NEW p \in Request
      PROVE  Delta(mine)[p] = IF p = q /\ q \in mine THEN n ELSE 0
  <2>1. CASE p = q
    <3>1. req'[p] = j /\ Due(req[q]) \in Nat
      BY <2>1, <1>1, <1>2
    <3>2. Due(req'[p]) - Due(req[p]) = n
      BY <2>1, <3>1, <1>1
    <3>. QED  BY <2>1, <3>2 DEF Delta
  <2>2. CASE p # q
    <3>1. req'[p] = req[p]
      BY <2>2, <1>1
    <3>2. Due(req'[p]) - Due(req[p]) = 0
      BY <3>1, <1>2
    <3>. QED  BY <2>2, <3>2 DEF Delta
  <2>. QED  BY <2>1, <2>2
<1>4. IsFiniteSet(Request)
  BY ChatAssumption
<1>. QED  BY <1>1, <1>3, <1>4, TotalOnly

LEMMA DeltaNone ==
  ASSUME LocalsTyped, \A q \in Request : Due(req'[q]) = Due(req[q]), NEW mine
  PROVE  Total(Delta(mine), Request) = 0
<1>1. \A q \in Request : Due(req[q]) \in Nat
  BY DueNat DEF LocalsTyped
<1>2. \A q \in Request : Delta(mine)[q] = 0
  BY <1>1 DEF Delta
<1>3. IsFiniteSet(Request)
  BY ChatAssumption
<1>. QED  BY <1>2, <1>3, TotalZero

LEMMA Balanced ==
  ASSUME TypeInv, [Next]_vars
  PROVE  /\ \A u \in User : Is(users[u]) /\ Is(users'[u]) =>
               users'[u].used = users[u].used + Total(Delta({q \in Request : req[q].user = u}), Request)
         /\ \A t \in Team : Is(teams[t]) /\ Is(teams'[t]) =>
               teams'[t].used = teams[t].used + Total(Delta({q \in Request : req[q].team = t}), Request)
<1>1. LocalsTyped /\ (\A u \in User : users[u].used \in Nat) /\ (\A t \in Team : teams[t].used \in Nat)
  BY DEF TypeInv, RowsTyped, UserRow, TeamRow
<1>2. ASSUME NEW q \in Request, NEW j, NEW n, Served(q, j, n)
      PROVE  /\ \A u \in User : Is(users[u]) =>
                   users'[u].used = users[u].used + Total(Delta({p \in Request : req[p].user = u}), Request)
             /\ \A t \in Team : Is(teams[t]) =>
                   teams'[t].used = teams[t].used + Total(Delta({p \in Request : req[p].team = t}), Request)
  <2>1. \A mine \in SUBSET Request : Total(Delta(mine), Request) = IF q \in mine THEN n ELSE 0
    BY <1>1, <1>2, DeltaServed
  <2>2. /\ \A x : Total(Delta({p \in Request : req[p].user = x}), Request) = IF req[q].user = x THEN n ELSE 0
        /\ \A x : Total(Delta({p \in Request : req[p].team = x}), Request) = IF req[q].team = x THEN n ELSE 0
    BY <2>1
  <2>3. /\ \A u \in User : users'[u].used = users[u].used + (IF u = req[q].user /\ Is(users[u]) THEN n ELSE 0)
        /\ \A t \in Team : teams'[t].used = teams[t].used + (IF t = req[q].team /\ Is(teams[t]) THEN n ELSE 0)
    BY <1>2 DEF Served
  <2>. QED  BY <2>2, <2>3
<1>3. ASSUME \A q \in Request : Due(req'[q]) = Due(req[q]),
             \A u \in User : users'[u].used = users[u].used,
             \A t \in Team : teams'[t].used = teams[t].used
      PROVE  /\ \A u \in User :
                   users'[u].used = users[u].used + Total(Delta({p \in Request : req[p].user = u}), Request)
             /\ \A t \in Team :
                   teams'[t].used = teams[t].used + Total(Delta({p \in Request : req[p].team = t}), Request)
  <2>1. \A mine : Total(Delta(mine), Request) = 0
    BY <1>1, <1>3, DeltaNone
  <2>. HIDE DEF Delta
  <2>. QED  BY <2>1, <1>1, <1>3
<1>4. ASSUME NEW q \in Request, RequestStep(q)
      PROVE  \E j, n : Served(q, j, n)
  BY <1>4, PrepareServes, PrepareFailsServes, FinalizeServes DEF RequestStep
<1>5. ASSUME \/ \E c \in Conv : ConvEdit(c)
             \/ RowEdit \/ UNCHANGED vars
      PROVE  /\ \A q \in Request : Due(req'[q]) = Due(req[q])
             /\ \A u \in User : users'[u].used = users[u].used
             /\ \A t \in Team : teams'[t].used = teams[t].used
  <2>1. CASE \E c \in Conv : ConvEdit(c)
    BY <2>1, ConvEdits DEF TypeInv
  <2>2. CASE RowEdit
    BY <2>2 DEF RowEdit, UserKept, TeamKept, LocalKept
  <2>3. CASE UNCHANGED vars
    BY <2>3 DEF vars
  <2>. QED  BY <1>5, <2>1, <2>2, <2>3
<1>. QED  BY <1>2, <1>3, <1>4, <1>5, StepCases

(* While its row exists, the used tokens of a user and of a team grow by    *)
(* exactly what is due for their requests: no lost update, no double        *)
(* charge.                                                                 *)
THEOREM LedgerExact == Spec => Ledger
<1>1. TypeInv /\ [Next]_vars =>
        [/\ \A u \in User : Is(users[u]) /\ Is(users'[u]) =>
               users'[u].used = users[u].used +
                  MapThenSumSet(LAMBDA q : IF req[q].user = u THEN Due(req'[q]) - Due(req[q])
                                           ELSE 0, Request)
         /\ \A t \in Team : Is(teams[t]) /\ Is(teams'[t]) =>
               teams'[t].used = teams[t].used +
                  MapThenSumSet(LAMBDA q : IF req[q].team = t THEN Due(req'[q]) - Due(req[q])
                                           ELSE 0, Request)]_vars
  <2>. SUFFICES ASSUME TypeInv, [Next]_vars
       PROVE  /\ \A u \in User : Is(users[u]) /\ Is(users'[u]) =>
                    users'[u].used = users[u].used +
                       MapThenSumSet(LAMBDA q : IF req[q].user = u THEN Due(req'[q]) - Due(req[q])
                                                ELSE 0, Request)
              /\ \A t \in Team : Is(teams[t]) /\ Is(teams'[t]) =>
                    teams'[t].used = teams[t].used +
                       MapThenSumSet(LAMBDA q : IF req[q].team = t THEN Due(req'[q]) - Due(req[q])
                                                ELSE 0, Request)
    OBVIOUS
  <2>1. ASSUME NEW u \in User, Is(users[u]), Is(users'[u])
        PROVE  users'[u].used = users[u].used +
                 MapThenSumSet(LAMBDA q : IF req[q].user = u THEN Due(req'[q]) - Due(req[q])
                                          ELSE 0, Request)
    <3>1. MapThenSumSet(LAMBDA q : IF req[q].user = u THEN Due(req'[q]) - Due(req[q])
                                   ELSE 0, Request)
            = Total(Delta({q \in Request : req[q].user = u}), Request)
      BY DEF MapThenSumSet, MapThenFoldSet, Total, Delta
    <3>. QED  BY <2>1, <3>1, Balanced
  <2>2. ASSUME NEW t \in Team, Is(teams[t]), Is(teams'[t])
        PROVE  teams'[t].used = teams[t].used +
                 MapThenSumSet(LAMBDA q : IF req[q].team = t THEN Due(req'[q]) - Due(req[q])
                                          ELSE 0, Request)
    <3>1. MapThenSumSet(LAMBDA q : IF req[q].team = t THEN Due(req'[q]) - Due(req[q])
                                   ELSE 0, Request)
            = Total(Delta({q \in Request : req[q].team = t}), Request)
      BY DEF MapThenSumSet, MapThenFoldSet, Total, Delta
    <3>. QED  BY <2>2, <3>1, Balanced
  <2>. QED  BY <2>1, <2>2
<1>. QED  BY <1>1, TypesAlways, PTL DEF Ledger, Spec

-----------------------------------------------------------------------------
(* Quotas: the sum of an organization, over all users instead of a set that *)
(* changes, and what a step makes of it.                                   *)

OrgSum(us) == MapThenSumSet(LAMBDA u : us[u].used, {u \in User : Is(us[u]) /\ us[u].org})
Share(us) == [u \in User |-> IF Is(us[u]) /\ us[u].org THEN us[u].used ELSE 0]

LEMMA OrgUsedSum == OrgUsed = OrgSum(users) /\ OrgUsed' = OrgSum(users')
  BY DEF OrgUsed, OrgSum, MapThenSumSet, MapThenFoldSet

LEMMA SumOfUsed ==
  ASSUME NEW us, NEW S
  PROVE  MapThenSumSet(LAMBDA u : us[u].used, S) = Total([u \in S |-> us[u].used], S)
  BY DEF MapThenSumSet, MapThenFoldSet, Total

LEMMA ShareNat ==
  ASSUME NEW us \in [User -> UserRow]
  PROVE  \A u \in User : Share(us)[u] \in Nat
  BY DEF Share, UserRow

LEMMA OrgSumShares ==
  ASSUME NEW us \in [User -> UserRow]
  PROVE  OrgSum(us) = Total(Share(us), User) /\ OrgSum(us) \in Nat
<1>. DEFINE S == {u \in User : Is(us[u]) /\ us[u].org}
            h == [u \in S |-> us[u].used]
            zero == [u \in User |-> 0]
<1>1. IsFiniteSet(User) /\ S \subseteq User /\ IsFiniteSet(S)
  BY ChatAssumption, FS_Subset
<1>2. OrgSum(us) = Total(h, S)
  BY SumOfUsed DEF OrgSum
<1>3. \A u \in User : Share(us)[u] \in Nat
  BY ShareNat
<1>4. \A u \in S : h[u] = Share(us)[u]
  BY DEF Share
<1>5. \A u \in User \ S : Share(us)[u] = 0
  BY DEF Share
<1>6. Total(h, S) = Total(Share(us), S)
  <2>1. \A u \in S : Share(us)[u] \in Int /\ h[u] = Share(us)[u]
    BY <1>3, <1>4
  <2>. HIDE DEF S, h
  <2>. QED  BY <2>1, <1>1, TotalSame
<1>7. Total(Share(us), User) = Total(Share(us), S)
  <2>1. \A u \in User : Share(us)[u] \in Int
    BY <1>3
  <2>. HIDE DEF S
  <2>. QED  BY <2>1, <1>1, <1>5, TotalExtends
<1>8. Total(Share(us), User) \in Int
  BY <1>1, <1>3, TotalInt
<1>9. Total(zero, User) = 0 /\ Total(zero, User) <= Total(Share(us), User)
  <2>1. \A u \in User : zero[u] = 0 /\ zero[u] \in Int /\ Share(us)[u] \in Int /\ zero[u] <= Share(us)[u]
    BY <1>3
  <2>. HIDE DEF zero
  <2>. QED  BY <2>1, <1>1, TotalZero, TotalLeq
<1>. QED  BY <1>2, <1>6, <1>7, <1>8, <1>9

LEMMA Times ==
  ASSUME NEW a \in Nat, NEW b \in Nat, NEW c \in Nat, a <= b
  PROVE  c * a <= c * b /\ a * c <= b * c /\ a * c = c * a /\ c * a \in Nat
<1>1. PICK d \in Nat : b = a + d
  <2>1. b - a \in Nat /\ b = a + (b - a)
    OBVIOUS
  <2>. QED  BY <2>1
<1>2. c * b = c * a + c * d /\ c * d \in Nat /\ c * a \in Nat /\ c * b \in Nat
  BY <1>1
<1>3. a * c = c * a /\ b * c = c * b
  OBVIOUS
<1>. QED  BY <1>2, <1>3

LEMMA StoredNumber ==
  /\ Cardinality(Stored) \in Nat /\ Cardinality(Request) \in Nat
  /\ Cardinality(Stored) <= Cardinality(Request)
  /\ IsFiniteSet(Stored) /\ Max(Remainders) * Cardinality(Stored) \in Nat
<1>1. Stored \in SUBSET Request /\ IsFiniteSet(Request)
  BY ChatAssumption DEF Stored
<1>2. IsFiniteSet(Stored) /\ Cardinality(Stored) <= Cardinality(Request)
  BY <1>1, FS_Subset
<1>3. Cardinality(Stored) \in Nat /\ Cardinality(Request) \in Nat
  BY <1>1, <1>2, FS_CardinalityType
<1>4. Max(Remainders) \in Nat
  BY Numbers
<1>. QED  BY <1>2, <1>3, <1>4

LEMMA OrgServed ==
  ASSUME TypeInv, NEW q \in Request, NEW j, NEW n, Served(q, j, n)
  PROVE  /\ OrgUsed \in Nat
         /\ OrgUsed' = OrgUsed + (IF req[q].user \in User /\ Member(req[q].user) THEN n ELSE 0)
<1>. DEFINE f == Share(users)
            h == Share(users')
            x == req[q].user
<1>1. users \in [User -> UserRow] /\ users' \in [User -> UserRow] /\ n \in Nat /\ IsFiniteSet(User)
  BY ChatAssumption DEF TypeInv, RowsTyped, Served
<1>2. /\ OrgUsed = Total(f, User) /\ OrgUsed \in Nat /\ OrgUsed' = Total(h, User)
  BY <1>1, OrgUsedSum, OrgSumShares
<1>3. \A u \in User : f[u] \in Nat /\ h[u] \in Nat
  BY <1>1, ShareNat
<1>4. \A u \in User :
        /\ users'[u].status = users[u].status /\ users'[u].org = users[u].org
        /\ users'[u].used = users[u].used + (IF u = x /\ Is(users[u]) THEN n ELSE 0)
        /\ users[u].used \in Nat
  BY <1>1 DEF Served, UserRow
<1>5. \A u \in User : h[u] = f[u] + (IF u = x /\ Member(u) THEN n ELSE 0)
  BY <1>1, <1>4 DEF Share, Member, Is
<1>6. CASE x \in User /\ Member(x)
  <2>1. h[x] = f[x] + n
    BY <1>5, <1>6
  <2>2. \A u \in User : f[u] \in Int /\ h[u] \in Int /\ (u # x => h[u] = f[u])
    BY <1>3, <1>5
  <2>3. Total(f, User) \in Nat /\ f[x] \in Nat
    BY <1>2, <1>3, <1>6
  <2>4. Total(h, User) = Total(f, User) - f[x] + h[x]
    <3>. HIDE DEF f, h, x
    <3>. QED  BY <1>1, <1>6, <2>2, TotalAt
  <2>. HIDE DEF f, h
  <2>. QED  BY <1>1, <1>2, <1>6, <2>1, <2>3, <2>4
<1>7. CASE ~ (x \in User /\ Member(x))
  <2>1. \A u \in User : f[u] \in Int /\ h[u] = f[u]
    BY <1>3, <1>5, <1>7
  <2>2. Total(f, User) = Total(h, User)
    <3>. HIDE DEF f, h, x
    <3>. QED  BY <1>1, <2>1, TotalSame
  <2>. HIDE DEF f, h
  <2>. QED  BY <1>2, <1>7, <2>2
<1>. QED  BY <1>6, <1>7

LEMMA OrgRowEdit ==
  ASSUME TypeInv, RowEdit, Is(org')
  PROVE  OrgUsed \in Nat /\ OrgUsed' \in Nat /\ OrgUsed' <= OrgUsed
<1>1. users \in [User -> UserRow] /\ users' \in [User -> UserRow] /\ IsFiniteSet(User)
  BY ChatAssumption DEF TypeInv, RowsTyped, RowEdit
<1>2. /\ OrgUsed = Total(Share(users), User) /\ OrgUsed \in Nat
      /\ OrgUsed' = Total(Share(users'), User) /\ OrgUsed' \in Nat
  BY <1>1, OrgUsedSum, OrgSumShares
<1>3. \A u \in User : Share(users)[u] \in Nat /\ Share(users')[u] \in Nat
  BY <1>1, ShareNat
<1>4. ASSUME NEW u \in User
      PROVE  Share(users')[u] <= Share(users)[u]
  <2>1. UserKept(u) /\ users[u].used \in Nat
    BY <1>1 DEF RowEdit, UserRow
  <2>2. users[u].status = "unborn" => users[u].used = 0
    BY DEF TypeInv, RowsTyped
  <2>3. CASE Is(users'[u]) /\ users'[u].org
    <3>1. Share(users')[u] = users'[u].used
      BY <2>3 DEF Share
    <3>2. users'[u].used = users[u].used
      BY <2>1 DEF UserKept
    <3>3. (Is(users[u]) /\ users[u].org) \/ users[u].used = 0
      BY <2>1, <2>2, <2>3 DEF UserKept
    <3>4. Share(users)[u] = users[u].used \/ users[u].used = 0
      BY <3>3 DEF Share
    <3>. QED  BY <3>1, <3>2, <3>4, <1>3, <2>1
  <2>4. CASE ~ (Is(users'[u]) /\ users'[u].org)
    <3>1. Share(users')[u] = 0
      BY <2>4 DEF Share
    <3>. QED  BY <3>1, <1>3
  <2>. QED  BY <2>3, <2>4
<1>5. \A u \in User : Share(users')[u] \in Int /\ Share(users)[u] \in Int /\ Share(users')[u] <= Share(users)[u]
  BY <1>3, <1>4
<1>6. Total(Share(users'), User) <= Total(Share(users), User)
  BY <1>1, <1>5, TotalLeq
<1>. QED  BY <1>2, <1>6

(* Nothing is charged and no answer is stored. *)
LEMMA QuotaQuiet ==
  ASSUME TypeInv, QuotaInv, NEW q \in Request, NEW j, Served(q, j, 0),
         j.pc # "stored", req[q].pc # "stored", j.pc \in Running => req[q].pc \in Running
  PROVE  QuotaInv'
<1>1. /\ req' = [req EXCEPT ![q] = j] /\ req \in [Request -> Local] /\ loose' = loose /\ org' = org
      /\ j.pc \in Running => j.user = req[q].user /\ j.team = req[q].team
  BY DEF Served, TypeInv, LocalsTyped, history
<1>2. \A u \in User : /\ users'[u].status = users[u].status /\ users'[u].limit = users[u].limit
                      /\ users'[u].org = users[u].org
                      /\ users'[u].used = users[u].used
  <2>1. \A u \in User : users[u].used \in Nat
    BY DEF TypeInv, RowsTyped, UserRow
  <2>. QED  BY <2>1 DEF Served
<1>3. \A t \in Team : /\ teams'[t].status = teams[t].status /\ teams'[t].limit = teams[t].limit
                      /\ teams'[t].used = teams[t].used
  <2>1. \A t \in Team : teams[t].used \in Nat
    BY DEF TypeInv, RowsTyped, TeamRow
  <2>. QED  BY <2>1 DEF Served
<1>4. OrgUsed' = OrgUsed
  BY OrgServed
<1>5. Stored' = Stored
  BY <1>1 DEF Stored
<1>6. \A l : Allowance(l)' = Allowance(l)
  BY <1>5 DEF Allowance
<1>7. \A p \in Charging' : p \in Charging /\ req'[p].user = req[p].user /\ req'[p].team = req[p].team
  BY <1>1 DEF Charging
<1>8. \A p \in Charging : req[p].user \in User
  BY DEF Charging, TypeInv, LocalsTyped, Fits
<1>9. ASSUME NEW u \in User, UserQuota(u) PROVE UserQuota(u)'
  BY <1>2, <1>6, <1>7, <1>9 DEF UserQuota, Is, Allowance
<1>10. ASSUME NEW t \in Team, TeamQuota(t) PROVE TeamQuota(t)'
  BY <1>3, <1>6, <1>7, <1>10 DEF TeamQuota, Is, Allowance
<1>11. ASSUME OrgQuota PROVE OrgQuota'
  BY <1>1, <1>2, <1>4, <1>6, <1>7, <1>8, <1>11 DEF OrgQuota, Member, Is, Allowance
<1>. QED  BY <1>1, <1>9, <1>10, <1>11 DEF QuotaInv

(* A prompt is charged to those that were below their limit. *)
LEMMA QuotaPrepare ==
  ASSUME TypeInv, QuotaInv, NEW q \in Request, Prepare(q)
  PROVE  QuotaInv'
<1>. DEFINE j == At(req[q], "stream")
            K == Max(Remainders) * Cardinality(Stored)
<1>1. /\ Served(q, j, Prompt) /\ req[q].pc = "auth" /\ ~Exceeded(req[q]) /\ j.pc = "stream"
  BY PrepareServes
<1>. HIDE DEF j
<1>2. /\ req' = [req EXCEPT ![q] = j] /\ req \in [Request -> Local] /\ loose' = loose /\ org' = org
      /\ j.user = req[q].user /\ j.team = req[q].team
  BY <1>1 DEF Served, TypeInv, LocalsTyped, history, Running
<1>3. req[q].user \in User
  BY <1>1 DEF TypeInv, LocalsTyped, Fits
<1>4. \A u \in User : /\ users'[u].status = users[u].status /\ users'[u].limit = users[u].limit
                      /\ users'[u].org = users[u].org
                      /\ users'[u].used = users[u].used + (IF u = req[q].user /\ Is(users[u]) THEN Prompt ELSE 0)
                      /\ users[u].used \in Nat /\ users[u].limit \in Nat
  BY <1>1, Numbers DEF Served, TypeInv, RowsTyped, UserRow
<1>5. \A t \in Team : /\ teams'[t].status = teams[t].status /\ teams'[t].limit = teams[t].limit
                      /\ teams'[t].used = teams[t].used + (IF t = req[q].team /\ Is(teams[t]) THEN Prompt ELSE 0)
                      /\ teams[t].used \in Nat /\ teams[t].limit \in Nat
  BY <1>1, Numbers DEF Served, TypeInv, RowsTyped, TeamRow
<1>6. /\ OrgUsed' = OrgUsed + (IF Member(req[q].user) THEN Prompt ELSE 0) /\ OrgUsed \in Nat
  BY <1>1, <1>3, OrgServed
<1>7. Stored' = Stored /\ Prompt \in Nat /\ K \in Nat /\ org.limit \in Nat
  <2>1. Stored' = Stored
    BY <1>1, <1>2 DEF Stored
  <2>2. org.limit \in Nat
    BY Numbers DEF TypeInv, RowsTyped, OrgRow
  <2>. QED  BY <2>1, <2>2, StoredNumber, Numbers
<1>8. /\ \A l : Allowance(l) = l - 1 + Prompt + K
      /\ \A l : l - 1 + Prompt + Max(Remainders) * Cardinality(Stored') = l - 1 + Prompt + K
  BY <1>7 DEF Allowance
<1>9. ASSUME NEW p \in Charging', p # q
      PROVE  p \in Charging /\ req'[p] = req[p]
  <2>1. p \in Request /\ req'[p].pc \in Running
    BY DEF Charging
  <2>2. req'[p] = req[p]
    BY <1>2, <1>9, <2>1
  <2>. QED  BY <2>1, <2>2 DEF Charging
<1>10. req'[q] = j
  BY <1>2
<1>. HIDE DEF K
<1>11. ASSUME NEW u \in User, UserQuota(u), Is(users'[u]), users'[u].limit # 0
       PROVE  \/ users'[u].used <= users'[u].limit - 1 + Prompt + K
              \/ users'[u].used <= Max(Charged) /\ \A p \in Charging' : req'[p].user # u
  <2>1. Is(users[u]) /\ users[u].limit # 0
    BY <1>4, <1>11 DEF Is
  <2>2. CASE u = req[q].user
    <3>1. ~ (users[u].used >= users[u].limit)
      BY <1>1, <2>1, <2>2 DEF Exceeded
    <3>2. users'[u].used = users[u].used + Prompt
      BY <1>4, <2>1, <2>2
    <3>. QED  BY <3>1, <3>2, <1>4, <1>7
  <2>3. CASE u # req[q].user
    <3>1. users'[u].used = users[u].used
      BY <1>4, <2>3
    <3>2. \/ users[u].used <= users[u].limit - 1 + Prompt + K
          \/ users[u].used <= Max(Charged) /\ \A p \in Charging : req[p].user # u
      BY <1>8, <1>11, <2>1 DEF UserQuota
    <3>. QED  BY <3>1, <3>2, <2>3, <1>2, <1>4, <1>9, <1>10
  <2>. QED  BY <2>2, <2>3
<1>12. ASSUME NEW t \in Team, TeamQuota(t), Is(teams'[t])
       PROVE  \/ teams'[t].used <= teams'[t].limit - 1 + Prompt + K
              \/ teams'[t].used <= Max(Charged) /\ \A p \in Charging' : req'[p].team # t
  <2>1. Is(teams[t])
    BY <1>5, <1>12 DEF Is
  <2>2. CASE t = req[q].team
    <3>1. ~ (teams[t].used >= teams[t].limit)
      BY <1>1, <2>1, <2>2 DEF Exceeded
    <3>2. teams'[t].used = teams[t].used + Prompt
      BY <1>5, <2>1, <2>2
    <3>. QED  BY <3>1, <3>2, <1>5, <1>7
  <2>3. CASE t # req[q].team
    <3>1. teams'[t].used = teams[t].used
      BY <1>5, <2>3
    <3>2. \/ teams[t].used <= teams[t].limit - 1 + Prompt + K
          \/ teams[t].used <= Max(Charged) /\ \A p \in Charging : req[p].team # t
      BY <1>8, <1>12, <2>1 DEF TeamQuota
    <3>. QED  BY <3>1, <3>2, <2>3, <1>2, <1>5, <1>9, <1>10
  <2>. QED  BY <2>2, <2>3
<1>13. ASSUME OrgQuota, Is(org')
       PROVE  \/ OrgUsed' <= org'.limit - 1 + Prompt + K
              \/ /\ OrgUsed' <= Max(Charged) * Cardinality(FirstUsers)
                 /\ \A p \in Charging' :
                       ~ (Is(users'[req'[p].user]) /\ users'[req'[p].user].org)
  <2>1. Is(org) /\ org' = org
    BY <1>2, <1>13
  <2>2. CASE Member(req[q].user)
    <3>1. req[q].org
      BY <1>1, <2>1, <2>2 DEF TypeInv, Joined, Member
    <3>2. ~ (OrgUsed >= org.limit)
      BY <1>1, <2>1, <3>1 DEF Exceeded
    <3>. QED  BY <3>2, <2>1, <2>2, <1>6, <1>7
  <2>3. CASE ~Member(req[q].user)
    <3>1. OrgUsed' = OrgUsed
      BY <2>3, <1>6
    <3>2. \/ OrgUsed <= org.limit - 1 + Prompt + K
          \/ /\ OrgUsed <= Max(Charged) * Cardinality(FirstUsers)
             /\ \A p \in Charging : ~Member(req[p].user)
      BY <1>8, <1>13, <2>1 DEF OrgQuota
    <3>3. \A p \in Charging : req[p].user \in User
      BY DEF Charging, TypeInv, LocalsTyped, Fits
    <3>5. ASSUME \A p \in Charging : ~Member(req[p].user), NEW p \in Charging'
          PROVE  ~ (Is(users'[req'[p].user]) /\ users'[req'[p].user].org)
      <4>1. CASE p = q
        <5>1. ~ (Is(users[req[q].user]) /\ users[req[q].user].org)
          BY <2>3 DEF Member
        <5>2. req'[p].user = req[q].user
          BY <4>1, <1>2, <1>10
        <5>. QED  BY <5>1, <5>2, <1>3, <1>4 DEF Is
      <4>2. CASE p # q
        <5>1. p \in Charging /\ req'[p] = req[p] /\ req[p].user \in User
          BY <4>2, <1>9, <3>3, <3>5
        <5>2. ~ (Is(users[req[p].user]) /\ users[req[p].user].org)
          BY <5>1, <3>5 DEF Member
        <5>. QED  BY <5>1, <5>2, <1>4 DEF Is
      <4>. QED  BY <4>1, <4>2
    <3>. QED  BY <3>1, <3>2, <3>5, <2>1
  <2>. QED  BY <2>2, <2>3
<1>14. \A u \in User : UserQuota(u) => UserQuota(u)'
  BY <1>7, <1>8, <1>11 DEF UserQuota, Is, Allowance
<1>15. \A t \in Team : TeamQuota(t) => TeamQuota(t)'
  BY <1>7, <1>8, <1>12 DEF TeamQuota, Is, Allowance
<1>16. OrgQuota => OrgQuota'
  BY <1>7, <1>8, <1>13 DEF OrgQuota, Is, Allowance, Member
<1>. QED  BY <1>2, <1>14, <1>15, <1>16 DEF QuotaInv

(* One answer is charged, to those that its prompt was: they are within     *)
(* their allowance, and the allowance grows by an answer.                  *)
LEMMA QuotaFinalize ==
  ASSUME TypeInv, QuotaInv, NEW q \in Request, Finalize(q)
  PROVE  QuotaInv'
<1>. DEFINE j == At(req[q], "stored")
            n == req[q].cost
            M == Max(Remainders)
            K == M * Cardinality(Stored)
            L == M * Cardinality(Stored')
<1>1. /\ Served(q, j, n) /\ req[q].pc = "complete" /\ j.pc = "stored" /\ n \in Nat /\ n <= M
  BY FinalizeServes
<1>. HIDE DEF j
<1>2. /\ req' = [req EXCEPT ![q] = j] /\ req \in [Request -> Local] /\ loose' = loose /\ org' = org
      /\ q \in Charging /\ req'[q] = j
  BY <1>1 DEF Served, TypeInv, LocalsTyped, history, Charging, Running
<1>3. req[q].user \in User /\ \A p \in Charging : req[p].user \in User
  BY <1>2 DEF Charging, TypeInv, LocalsTyped, Fits
<1>4. \A u \in User : /\ users'[u].status = users[u].status /\ users'[u].limit = users[u].limit
                      /\ users'[u].org = users[u].org
                      /\ users'[u].used = users[u].used + (IF u = req[q].user /\ Is(users[u]) THEN n ELSE 0)
                      /\ users[u].used \in Nat /\ users[u].limit \in Nat
  BY <1>1, Numbers DEF Served, TypeInv, RowsTyped, UserRow
<1>5. \A t \in Team : /\ teams'[t].status = teams[t].status /\ teams'[t].limit = teams[t].limit
                      /\ teams'[t].used = teams[t].used + (IF t = req[q].team /\ Is(teams[t]) THEN n ELSE 0)
                      /\ teams[t].used \in Nat /\ teams[t].limit \in Nat
  BY <1>1, Numbers DEF Served, TypeInv, RowsTyped, TeamRow
<1>6. /\ OrgUsed' = OrgUsed + (IF Member(req[q].user) THEN n ELSE 0) /\ OrgUsed \in Nat
  BY <1>1, <1>3, OrgServed
<1>7. Prompt \in Nat /\ M \in Nat /\ K \in Nat /\ L = K + M /\ org.limit \in Nat
  <2>1. Stored' = Stored \cup {q} /\ q \notin Stored
    BY <1>1, <1>2 DEF Stored
  <2>2. /\ IsFiniteSet(Stored) /\ Cardinality(Stored) \in Nat /\ K \in Nat
    BY StoredNumber
  <2>3. Cardinality(Stored') = Cardinality(Stored) + 1
    BY <2>1, <2>2, FS_AddElement
  <2>4. Prompt \in Nat /\ M \in Nat
    BY Numbers
  <2>5. M * (Cardinality(Stored) + 1) = M * Cardinality(Stored) + M
    BY <2>2, <2>4
  <2>6. org.limit \in Nat
    BY Numbers DEF TypeInv, RowsTyped, OrgRow
  <2>. QED  BY <2>2, <2>3, <2>4, <2>5, <2>6
<1>8. /\ \A l : Allowance(l) = l - 1 + Prompt + K
      /\ \A l : l - 1 + Prompt + Max(Remainders) * Cardinality(Stored') = l - 1 + Prompt + L
  BY DEF Allowance
<1>9. ASSUME NEW p \in Charging'
      PROVE  p \in Charging /\ req'[p] = req[p] /\ p # q
  <2>1. p \in Request /\ req'[p].pc \in Running
    BY DEF Charging
  <2>2. p # q
    BY <1>1, <1>2, <2>1 DEF Running
  <2>3. req'[p] = req[p]
    BY <1>2, <2>1, <2>2
  <2>. QED  BY <2>1, <2>2, <2>3 DEF Charging
<1>. HIDE DEF K, L, M, n
<1>11. ASSUME NEW u \in User, UserQuota(u), Is(users'[u]), users'[u].limit # 0
       PROVE  \/ users'[u].used <= users'[u].limit - 1 + Prompt + L
              \/ users'[u].used <= Max(Charged) /\ \A p \in Charging' : req'[p].user # u
  <2>1. Is(users[u]) /\ users[u].limit # 0
    BY <1>4, <1>11 DEF Is
  <2>2. \/ users[u].used <= users[u].limit - 1 + Prompt + K
        \/ users[u].used <= Max(Charged) /\ \A p \in Charging : req[p].user # u
    BY <1>8, <1>11, <2>1 DEF UserQuota
  <2>3. CASE u = req[q].user
    <3>1. users[u].used <= users[u].limit - 1 + Prompt + K
      BY <2>2, <2>3, <1>2
    <3>2. users'[u].used = users[u].used + n
      BY <1>4, <2>1, <2>3
    <3>. QED  BY <3>1, <3>2, <1>1, <1>4, <1>7
  <2>4. CASE u # req[q].user
    <3>1. users'[u].used = users[u].used
      BY <1>4, <2>4
    <3>2. CASE users[u].used <= users[u].limit - 1 + Prompt + K
      BY <3>1, <3>2, <1>4, <1>7
    <3>3. CASE users[u].used <= Max(Charged) /\ \A p \in Charging : req[p].user # u
      BY <3>1, <3>3, <1>9
    <3>. QED  BY <2>2, <3>2, <3>3
  <2>. QED  BY <2>3, <2>4
<1>12. ASSUME NEW t \in Team, TeamQuota(t), Is(teams'[t])
       PROVE  \/ teams'[t].used <= teams'[t].limit - 1 + Prompt + L
              \/ teams'[t].used <= Max(Charged) /\ \A p \in Charging' : req'[p].team # t
  <2>1. Is(teams[t])
    BY <1>5, <1>12 DEF Is
  <2>2. \/ teams[t].used <= teams[t].limit - 1 + Prompt + K
        \/ teams[t].used <= Max(Charged) /\ \A p \in Charging : req[p].team # t
    BY <1>8, <1>12, <2>1 DEF TeamQuota
  <2>3. CASE t = req[q].team
    <3>1. teams[t].used <= teams[t].limit - 1 + Prompt + K
      BY <2>2, <2>3, <1>2
    <3>2. teams'[t].used = teams[t].used + n
      BY <1>5, <2>1, <2>3
    <3>. QED  BY <3>1, <3>2, <1>1, <1>5, <1>7
  <2>4. CASE t # req[q].team
    <3>1. teams'[t].used = teams[t].used
      BY <1>5, <2>4
    <3>2. CASE teams[t].used <= teams[t].limit - 1 + Prompt + K
      BY <3>1, <3>2, <1>5, <1>7
    <3>3. CASE teams[t].used <= Max(Charged) /\ \A p \in Charging : req[p].team # t
      BY <3>1, <3>3, <1>9
    <3>. QED  BY <2>2, <3>2, <3>3
  <2>. QED  BY <2>3, <2>4
<1>13. ASSUME OrgQuota, Is(org')
       PROVE  \/ OrgUsed' <= org'.limit - 1 + Prompt + L
              \/ /\ OrgUsed' <= Max(Charged) * Cardinality(FirstUsers)
                 /\ \A p \in Charging' :
                       ~ (Is(users'[req'[p].user]) /\ users'[req'[p].user].org)
  <2>1. Is(org) /\ org' = org
    BY <1>2, <1>13
  <2>2. \/ OrgUsed <= org.limit - 1 + Prompt + K
        \/ /\ OrgUsed <= Max(Charged) * Cardinality(FirstUsers)
           /\ \A p \in Charging : ~Member(req[p].user)
    BY <1>8, <1>13, <2>1 DEF OrgQuota
  <2>3. CASE Member(req[q].user)
    <3>1. OrgUsed <= org.limit - 1 + Prompt + K
      BY <2>2, <2>3, <1>2
    <3>2. OrgUsed' = OrgUsed + n
      BY <2>3, <1>6
    <3>. QED  BY <3>1, <3>2, <2>1, <1>1, <1>6, <1>7
  <2>4. CASE ~Member(req[q].user)
    <3>1. OrgUsed' = OrgUsed
      BY <2>4, <1>6
    <3>2. CASE OrgUsed <= org.limit - 1 + Prompt + K
      BY <3>1, <3>2, <2>1, <1>6, <1>7
    <3>3. CASE /\ OrgUsed <= Max(Charged) * Cardinality(FirstUsers)
               /\ \A p \in Charging : ~Member(req[p].user)
      <4>1. ASSUME NEW p \in Charging'
            PROVE  ~ (Is(users'[req'[p].user]) /\ users'[req'[p].user].org)
        <5>1. p \in Charging /\ req'[p] = req[p] /\ req[p].user \in User
          BY <1>3, <1>9
        <5>2. ~ (Is(users[req[p].user]) /\ users[req[p].user].org)
          BY <5>1, <3>3 DEF Member
        <5>. QED  BY <5>1, <5>2, <1>4 DEF Is
      <4>. QED  BY <4>1, <3>1, <3>3
    <3>. QED  BY <2>2, <3>2, <3>3
  <2>. QED  BY <2>3, <2>4
<1>14. \A u \in User : UserQuota(u) => UserQuota(u)'
  BY <1>8, <1>11 DEF UserQuota, Is, Allowance
<1>15. \A t \in Team : TeamQuota(t) => TeamQuota(t)'
  BY <1>8, <1>12 DEF TeamQuota, Is, Allowance
<1>16. OrgQuota => OrgQuota'
  BY <1>8, <1>13 DEF OrgQuota, Is, Allowance, Member
<1>. QED  BY <1>2, <1>14, <1>15, <1>16 DEF QuotaInv

(* An edit charges nobody; whoever it makes, or gives another limit, starts *)
(* below it or is loose.                                                   *)
LEMMA QuotaRowEdit ==
  ASSUME TypeInv, QuotaInv, RowEdit
  PROVE  QuotaInv'
<1>. DEFINE K == Max(Remainders) * Cardinality(Stored)
<1>1. /\ \A u \in User : UserKept(u)
      /\ \A t \in Team : TeamKept(t)
      /\ OrgKept /\ loose \subseteq loose'
      /\ \A q \in Request : LocalKept(q)
  BY DEF RowEdit
<1>2. /\ \A u \in User : users[u].used \in Nat /\ (users[u].status = "unborn" => users[u].used = 0)
      /\ \A t \in Team : teams[t].used \in Nat /\ (teams[t].status = "unborn" => teams[t].used = 0)
      /\ \A u \in User : users'[u].limit \in Nat
      /\ \A t \in Team : teams'[t].limit \in Nat
  BY Numbers DEF RowEdit, TypeInv, RowsTyped, UserRow, TeamRow
<1>3. Stored' = Stored
  BY <1>1 DEF Stored, LocalKept
<1>4. \A p \in Charging' : p \in Charging /\ req'[p] = req[p]
  BY <1>1 DEF Charging, LocalKept, Pending
<1>5. /\ \A l : Allowance(l) = l - 1 + Prompt + K
      /\ \A l : l - 1 + Prompt + Max(Remainders) * Cardinality(Stored') = l - 1 + Prompt + K
  BY <1>3 DEF Allowance
<1>6. Prompt \in Nat /\ K \in Nat
  BY StoredNumber, Numbers
<1>. HIDE DEF K
<1>7. ASSUME NEW u \in User \ loose', Is(users'[u]), users'[u].limit # 0
      PROVE  \/ users'[u].used <= users'[u].limit - 1 + Prompt + K
             \/ users'[u].used <= Max(Charged) /\ \A p \in Charging' : req'[p].user # u
  <2>1. /\ users'[u].used = users[u].used
        /\ \/ Is(users[u]) /\ users'[u].limit = users[u].limit
           \/ users[u].status = "unborn"
    BY <1>1, <1>7 DEF UserKept
  <2>2. CASE Is(users[u]) /\ users'[u].limit = users[u].limit
    <3>1. \/ users[u].used <= users[u].limit - 1 + Prompt + K
          \/ users[u].used <= Max(Charged) /\ \A p \in Charging : req[p].user # u
      BY <1>1, <1>5, <1>7, <2>2 DEF QuotaInv, UserQuota
    <3>. QED  BY <3>1, <2>1, <2>2, <1>4
  <2>3. CASE users[u].status = "unborn"
    BY <2>1, <2>3, <1>2, <1>6, <1>7
  <2>. QED  BY <2>1, <2>2, <2>3
<1>8. ASSUME NEW t \in Team \ loose', Is(teams'[t])
      PROVE  \/ teams'[t].used <= teams'[t].limit - 1 + Prompt + K
             \/ teams'[t].used <= Max(Charged) /\ \A p \in Charging' : req'[p].team # t
  <2>1. /\ teams'[t].used = teams[t].used
        /\ \/ Is(teams[t]) /\ teams'[t].limit = teams[t].limit
           \/ teams[t].status = "unborn" /\ teams'[t].limit # 0
    BY <1>1, <1>8 DEF TeamKept
  <2>2. CASE Is(teams[t]) /\ teams'[t].limit = teams[t].limit
    <3>1. \/ teams[t].used <= teams[t].limit - 1 + Prompt + K
          \/ teams[t].used <= Max(Charged) /\ \A p \in Charging : req[p].team # t
      BY <1>1, <1>5, <1>8, <2>2 DEF QuotaInv, TeamQuota
    <3>. QED  BY <3>1, <2>1, <2>2, <1>4
  <2>3. CASE teams[t].status = "unborn" /\ teams'[t].limit # 0
    BY <2>1, <2>3, <1>2, <1>6
  <2>. QED  BY <2>1, <2>2, <2>3
<1>9. ASSUME Org \notin loose', Is(org')
      PROVE  \/ OrgUsed' <= org'.limit - 1 + Prompt + K
             \/ /\ OrgUsed' <= Max(Charged) * Cardinality(FirstUsers)
                /\ \A p \in Charging' :
                      ~ (Is(users'[req'[p].user]) /\ users'[req'[p].user].org)
  <2>1. Is(org) /\ org'.limit = org.limit /\ Org \notin loose
    BY <1>1, <1>9 DEF OrgKept
  <2>2. \/ OrgUsed <= org.limit - 1 + Prompt + K
        \/ /\ OrgUsed <= Max(Charged) * Cardinality(FirstUsers)
           /\ \A p \in Charging : ~Member(req[p].user)
    BY <2>1, <1>5 DEF QuotaInv, OrgQuota
  <2>3. OrgUsed \in Nat /\ OrgUsed' \in Nat /\ OrgUsed' <= OrgUsed
    BY <1>9, OrgRowEdit
  <2>4. ASSUME \A p \in Charging : ~Member(req[p].user), NEW p \in Charging'
        PROVE  ~ (Is(users'[req'[p].user]) /\ users'[req'[p].user].org)
    <3>1. p \in Charging /\ req'[p] = req[p] /\ req[p].pc \in Running
      BY <1>4 DEF Charging
    <3>2. req[p].user \in User /\ users[req[p].user].status # "unborn"
      BY <3>1 DEF Charging, TypeInv, LocalsTyped, Fits, Joined
    <3>3. ~ (Is(users[req[p].user]) /\ users[req[p].user].org)
      BY <3>1, <2>4 DEF Member
    <3>4. UserKept(req[p].user)
      BY <3>2, <1>1
    <3>. QED  BY <3>1, <3>2, <3>3, <3>4, <1>9 DEF UserKept
  <2>5. org.limit \in Nat /\ Max(Charged) * Cardinality(FirstUsers) \in Nat
    <3>1. org.limit \in Nat /\ Max(Charged) \in Nat
      BY Numbers DEF TypeInv, RowsTyped, OrgRow
    <3>2. Cardinality(FirstUsers) \in Nat
      BY ChatAssumption, FS_Subset, FS_CardinalityType
    <3>. QED  BY <3>1, <3>2
  <2>6. CASE OrgUsed <= org.limit - 1 + Prompt + K
    BY <2>1, <2>3, <2>5, <2>6, <1>6
  <2>7. CASE /\ OrgUsed <= Max(Charged) * Cardinality(FirstUsers)
             /\ \A p \in Charging : ~Member(req[p].user)
    BY <2>3, <2>4, <2>5, <2>7
  <2>. QED  BY <2>2, <2>6, <2>7
<1>14. \A u \in User \ loose' : UserQuota(u)'
  BY <1>5, <1>7 DEF UserQuota, Is, Allowance
<1>15. \A t \in Team \ loose' : TeamQuota(t)'
  BY <1>5, <1>8 DEF TeamQuota, Is, Allowance
<1>16. Org \notin loose' => OrgQuota'
  BY <1>5, <1>9 DEF OrgQuota, Is, Allowance, Member
<1>. QED  BY <1>14, <1>15, <1>16 DEF QuotaInv

LEMMA QuotaFrame ==
  ASSUME QuotaInv, UNCHANGED <<users, teams, org, req, loose>>
  PROVE  QuotaInv'
<1>1. OrgUsed' = OrgUsed
  BY OrgUsedSum
<1>2. Stored' = Stored /\ Charging' = Charging
  BY DEF Stored, Charging
<1>3. \A u \in User : UserQuota(u)' <=> UserQuota(u)
  BY <1>2 DEF UserQuota, Is, Allowance
<1>4. \A t \in Team : TeamQuota(t)' <=> TeamQuota(t)
  BY <1>2 DEF TeamQuota, Is, Allowance
<1>5. OrgQuota' <=> OrgQuota
  BY <1>1, <1>2 DEF OrgQuota, Is, Allowance, Member
<1>. QED  BY <1>3, <1>4, <1>5 DEF QuotaInv

LEMMA NextQuota ==
  ASSUME TypeInv, QuotaInv, [Next]_vars
  PROVE  QuotaInv'
<1>1. ASSUME NEW q \in Request, RequestStep(q)
      PROVE  QuotaInv'
  <2>1. CASE \E j \in Local : Quiet(q, j) /\ Served(q, j, 0)
    BY <2>1, QuotaQuiet DEF Quiet
  <2>2. CASE PrepareFails(q)
    <3>1. /\ Served(q, At(req[q], "error"), 0) /\ req[q].pc = "auth" /\ At(req[q], "error").pc = "error"
      BY <2>2, PrepareFailsServes
    <3>. QED  BY <3>1, QuotaQuiet DEF Running
  <2>. QED  BY <1>1, <2>1, <2>2, QuotaPrepare, QuotaFinalize DEF RequestStep
<1>2. ASSUME NEW c \in Conv, ConvEdit(c)
      PROVE  QuotaInv'
  BY <1>2, ConvEdits, QuotaFrame DEF TypeInv
<1>3. CASE UNCHANGED vars
  BY <1>3, QuotaFrame DEF vars
<1>. QED  BY <1>1, <1>2, <1>3, QuotaRowEdit, StepCases

LEMMA InitQuota ==
  ASSUME Init
  PROVE  QuotaInv
<1>1. PICK n \in Limits, m \in Limits \ {0}, used \in Charged :
          /\ teams = [t \in Team |-> [status |-> IF t \in FirstTeams THEN "here" ELSE "unborn",
                                    limit |-> m, used |-> IF t \in FirstTeams THEN used ELSE 0]]
          /\ users = [u \in User |->
                [status |-> IF u \in FirstUsers THEN "here" ELSE "unborn", active |-> TRUE,
                 team |-> IF u \in FirstUsers THEN CHOOSE t \in FirstTeams : TRUE ELSE NoTeam,
                 org |-> u \in FirstUsers, limit |-> n,
                 used |-> IF u \in FirstUsers THEN used ELSE 0, synced |-> FALSE]]
  BY DEF Init
<1>2. used \in Nat /\ used <= Max(Charged) /\ Max(Charged) \in Nat
  BY Numbers, ChatAssumption
<1>3. Charging = {}
  BY DEF Init, Charging, Idle, Running
<1>4. \A u \in User : users[u].used = (IF u \in FirstUsers THEN used ELSE 0)
                      /\ (Is(users[u]) <=> u \in FirstUsers)
                      /\ (users[u].org <=> u \in FirstUsers)
  BY <1>1 DEF Is
<1>5. \A t \in Team : teams[t].used = IF t \in FirstTeams THEN used ELSE 0
  BY <1>1
<1>6. \A u \in User : UserQuota(u)
  BY <1>2, <1>3, <1>4 DEF UserQuota
<1>7. \A t \in Team : TeamQuota(t)
  BY <1>2, <1>3, <1>5 DEF TeamQuota
<1>8. OrgUsed <= Max(Charged) * Cardinality(FirstUsers)
  <2>1. users \in [User -> UserRow]
    BY InitTypes DEF TypeInv, RowsTyped
  <2>2. OrgUsed = Total(Share(users), User)
    BY <2>1, OrgUsedSum, OrgSumShares
  <2>3. IsFiniteSet(User) /\ FirstUsers \subseteq User /\ IsFiniteSet(FirstUsers)
    BY ChatAssumption, FS_Subset
  <2>4. \A u \in User : Share(users)[u] = IF u \in FirstUsers THEN used ELSE 0
    BY <1>4 DEF Share
  <2>5. Total(Share(users), User) = Total(Share(users), FirstUsers)
    <3>1. \A u \in User : Share(users)[u] \in Int
      BY <2>4, <1>2
    <3>2. \A u \in User \ FirstUsers : Share(users)[u] = 0
      BY <2>4
    <3>. QED  BY <2>3, <3>1, <3>2, TotalExtends
  <2>6. Total(Share(users), FirstUsers) = used * Cardinality(FirstUsers)
    <3>1. \A u \in FirstUsers : Share(users)[u] = used
      BY <2>3, <2>4
    <3>. QED  BY <3>1, <2>3, <1>2, TotalConst
  <2>7. Cardinality(FirstUsers) \in Nat
    BY <2>3, FS_CardinalityType
  <2>8. used * Cardinality(FirstUsers) <= Max(Charged) * Cardinality(FirstUsers)
    BY <2>7, <1>2, Times
  <2>. QED  BY <2>2, <2>5, <2>6, <2>8
<1>9. OrgQuota
  BY <1>3, <1>8 DEF OrgQuota
<1>. QED  BY <1>6, <1>7, <1>9 DEF QuotaInv

(* A bound that one of three numbers keeps is kept by the largest. *)
LEMMA MaxOfThree ==
  ASSUME NEW a \in Int, NEW b \in Int, NEW c \in Int, NEW k \in Int, k <= a \/ k <= c
  PROVE  k <= Max({a, b, c})
<1>1. \E m \in {a, b, c} : \A i \in {a, b, c} : i <= m
  <2>1. CASE b <= a /\ c <= a
    BY <2>1
  <2>2. CASE a <= b /\ c <= b
    BY <2>2
  <2>3. CASE a <= c /\ b <= c
    BY <2>3
  <2>. QED  BY <2>1, <2>2, <2>3
<1>2. Max({a, b, c}) \in {a, b, c} /\ \A i \in {a, b, c} : i <= Max({a, b, c})
  BY <1>1 DEF Max
<1>. QED  BY <1>2

LEMMA WithinQuota ==
  ASSUME NEW used \in Nat, NEW limit \in Nat, NEW start \in Nat,
         used <= Allowance(limit) \/ used <= start
  PROVE  Within(used, limit, start)
<1>. DEFINE K == Max(Remainders) * Cardinality(Stored)
            O == Prompt + Cardinality(Request) * Max(Remainders)
<1>1. K \in Nat /\ O \in Nat /\ Prompt \in Nat /\ Prompt + K <= O
  <2>1. /\ Cardinality(Stored) \in Nat /\ Cardinality(Request) \in Nat
        /\ Cardinality(Stored) <= Cardinality(Request) /\ K \in Nat
    BY StoredNumber
  <2>2. Max(Remainders) \in Nat /\ Prompt \in Nat
    BY Numbers
  <2>3. K <= Max(Remainders) * Cardinality(Request)
        /\ Cardinality(Request) * Max(Remainders) = Max(Remainders) * Cardinality(Request)
        /\ Cardinality(Request) * Max(Remainders) \in Nat
    BY <2>1, <2>2, Times
  <2>. HIDE DEF K
  <2>. QED  BY <2>1, <2>2, <2>3
<1>2. Allowance(limit) = limit - 1 + Prompt + K /\ Overrun = O
  BY DEF Allowance, Overrun
<1>. HIDE DEF K, O
<1>3. used <= limit - 1 + O \/ used <= start
  BY <1>1, <1>2
<1>4. used <= Max({limit - 1 + O, limit, start})
  BY <1>1, <1>3, MaxOfThree
<1>. QED  BY <1>2, <1>4 DEF Within

LEMMA QuotaInvHolds ==
  ASSUME TypeInv, QuotaInv
  PROVE  QuotaHolds
<1>1. Max(Charged) \in Nat /\ Max(Charged) * Cardinality(FirstUsers) \in Nat
  <2>1. Max(Charged) \in Nat
    BY Numbers
  <2>2. Cardinality(FirstUsers) \in Nat
    BY ChatAssumption, FS_Subset, FS_CardinalityType
  <2>. QED  BY <2>1, <2>2
<1>2. \A u \in User \ loose : Is(users[u]) /\ users[u].limit # 0 =>
          Within(users[u].used, users[u].limit, Max(Charged))
  <2>1. \A u \in User : users[u].used \in Nat /\ users[u].limit \in Nat
    BY Numbers DEF TypeInv, RowsTyped, UserRow
  <2>. QED  BY <2>1, <1>1, WithinQuota DEF QuotaInv, UserQuota
<1>3. \A t \in Team \ loose : Is(teams[t]) => Within(teams[t].used, teams[t].limit, Max(Charged))
  <2>1. \A t \in Team : teams[t].used \in Nat /\ teams[t].limit \in Nat
    BY Numbers DEF TypeInv, RowsTyped, TeamRow
  <2>. QED  BY <2>1, <1>1, WithinQuota DEF QuotaInv, TeamQuota
<1>4. Org \notin loose /\ Is(org) =>
          Within(OrgUsed, org.limit, Max(Charged) * Cardinality(FirstUsers))
  <2>1. users \in [User -> UserRow] /\ org.limit \in Nat
    BY Numbers DEF TypeInv, RowsTyped, OrgRow
  <2>2. OrgUsed \in Nat
    BY <2>1, OrgUsedSum, OrgSumShares
  <2>. QED  BY <2>1, <2>2, <1>1, WithinQuota DEF QuotaInv, OrgQuota
<1>. QED  BY <1>2, <1>3, <1>4 DEF QuotaHolds

(* The quotas of users, teams and the organization are checked before an    *)
(* answer's cost is known, so they can be overrun: but by one prompt and    *)
(* the answers of the requests, no more.                                   *)
THEOREM QuotasKept == Spec => []QuotaHolds
<1>1. Init => QuotaInv
  BY InitQuota
<1>2. TypeInv /\ QuotaInv /\ [Next]_vars => QuotaInv'
  BY NextQuota
<1>3. TypeInv /\ QuotaInv => QuotaHolds
  BY QuotaInvHolds
<1>. QED  BY <1>1, <1>2, <1>3, TypesAlways, PTL DEF Spec

================================================================================
