---------------------------- MODULE FederatedSearch ----------------------------
(***************************************************************************)
(* The search behind a chat question that is to be answered from the       *)
(* documents: FederatedSearchService of                                    *)
(* app/services/chat/federated_search.py.  It asks one shard after the     *)
(* other, those of the organizations first and the global one last, and    *)
(* when nothing is found asks all of them again with the question before   *)
(* put in front (the second pass).                                         *)
(*                                                                         *)
(* A passage knows the shard and the team it belongs to, how it begins     *)
(* (its first 80 characters), and in which passes it is similar enough.    *)
(* A shard answers with the first TopK of what the asked teams may see;    *)
(* passages are numbered by similarity.  That a retrieval keeps to the     *)
(* teams it was asked for is what RequestGate checks.                      *)
(***************************************************************************)
EXTENDS Naturals, Sequences, FiniteSets, SequencesExt, Lists

CONSTANTS
  Passages,        \* numbers of the indexed passages
  Orgs, Teams,     \* the organizations, and the teams they have
  Everyone,        \* "global", the shard and the team
  Nobody,          \* no organization, no team
  Beginnings,      \* the first 80 characters of a passage
  TopK             \* passages of one answer

ASSUME FederationAssumption ==
  /\ Passages \subseteq Nat /\ IsFiniteSet(Passages) /\ IsFiniteSet(Orgs)
  /\ Everyone \notin Orgs \cup Teams /\ Nobody \notin Orgs \cup Teams
  /\ TopK \in Nat \ {0}

VARIABLES
  corpus,   \* [Passages -> what is indexed]
  asker,    \* role, organization, team, and whether there was a question before
  pass,     \* "primary", "contextual" or "over"
  todo,     \* the shards that are still to be asked in this pass
  cited,    \* the citations of this pass, in order
  status,   \* what is reported of the search as a whole
  answered, \* history: the shards that answered, and
  broken    \* those that failed, with their pass

federatedVars == <<corpus, asker, pass, todo, cited, status, answered, broken>>

Passes == {"primary", "contextual"}
Roles == {"user", "org_admin", "super_admin"}
Shards == Orgs \cup {Everyone}

(* The organizations to ask: one's own; for a super admin every one that    *)
(* has documents, as far as they could be listed.                           *)
Targets(listed) ==
  LET rows == IF asker.role = "super_admin" /\ listed
              THEN {corpus[p].org : p \in Passages} ELSE {}
  IN  (rows \cup {asker.org}) \ {Nobody, Everyone}

(* Admins see every team that has a row, others their own; and all see what *)
(* is global.                                                               *)
Visible(org) ==
  IF org = Everyone THEN {Everyone}
  ELSE IF asker.role # "user" THEN Teams \cup {Everyone}
  ELSE {asker.team, Everyone} \ {Nobody}

(* What a shard answers, best first.                                        *)
Retrieved(org) ==
  LET found == {p \in Passages : corpus[p].org = org /\ corpus[p].team \in Visible(org)}
  IN  Top(TopK, Sorted(found, <))

Similar(p) == pass \in corpus[p].similar
Alike(p, q) == corpus[p].begins = corpus[q].begins

(* Mutant of Merged: repetitions are looked for within one shard only.      *)
MergedPerShard(passages) ==
  cited \o Picked({i \in DOMAIN passages :
                    /\ Similar(passages[i])
                    /\ \A j \in 1..(i - 1) : Similar(passages[j]) =>
                                            ~Alike(passages[j], passages[i])},
                  passages)

(* The citations with those of passages that are similar enough and do not  *)
(* begin like one that is cited already.                                    *)
Merged(passages) ==
  LET news == {i \in DOMAIN passages :
                 /\ Similar(passages[i])
                 /\ \A q \in ToSet(cited) : ~Alike(q, passages[i])
                 /\ \A j \in 1..(i - 1) : Similar(passages[j]) =>
                                         ~Alike(passages[j], passages[i])}
  IN  cited \o Picked(news, passages)
--------------------------------------------------------------------------------
(* _execute_search_pass begins.  Only the super admin's listing can fail.   *)
Begin(which) ==
  /\ pass' = which
  /\ cited' = <<>>
  /\ \E listed \in BOOLEAN :
       /\ ~listed => asker.role = "super_admin"
       /\ todo' = Targets(listed) \cup {Everyone}

Turn(shard) ==
  /\ shard \in todo
  /\ shard = Everyone => todo = {Everyone}
  /\ todo' = todo \ {shard}
  /\ UNCHANGED <<corpus, asker, pass, status>>

Ask(shard) ==
  /\ Turn(shard)
  /\ cited' = Merged(Retrieved(shard))
  /\ answered' = answered \cup {<<pass, shard>>}
  /\ UNCHANGED broken

(* A shard that raises is logged and left out.                              *)
ShardFails(shard) ==
  /\ Turn(shard)
  /\ broken' = broken \cup {<<pass, shard>>}
  /\ UNCHANGED <<cited, answered>>

(* "failed" when every shard of the pass raised, "degraded" when some did.  *)
PassStatus ==
  LET failed == {s \in Shards : <<pass, s>> \in broken}
      replied == {s \in Shards : <<pass, s>> \in answered}
  IN  IF replied = {} THEN "failed" ELSE IF failed # {} THEN "degraded" ELSE "ok"

(* Without a citation, and with a question before this one, once more; the  *)
(* status of the second pass counts only if that failed and the first was   *)
(* "ok".                                                                    *)
EndPass ==
  /\ pass # "over" /\ todo = {}
  /\ status' = IF pass = "primary" THEN PassStatus
               ELSE IF PassStatus = "failed" /\ status = "ok" THEN "failed" ELSE status
  /\ IF pass = "primary" /\ cited = <<>> /\ asker.before
     THEN Begin("contextual")
     ELSE pass' = "over" /\ UNCHANGED <<todo, cited>>
  /\ UNCHANGED <<corpus, asker, answered, broken>>

FederatedInit ==
  /\ corpus \in [Passages -> [org : Shards, team : Teams \cup {Everyone},
                              begins : Beginnings, similar : SUBSET Passes]]
  /\ asker \in [role : Roles, org : Orgs \cup {Nobody}, team : Teams \cup {Nobody},
                before : BOOLEAN]
  /\ pass = "primary"
  /\ \E listed \in BOOLEAN :
       /\ ~listed => asker.role = "super_admin"
       /\ todo = Targets(listed) \cup {Everyone}
  /\ cited = <<>>
  /\ status = "ok"
  /\ answered = {} /\ broken = {}

FederatedNext ==
  \/ \E s \in Shards : Ask(s) \/ ShardFails(s)
  \/ EndPass
--------------------------------------------------------------------------------
(* Whatever shards fail, the search as a whole keeps its promises.  Nobody  *)
(* is shown a passage of another organization or of a team that is not      *)
(* theirs to see; no two citations begin alike, also across shards; what a  *)
(* shard that answered found in the last pass is cited, if only by a        *)
(* passage that begins alike; nothing is cited in the end only if neither   *)
(* pass, the second included where there was a question before, found       *)
(* anything; and "ok" means that in the first pass every shard asked        *)
(* answered, and in the second at least one.                                *)
MayRead(p) ==
  \/ corpus[p].org = Everyone /\ corpus[p].team = Everyone
  \/ /\ corpus[p].org = asker.org \/ asker.role = "super_admin"
     /\ corpus[p].org # Everyone
     /\ corpus[p].team \in {asker.team, Everyone} \/ asker.role # "user"

FoundIn(which) ==
  {p \in Passages : which \in corpus[p].similar /\
     \E s \in Shards : <<which, s>> \in answered /\ p \in ToSet(Retrieved(s))}

FederationHolds ==
  pass = "over" =>
    LET last == IF \E s \in Shards : <<"contextual", s>> \in answered \cup broken
                THEN "contextual" ELSE "primary"
        citations == ToSet(cited)
    IN  /\ \A p \in citations : MayRead(p)
        /\ \A i, j \in DOMAIN cited :
             Alike(cited[i], cited[j]) => i = j
        /\ \A p \in FoundIn(last) : \E q \in citations : Alike(q, p)
        /\ last = "contextual" => FoundIn("primary") = {}
        /\ cited = <<>> /\ asker.before => last = "contextual"
        /\ status = "ok" =>
             /\ \A s \in Shards : <<"primary", s>> \notin broken
             /\ \E s \in Shards : <<last, s>> \in answered
================================================================================
