----------------------------- MODULE MC_Algorithms -----------------------------
(* The four sequential algorithms,  each explored by itself: a behaviour    *)
(* runs its subject and leaves the others where they start.                 *)
EXTENDS StreamParser, SemanticChunker, AnswerPipeline, FederatedSearch

CONSTANTS short, long

MCLength == [t \in {short, long} |-> IF t = short THEN 3 ELSE 6]

(* Every combination of the knobs of a question, two values each; what only *)
(* the reranker looks at has one value where nothing is reranked.           *)
MCOptions ==
  {o \in [topK : {1, 2}, pool : {2, 3}, perDocument : {1, None}, window : {1, 2},
          rerank : BOOLEAN, minScore : {0, 200}, budget : {3, 6}] :
     ~o.rerank => o.window = 1 /\ o.minScore = 0}

VARIABLE subject

vars == <<streamVars, chunkVars, answerVars, federatedVars, subject>>

Init ==
  /\ subject \in {"stream", "chunk", "answer", "federated"}
  /\ subject # "answer" =>
       /\ options = CHOOSE o \in Options : TRUE
       /\ store = [c \in Chunks |-> [doc |-> 1, text |-> short, near |-> 5, home |-> TRUE]]
  /\ subject # "federated" =>
       /\ corpus = [p \in Passages |-> [org |-> Everyone, team |-> Everyone,
                                       begins |-> short, similar |-> {}]]
       /\ asker = [role |-> "user", org |-> Nobody, team |-> Nobody, before |-> FALSE]
  /\ StreamInit
  /\ ChunkInit
  /\ AnswerInit
  /\ FederatedInit
  /\ asker.role # "user" => asker.team = Nobody  \* nobody asks for an admin's team

Stream ==
  /\ subject = "stream" /\ StreamNext
  /\ UNCHANGED <<chunkVars, answerVars, federatedVars, subject>>
Chunk ==
  /\ subject = "chunk" /\ ChunkNext
  /\ UNCHANGED <<streamVars, answerVars, federatedVars, subject>>
Answer ==
  /\ subject = "answer" /\ AnswerNext
  /\ UNCHANGED <<streamVars, chunkVars, federatedVars, subject>>
Federated ==
  /\ subject = "federated" /\ FederatedNext
  /\ UNCHANGED <<streamVars, chunkVars, answerVars, subject>>

Done ==
  /\ parser.closed \/ split \/ stage = "answered" \/ pass = "over"
  /\ UNCHANGED vars

Next == Stream \/ Chunk \/ Answer \/ Federated \/ Done

Spec == Init /\ [][Next]_vars
================================================================================
