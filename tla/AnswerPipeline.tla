---------------------------- MODULE AnswerPipeline ----------------------------
(***************************************************************************)
(* One question's way from the chunk store to the context of an answer:    *)
(* RagOrchestrator.execute, that is SecureRetrievalEngine.search with its  *)
(* quality pipeline (rag/retrieval) and then PostRetrievalPipeline.process *)
(* (rag/pipeline).  One action per stage; the chunks that are left are a   *)
(* sequence of their numbers, which stand for the order of the chunk ids.  *)
(*                                                                         *)
(* Scores are whole numbers: a chunk is as near to the question as `near`  *)
(* says, and the question's words and phrase are in a text or not.  The    *)
(* weights are the shipped ones (config/retrieval.yaml and pipeline.yaml). *)
(* The search may be given a foreign chunk, as the validators assume.      *)
(* `rerank` is the lexical backend; without it nothing is scored anew.     *)
(* Length is that of a block in either context, which render it alike.     *)
(* Only callers within the process can set minScore.                       *)
(***************************************************************************)
EXTENDS Naturals, Sequences, FiniteSets, SequencesExt, FiniteSetsExt, Lists

CONSTANTS
  Chunks,        \* numbers of the chunks the store holds
  Docs, Texts,   \* the documents; the texts after normalisation
  Near,          \* 0..20, cosine similarities
  Matching,      \* the texts the question's words are in
  Length,        \* [Texts -> Nat], characters of a rendered block
  Envelope,      \* characters around the blocks
  CharsPerToken,
  MaxContextChars,   \* of the context the retrieval assembles
  Options,       \* the requests: see ValidOptions
  None           \* no bound

(* What is left of a request and the configuration once they are validated; *)
(* the ceilings are left out.                                               *)
ValidOptions(o) ==
  /\ o.topK \in Nat \ {0}
  /\ o.pool \in Nat /\ o.pool >= o.topK     \* candidate_pool_k
  /\ o.perDocument \in Nat \cup {None}      \* max_chunks_per_document
  /\ o.window \in Nat \ {0}                 \* max_candidates
  /\ o.rerank \in BOOLEAN
  /\ o.minScore \in Nat                     \* min_rerank_score, 0 for none
  /\ o.budget \in Nat \ {0}                 \* max_context_tokens

ASSUME OptionsAssumption ==
  /\ Chunks \subseteq Nat /\ IsFiniteSet(Chunks)
  /\ Docs \subseteq Nat
  /\ Near \subseteq 0..20
  /\ Matching \subseteq Texts
  /\ Length \in [Texts -> Nat \ {0}]
  /\ Envelope \in Nat /\ CharsPerToken \in Nat \ {0}
  /\ MaxContextChars \in Nat \ {0}
  /\ \A o \in Options : ValidOptions(o)

VARIABLES
  store,     \* [Chunks -> what the store knows of a chunk]
  options,   \* the request
  stage,     \* the stage that comes next
  list,      \* the chunks that are left, best first
  scored,    \* the chunks that have a rerank score
  quoted,    \* the chunks in the context of the retrieval result
  context,   \* the chunks in the context of the answer, one block each
  sources    \* [document -> its chunks], the citations

answerVars == <<store, options, stage, list, scored, quoted, context, sources>>

(* 0.7 * similarity + 0.2 * words + 0.1 * phrase, with 1.0 written as 200;  *)
(* and 0.5 * that + 0.3 * words + 0.2 * phrase, for which 1.0 is 400.       *)
Hit(c) == IF store[c].text \in Matching THEN 1 ELSE 0
Score(c) == 7 * store[c].near + 60 * Hit(c)
RerankScore(c) == Score(c) + 200 * Hit(c)
EffectiveIn(S, c) == IF c \in S THEN RerankScore(c) ELSE 2 * Score(c)
Effective(c) == EffectiveIn(scored, c)

(* The best n of S, best first.                                             *)
Best(n, S, Ahead(_, _)) == Top(n, Sorted(S, Ahead))

(* rank_by_similarity, by similarity and by the first score.                *)
Nearer(c, d) == store[c].near > store[d].near \/ (store[c].near = store[d].near /\ c < d)
Ranked(c, d) == Score(c) > Score(d) \/ (Score(c) = Score(d) /\ c < d)

(* retrieval_sort_key and final_sort_key: score, document, chunk.           *)
InDocument(c, d) ==
  \/ store[c].doc < store[d].doc
  \/ store[c].doc = store[d].doc /\ c < d
ByRetrieval(c, d) == Score(c) > Score(d) \/ (Score(c) = Score(d) /\ InDocument(c, d))
FinalIn(S, c, d) ==
  \/ EffectiveIn(S, c) > EffectiveIn(S, d)
  \/ EffectiveIn(S, c) = EffectiveIn(S, d) /\ ByRetrieval(c, d)
Final(c, d) == FinalIn(scored, c, d)

Home == {c \in Chunks : store[c].home}

Advance(from, to) == stage = from /\ stage' = to /\ UNCHANGED <<store, options>>
--------------------------------------------------------------------------------
(* The nearest candidate_k chunks of the scope, as the store filters them;  *)
(* a store that fails to may return a foreign one.                          *)
Generate ==
  /\ Advance("generate", "rank")
  /\ list' = Best(options.pool, Chunks, Nearer)
  /\ UNCHANGED <<scored, quoted, context, sources>>

Rank ==
  /\ Advance("rank", "deduplicate")
  /\ list' = Best(Len(list), ToSet(list), Ranked)
  /\ UNCHANGED <<scored, quoted, context, sources>>

(* Of chunks with one text the first stays.                                 *)
Deduplicate ==
  /\ Advance("deduplicate", "diversify")
  /\ list' = Only({c \in Chunks : \A d \in ToSet(list) :
                      store[d].text = store[c].text => ~Ranked(d, c)}, list)
  /\ UNCHANGED <<scored, quoted, context, sources>>

(* DiversityFilter: at most so many chunks of one document.                 *)
Diversify ==
  /\ Advance("diversify", "assemble")
  /\ list' = IF options.perDocument = None THEN list
             ELSE Only({c \in Chunks :
                          Cardinality({d \in ToSet(list) :
                                         store[d].doc = store[c].doc /\ Ranked(d, c)})
                            < options.perDocument}, list)
  /\ UNCHANGED <<scored, quoted, context, sources>>

(* final_k, and ContextAssembler: as many of the chunks, in order, as the   *)
(* characters allow, the separators between them counted.                   *)
Characters(chunks) == MapThenSumSet(LAMBDA i : Length[store[chunks[i]].text], DOMAIN chunks)
Assemble ==
  /\ Advance("assemble", "validate")
  /\ LET top == Top(options.pool, list)
         fitting == {n \in 0..Len(top) :
                       Characters(SubSeq(top, 1, n)) + (IF n = 0 THEN 0 ELSE n - 1)
                         <= MaxContextChars}
     IN  /\ list' = top
         /\ quoted' = SubSeq(top, 1, Max(fitting))
  /\ UNCHANGED <<scored, context, sources>>

(* Mutant of Validate: the context is kept as it was assembled. *)
ValidateKeeping ==
  /\ Advance("validate", "authorize")
  /\ list' = Only(Home, list)
  /\ UNCHANGED <<scored, quoted, context, sources>>

(* The engine's own validation: foreign chunks are taken out, and with them *)
(* the context, which was assembled before and may quote them.              *)
Validate ==
  /\ Advance("validate", "authorize")
  /\ list' = Only(Home, list)
  /\ quoted' = IF list' = list THEN quoted ELSE <<>>
  /\ UNCHANGED <<scored, context, sources>>

(* The pipeline validates again and, as configured, fails on a foreign one. *)
Authorize ==
  /\ stage = "authorize"
  /\ stage' = IF ToSet(list) \subseteq Home THEN "rerank" ELSE "refused"
  /\ UNCHANGED <<store, options, list, scored, quoted, context, sources>>

(* The candidates that are scored anew.                                     *)
Window == ToSet(Best(options.window, ToSet(list), ByRetrieval))

(* Only the window of the best is scored anew; the minimum holds for all.   *)
Rerank ==
  /\ Advance("rerank", "collapse")
  /\ LET W == Window
         remainder == Best(Len(list), ToSet(list) \ W, ByRetrieval)
         ordered == Best(Len(list), W, LAMBDA c, d : FinalIn(W, c, d)) \o remainder
     IN  IF options.rerank
         THEN /\ scored' = W
              /\ list' = Only({c \in Chunks : EffectiveIn(W, c) >= options.minScore},
                              ordered)
         ELSE UNCHANGED <<scored, list>>
  /\ UNCHANGED <<quoted, context, sources>>

(* ChunkDeduplicator: of chunks with one text the best stays, the first of  *)
(* equals, where it stands.                                                 *)
Wins(i, j) ==
  \/ Effective(list[i]) > Effective(list[j])
  \/ Effective(list[i]) = Effective(list[j]) /\ i < j
Collapse ==
  /\ Advance("collapse", "select")
  /\ list' = Picked({i \in DOMAIN list : \A j \in DOMAIN list :
                       store[list[j]].text = store[list[i]].text => ~Wins(j, i)}, list)
  /\ UNCHANGED <<scored, quoted, context, sources>>

(* CharEstimateTokenCounter over the assembled text.                        *)
CeilDiv(n, d) == (n + d - 1) \div d
ContextTokens(chunks) ==
  IF chunks = <<>> THEN 0 ELSE CeilDiv(Envelope + Characters(chunks), CharsPerToken)

(* Mutant of Select: a chunk that does not fit is skipped. *)
SelectGreedily ==
  /\ Advance("select", "build")
  /\ list' = LET Take(taken, c) == IF ContextTokens(Append(taken, c)) <= options.budget
                                  THEN Append(taken, c) ELSE taken
             IN  FoldLeft(Take, <<>>, Best(options.topK, ToSet(list), Final))
  /\ UNCHANGED <<scored, quoted, context, sources>>

(* TopKSelector: the longest beginning of the top k within the budget.      *)
Select ==
  /\ Advance("select", "build")
  /\ LET head == Best(options.topK, ToSet(list), Final)
         fitting == {n \in 0..Len(head) :
                       ContextTokens(SubSeq(head, 1, n)) <= options.budget}
     IN  list' = SubSeq(head, 1, Max(fitting))
  /\ UNCHANGED <<scored, quoted, context, sources>>

(* DelimitedContextBuilder raises when the blocks exceed the budget; then   *)
(* the selected chunks are rolled up by document, the first seen first.     *)
Build ==
  /\ stage = "build"
  /\ UNCHANGED <<store, options, list, scored, quoted>>
  /\ IF ContextTokens(list) > options.budget
     THEN stage' = "failed" /\ UNCHANGED <<context, sources>>
     ELSE /\ stage' = "answered"
          /\ context' = list
          /\ sources' = [doc \in {store[c].doc : c \in ToSet(list)} |->
                           Only({c \in Chunks : store[c].doc = doc}, list)]

AnswerInit ==
  /\ store \in [Chunks -> [doc : Docs, text : Texts, near : Near, home : BOOLEAN]]
  /\ Cardinality({c \in Chunks : ~store[c].home}) <= 1
  /\ options \in Options
  /\ stage = "generate"
  /\ list = <<>> /\ scored = {} /\ quoted = <<>> /\ context = <<>> /\ sources = <<>>

AnswerNext ==
  \/ Generate \/ Rank \/ Deduplicate \/ Diversify \/ Assemble \/ Validate
  \/ Authorize \/ Rerank \/ Collapse \/ Select \/ Build
--------------------------------------------------------------------------------
(* A chunk of the caller's that the store holds is in the answer unless one *)
(* of these can be shown from the store and the answer alone: its text is   *)
(* there from a chunk at least as good, enough chunks of its document are   *)
(* better, enough chunks are nearer, it is below the minimum, or everything *)
(* in the answer precedes it and the answer is full or could not take it or *)
(* one before it.  No two of the answer have one text, and better ones come *)
(* first: the stages of RagOrchestrator.execute together.                   *)
NothingLost ==
  stage = "answered" =>
    LET answer == ToSet(context)
        Atleast(n, S) == Cardinality(S) >= n
        Crowded(c) == /\ options.perDocument # None
                      /\ Atleast(options.perDocument,
                                 {d \in Chunks : store[d].doc = store[c].doc /\ Ranked(d, c)})
        NoRoom(c) == \E d \in Chunks \ answer :
                       /\ d = c \/ Final(d, c)
                       /\ ContextTokens(Append(context, d)) > options.budget
    IN  /\ \A c \in Home \ answer :
             \/ \E d \in Chunks : store[d].text = store[c].text /\ Ranked(d, c)
             \/ Crowded(c)
             \/ Atleast(options.pool, {d \in Chunks : Nearer(d, c)})
             \/ options.rerank /\ Effective(c) < options.minScore
             \/ /\ \A d \in answer : Final(d, c)
                /\ Len(context) = options.topK \/ NoRoom(c)
        /\ Cardinality({store[c].text : c \in answer}) = Len(context)
        /\ \A i, j \in DOMAIN context : i < j => Final(context[i], context[j])

(* What reaches the caller is the caller's, whatever the store returned:    *)
(* neither the answer nor the context of the retrieval quotes a foreign     *)
(* chunk once it has been validated, the context is within its budget, the  *)
(* selector and the builder never disagree about that, and every block of   *)
(* the context is cited under exactly one source: engine.py, pipeline.py,   *)
(* context_builder.py and provenance.py.                                    *)
ContextHolds ==
  /\ stage \notin {"failed", "refused"}
  /\ stage \in {"authorize", "rerank", "collapse", "select", "build", "answered"} =>
       ToSet(quoted) \cup ToSet(list) \subseteq Home
  /\ stage = "answered" =>
       /\ ContextTokens(context) <= options.budget
       /\ UNION {ToSet(sources[doc]) : doc \in DOMAIN sources} = ToSet(context)
       /\ \A doc \in DOMAIN sources :
            sources[doc] # <<>> /\ \A c \in ToSet(sources[doc]) : store[c].doc = doc
================================================================================
