---------------------------- MODULE SemanticChunker ----------------------------
(***************************************************************************)
(* The token-budgeted chunker of rag/ingestion/chunking/semantic.py: the   *)
(* units of a document, in order, are packed into chunks that overlap.     *)
(*                                                                         *)
(* A unit is what build_units makes of the text: one heading, list item,   *)
(* table row or sentence, with its number of word tokens.  A chunk is a    *)
(* sequence of unit numbers.  One action per branch of the loop of _group; *)
(* _merge_undersized is part of the last.                                  *)
(***************************************************************************)
EXTENDS Naturals, Sequences, FiniteSets, SequencesExt, FiniteSetsExt

CONSTANTS
  MaxTokens, OverlapTokens, MinChunkTokens,  \* ChunkingConfig
  UnitTokens,  \* numbers of tokens a unit may have
  MaxUnits     \* units of the document

(* ChunkingConfig.validate, without its ceiling.                            *)
ValidConfig ==
  /\ MaxTokens \in Nat \ {0}
  /\ OverlapTokens \in Nat /\ OverlapTokens < MaxTokens
  /\ MinChunkTokens \in Nat

ASSUME ChunkingAssumption ==
  /\ ValidConfig
  /\ UnitTokens \subseteq Nat
  /\ MaxUnits \in Nat

VARIABLES
  units,    \* the units read so far
  groups,   \* the chunks closed so far
  current,  \* the chunk being filled
  split     \* whether the document has been read to its end

chunkVars == <<units, groups, current, split>>

(* A list item and a table row are treated alike.                           *)
Kinds == {"heading", "item", "sentence"}

Tokens(chunk) == MapThenSumSet(LAMBDA i : units'[i].tokens, ToSet(chunk))

(* How many units of chunk stay when its trailing headings are taken off.   *)
Kept(chunk) == SelectLastInSeq(chunk, LAMBDA i : units'[i].kind # "heading")
Body(chunk) == SubSeq(chunk, 1, Kept(chunk))
Headings(chunk) == SubSeq(chunk, Kept(chunk) + 1, Len(chunk))

Close(chunk) == IF chunk = <<>> THEN groups ELSE Append(groups, chunk)
--------------------------------------------------------------------------------
(* Mutant of Overlap: whatever is short and no list item is repeated. *)
OverlapSplicing(chunk) ==
  SelectSeq(chunk, LAMBDA i : /\ units'[i].kind # "item"
                              /\ units'[i].tokens <= OverlapTokens)

(* The end of chunk that is repeated in the next one: as many units, none   *)
(* of them a list item, as the overlap allows, or else its last sentence.   *)
Overlap(chunk) ==
  LET From(k) == SubSeq(chunk, k, Len(chunk))
      fitting == {k \in DOMAIN chunk :
                    /\ \A i \in ToSet(From(k)) : units'[i].kind # "item"
                    /\ Tokens(From(k)) <= OverlapTokens}
      last == units'[Last(chunk)]
  IN  IF OverlapTokens = 0 THEN <<>>
      ELSE IF fitting # {} THEN From(Min(fitting))
      ELSE IF last.kind = "sentence" /\ last.tokens < MaxTokens
           THEN From(Len(chunk))
           ELSE <<>>

Read(unit) ==
  /\ ~split
  /\ Len(units) < MaxUnits
  /\ units' = Append(units, unit)
  /\ UNCHANGED split

(* A unit that fills a chunk by itself takes the headings before it along.  *)
Oversized(unit) ==
  /\ Read(unit)
  /\ unit.tokens >= MaxTokens
  /\ groups' = Append(Close(Body(current)), Append(Headings(current), Len(units')))
  /\ current' = <<>>

Overflows(unit) ==
  /\ unit.tokens < MaxTokens
  /\ current # <<>>
  /\ Tokens(current) + unit.tokens > MaxTokens

Fits(unit) ==
  /\ Read(unit)
  /\ unit.tokens < MaxTokens
  /\ ~Overflows(unit)
  /\ current' = Append(current, Len(units'))
  /\ UNCHANGED groups

(* A chunk that would end in headings gives them to the next one.           *)
CarryHeadings(unit) ==
  /\ Read(unit)
  /\ Overflows(unit)
  /\ Headings(current) # <<>>
  /\ groups' = Close(Body(current))
  /\ current' = Append(Headings(current), Len(units'))

StartNext(unit) ==
  /\ Read(unit)
  /\ Overflows(unit)
  /\ Headings(current) = <<>>
  /\ groups' = Close(current)
  /\ current' = Append(Overlap(current), Len(units'))

(* _merge_undersized: fold a short last chunk into the one before it.       *)
Folded(chunks) ==
  LET n == Len(chunks)
  IN  IF /\ MinChunkTokens > 0 /\ n >= 2
         /\ Tokens(chunks[n]) < MinChunkTokens
         /\ Tokens(chunks[n - 1]) + Tokens(chunks[n]) <= MaxTokens
      THEN Append(SubSeq(chunks, 1, n - 2), chunks[n - 1] \o chunks[n])
      ELSE chunks

Finish ==
  /\ ~split
  /\ split' = TRUE
  /\ UNCHANGED units
  /\ groups' = Folded(Close(current))
  /\ current' = <<>>

ChunkInit == units = <<>> /\ groups = <<>> /\ current = <<>> /\ split = FALSE

ChunkNext ==
  \/ \E unit \in [kind : Kinds, tokens : UnitTokens] :
       Oversized(unit) \/ Fits(unit) \/ CarryHeadings(unit) \/ StartNext(unit)
  \/ Finish
--------------------------------------------------------------------------------
Size(chunk) == MapThenSumSet(LAMBDA i : units[i].tokens, ToSet(chunk))
Heading(i) == units[i].kind = "heading"

(* The chunks of a document are read as the document is: each is a stretch  *)
(* of adjacent units, no unit twice, each starts no later than where the    *)
(* one before it ended and goes further (or repeats its end, when all that  *)
(* was new are headings carried on), and together they reach the end.       *)
(* What two chunks share is within the overlap budget or a single sentence. *)
(* No heading ends a chunk but at the end of the document or when it fills  *)
(* a chunk by itself, and a chunk without a heading holds less than twice   *)
(* the budget unless one unit fills it: _group, _overlap_units and          *)
(* _merge_undersized together.                                              *)
ChunksWhole ==
  split =>
    /\ \A g \in DOMAIN groups :
         LET chunk == groups[g]
             end == Last(chunk)
         IN  /\ chunk = [k \in 1..Len(chunk) |-> Head(chunk) + k - 1]
             /\ g = 1 => Head(chunk) = 1
             /\ g > 1 => /\ Head(chunk) <= Last(groups[g - 1]) + 1
                         /\ \/ end > Last(groups[g - 1])
                            \/ end = Last(groups[g - 1]) /\ Heading(end + 1)
                         /\ LET shared == Head(chunk)..Last(groups[g - 1])
                            IN  \/ MapThenSumSet(LAMBDA i : units[i].tokens, shared)
                                     <= OverlapTokens
                                \/ Cardinality(shared) = 1
             /\ Heading(end) => \/ end = Len(units)
                                \/ units[end].tokens >= MaxTokens
             /\ \/ Size(chunk) <= MaxTokens \/ Size(chunk) <= 2 * MaxTokens - 2
                \/ \E i \in ToSet(chunk) : Heading(i)
                \/ Len(chunk) = 1
    /\ units # <<>> => groups # <<>> /\ Last(Last(groups)) = Len(units)
================================================================================
