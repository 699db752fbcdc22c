------------------------------ MODULE StreamParser ------------------------------
(***************************************************************************)
(* The parser of app/services/chat/stream_parser.py: it splits the stream  *)
(* of a reasoning model into what was thought and what was answered, from  *)
(* pieces that may break a tag anywhere.                                    *)
(*                                                                         *)
(* Text is a sequence of symbols.  The tags are spelled so that a piece    *)
(* can end inside one: "<", then "/" for the closing tag, then "think>".   *)
(* Every other text is "x".                                                *)
(***************************************************************************)
EXTENDS Naturals, Sequences, SequencesExt, Lists

CONSTANTS
  MaxPiece,   \* symbols of one piece of the stream
  MaxText     \* symbols of the whole stream

ASSUME StreamAssumption == MaxPiece \in Nat \ {0} /\ MaxText \in Nat

VARIABLES
  parser,     \* the fields of a StreamBufferParser
  fed         \* history: everything fed so far

streamVars == <<parser, fed>>

OpenTag == <<"<", "think>">>
CloseTag == <<"<", "/", "think>">>
Symbols == {"<", "/", "think>", "x"}

NewParser ==
  [buffer |-> <<>>, inThink |-> FALSE, seen |-> FALSE,
   thinking |-> <<>>, answer |-> <<>>, closed |-> FALSE]

(* Where tag first occurs in text, 0 when it does not.                      *)
Find(tag, text) ==
  SelectInSeq([i \in 1..Len(text) |-> i],
              LAMBDA i : IsPrefix(tag, SubSeq(text, i, Len(text))))

Before(tag, text) == SubSeq(text, 1, Find(tag, text) - 1)
After(tag, text) == SubSeq(text, Find(tag, text) + Len(tag), Len(text))

(* Text without any occurrence of tag (str.replace).                        *)
Without(tag, text) ==
  LET starts == {i \in 1..Len(text) : IsPrefix(tag, SubSeq(text, i, Len(text)))}
      gone == UNION {i..(i + Len(tag) - 1) : i \in starts}
  IN  Picked(1..Len(text) \ gone, text)

Clean(text) == Without(OpenTag, Without(CloseTag, text))

(* Mutant of Sendable: everything is passed on. *)
SendableAll(tag, text) == Len(text)

(* How many symbols of text may be passed on while tag is looked for: all   *)
(* but an ending that could be the tag's beginning.                         *)
Sendable(tag, text) ==
  LET last == SelectLastInSeq(text, LAMBDA s : s = "<")
  IN  IF last # 0 /\ IsPrefix(SubSeq(text, last, Len(text)), tag)
      THEN last - 1
      ELSE Len(text)
--------------------------------------------------------------------------------
(* feed, once a reasoning part has ended: whole tags are taken out, a tag   *)
(* broken over two pieces is not seen.                                      *)
Answering(p) == [p EXCEPT !.answer = @ \o Clean(p.buffer), !.buffer = <<>>]

(* feed, inside the reasoning part.                                         *)
Thinking(p) ==
  IF Find(CloseTag, p.buffer) # 0
  THEN Answering([p EXCEPT !.thinking = @ \o Before(CloseTag, p.buffer),
                           !.inThink = FALSE,
                           !.buffer = After(CloseTag, p.buffer)])
  ELSE LET n == Sendable(CloseTag, p.buffer)
       IN  [p EXCEPT !.thinking = @ \o SubSeq(p.buffer, 1, n),
                     !.buffer = SubSeq(@, n + 1, Len(@))]

(* feed, before any reasoning part.                                         *)
Listening(p) ==
  IF Find(OpenTag, p.buffer) # 0
  THEN Thinking([p EXCEPT !.answer = @ \o Before(OpenTag, p.buffer),
                          !.inThink = TRUE,
                          !.seen = TRUE,
                          !.buffer = After(OpenTag, p.buffer)])
  ELSE LET n == Sendable(OpenTag, p.buffer)
       IN  [p EXCEPT !.answer = @ \o SubSeq(p.buffer, 1, n),
                     !.buffer = SubSeq(@, n + 1, Len(@))]

Feed(piece) ==
  LET p == [parser EXCEPT !.buffer = @ \o piece]
  IN  /\ ~parser.closed
      /\ Len(fed) + Len(piece) <= MaxText
      /\ parser' = IF p.inThink THEN Thinking(p)
                   ELSE IF p.seen THEN Answering(p) ELSE Listening(p)
      /\ fed' = fed \o piece

(* finalize: what was held back is text after all.                          *)
Flush ==
  /\ ~parser.closed
  /\ parser' = [(IF parser.inThink
                 THEN [parser EXCEPT !.thinking = @ \o parser.buffer,
                                     !.buffer = <<>>]
                 ELSE Answering(parser))
                EXCEPT !.closed = TRUE]
  /\ UNCHANGED fed

StreamInit == parser = NewParser /\ fed = <<>>

StreamNext ==
  \/ \E n \in 1..MaxPiece : \E piece \in [1..n -> Symbols] : Feed(piece)
  \/ Flush
--------------------------------------------------------------------------------
(* However the stream is cut into pieces, the closed parser has taken the   *)
(* reasoning exactly from between the first opening tag and the closing tag *)
(* that follows it, what precedes it is in the answer as it came, and no    *)
(* plain text is lost or changes sides: feed and finalize of                *)
(* stream_parser.py.                                                        *)
Plain(text) == Only({"x"}, text)

CutAnyhow ==
  parser.closed =>
    LET rest == After(OpenTag, fed)
    IN  IF Find(OpenTag, fed) = 0
        THEN parser.thinking = <<>> /\ parser.answer = fed
        ELSE IF Find(CloseTag, rest) = 0
             THEN /\ parser.thinking = rest
                  /\ parser.answer = Before(OpenTag, fed)
             ELSE /\ parser.thinking = Before(CloseTag, rest)
                  /\ IsPrefix(Before(OpenTag, fed), parser.answer)
                  /\ Plain(parser.answer) =
                       Plain(Before(OpenTag, fed) \o After(CloseTag, rest))
================================================================================
