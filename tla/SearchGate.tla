----------------------------- MODULE SearchGate -----------------------------
(***************************************************************************)
(* What the ingestion path promises to a search, and nothing of how.       *)
(*                                                                         *)
(* A document either has one committed version or none.  A search over the *)
(* document sees a subset of the chunks of the committed version: chunks   *)
(* appear and disappear in any order while that version is published or    *)
(* hidden, but a version replaces another, or is withdrawn, only while     *)
(* nothing of the document is shown.  So no search ever sees chunks of two *)
(* versions together, of a version that failed, or of a deleted document.  *)
(***************************************************************************)
CONSTANTS Doc,       \* document ids
          Part,      \* chunk positions within a document
          Version,   \* what identifies a version: its content and its number
          Nothing    \* no committed version; not an element of Version

VARIABLES committed,  \* per document, the version its record commits to
          shown       \* per document, the <<part, version>> a search can return

gateVars == <<committed, shown>>

GateTypeOK ==
    /\ committed \in [Doc -> Version \cup {Nothing}]
    /\ shown \in [Doc -> SUBSET (Part \X Version)]

GateInit ==
    /\ committed = [d \in Doc |-> Nothing]
    /\ shown = [d \in Doc |-> {}]

(* Some shown chunks of the document stop being searchable. *)
Hide(d) ==
    /\ \E S \in SUBSET shown[d] : shown' = [shown EXCEPT ![d] = S]
    /\ UNCHANGED committed

(* Some chunks of the committed version become searchable. *)
Reveal(d) ==
    /\ committed[d] # Nothing
    /\ \E S \in SUBSET Part :
          shown' = [shown EXCEPT ![d] = @ \cup (S \X {committed[d]})]
    /\ UNCHANGED committed

(* Another version takes over; nothing of the document is searchable. *)
Commit(d) ==
    /\ shown[d] = {}
    /\ committed'[d] \in Version
    /\ committed' = [committed EXCEPT ![d] = committed'[d]]
    /\ UNCHANGED shown

(* The document has no version any more; nothing of it is searchable. *)
Withdraw(d) ==
    /\ shown[d] = {}
    /\ committed' = [committed EXCEPT ![d] = Nothing]
    /\ UNCHANGED shown

GateNext ==
    \E d \in Doc :
        \/ Hide(d)
        \/ Reveal(d)
        \/ Commit(d)
        \/ Withdraw(d)

GateSpec == GateInit /\ [][GateNext]_gateVars

(* A search sees only the committed version. *)
OnlyCommittedShown ==
    \A d \in Doc : \A s \in shown[d] : s[2] = committed[d]
=============================================================================
