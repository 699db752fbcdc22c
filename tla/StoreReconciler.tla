---------------------------- MODULE StoreReconciler ----------------------------
(***************************************************************************)
(* StoreReconciler beside a running IngestLifecycle: check reports where   *)
(* the chunks' denormalised status disagrees with the records, repair sets *)
(* the status of what was reported, purge_orphans deletes the chunks of    *)
(* ids that have no record.  All three act on a list read earlier, one     *)
(* store call at a time, while operations and crashes go on.               *)
(***************************************************************************)
EXTENDS IngestLifecycle

CONSTANTS
    Exclusive,  \* TRUE: no operation runs on a document while it is put right
    MaxSweeps   \* bound: checks started

(* An earlier life may have used up an operation id (see Legacy). *)
ASSUME SweepAssumption == Exclusive \in BOOLEAN /\ MaxSweeps \in Nat /\ MaxOps > 0

VARIABLES
    sweep,      \* what the operator's call does next, and its locals
    calm        \* history: nothing but the operator acted since the check began

allVars == <<vars, sweep, calm>>

SweepSteps == {"idle", "inspect", "report", "repair", "list", "set", "repaired",
               "purge", "delete"}

NoSweep == [pc |-> "idle", listed |-> [d \in Doc |-> "absent"], todo |-> {},
            drifted |-> {}, orphans |-> {}, doc |-> None, want |-> FALSE,
            ids |-> {}, count |-> 0]

Now(step) == [sweep EXCEPT !.pc = step]

Over == [NoSweep EXCEPT !.count = sweep.count]

-----------------------------------------------------------------------------
(* check.                                                                  *)

(* list_all copies the rows; a backend scan supplies the ids with chunks. *)
BeginCheck ==
    /\ sweep.pc = "idle"
    /\ sweep.count < MaxSweeps
    /\ LET known_ids == {d \in Doc : rec[d].status # "absent"}
       IN sweep' = [NoSweep EXCEPT
              !.pc = "inspect",
              !.listed = [d \in Doc |-> rec[d].status],
              !.todo = known_ids,
              !.orphans = {d \in Doc : ChunksOf(d) # {}} \ known_ids,
              !.count = sweep.count + 1]
    /\ calm' = \A w \in Worker : ~Active(w)
    /\ UNCHANGED vars

(* Searchable chunks of a document that is not INDEXED, hidden chunks of    *)
(* one that is, or some of each.                                           *)
Drifts(d) ==
    /\ ChunksOf(d) # {}
    /\ Searchable(d) # IF sweep.listed[d] = "indexed" THEN ChunksOf(d) ELSE {}

Reported(d, found) ==
    LET left == sweep.todo \ {d}
    IN sweep' = [sweep EXCEPT !.todo = left,
                              !.drifted = IF found THEN @ \cup {d} ELSE @]

(* Mutant of Inspect: a document that is searchable in part is no drift. *)
InspectWhole(d) ==
    /\ sweep.pc = "inspect" /\ d \in sweep.todo
    /\ Reported(d, Drifts(d) /\ Searchable(d) \in {{}, ChunksOf(d)})
    /\ UNCHANGED <<vars, calm>>

Inspect(d) ==
    /\ sweep.pc = "inspect" /\ d \in sweep.todo
    /\ Reported(d, Drifts(d))
    /\ UNCHANGED <<vars, calm>>

(* With an unknown tenant and a failing tenant listing there are no chunks. *)
InspectBlind(d) ==
    /\ MayRaise("tenants")
    /\ sweep.pc = "inspect" /\ d \in sweep.todo \ known
    /\ Reported(d, FALSE)
    /\ calm' = FALSE
    /\ UNCHANGED vars

Report ==
    /\ sweep.pc = "inspect" /\ sweep.todo = {}
    /\ \E step \in {"repair", "purge", "idle"} :
          sweep' = IF step = "idle" THEN Over ELSE Now(step)
    /\ UNCHANGED <<vars, calm>>

-----------------------------------------------------------------------------
(* repair.                                                                 *)

May(d) == Exclusive => AtRest(d)

(* Mutant of NextDrift: the status the report was made from. *)
NextDriftAsReported(d) ==
    /\ sweep.pc = "repair" /\ d \in sweep.drifted /\ May(d)
    /\ sweep' = [sweep EXCEPT !.drifted = @ \ {d}, !.pc = "list", !.doc = d,
                              !.want = sweep.listed[d] = "indexed"]
    /\ UNCHANGED <<vars, calm>>

(* The record is read again: it, not the report, says what is wanted. *)
NextDrift(d) ==
    /\ sweep.pc = "repair" /\ d \in sweep.drifted /\ May(d)
    /\ sweep' = IF rec[d].status = "absent"
                THEN [sweep EXCEPT !.drifted = @ \ {d}]
                ELSE [sweep EXCEPT !.drifted = @ \ {d}, !.pc = "list", !.doc = d,
                                   !.want = rec[d].status = "indexed"]
    /\ UNCHANGED <<vars, calm>>

(* Mutant of Settle: the call holds on to the document it is done with. *)
SettleHolding(ids) ==
    [sweep EXCEPT !.ids = ids, !.pc = IF ids = {} THEN "repair" ELSE "set"]

(* The objects of the document that still have to be set. *)
Settle(ids) ==
    [sweep EXCEPT !.ids = ids, !.pc = IF ids = {} THEN "repair" ELSE "set",
                  !.doc = IF ids = {} THEN None ELSE @]

ListObjects ==
    /\ sweep.pc = "list"
    /\ sweep' = Settle(ChunksOf(sweep.doc))
    /\ UNCHANGED <<vars, calm>>

ListBlind ==
    /\ MayRaise("tenants")
    /\ sweep.pc = "list" /\ sweep.doc \notin known
    /\ sweep' = Settle({})
    /\ calm' = FALSE
    /\ UNCHANGED vars

(* An object deleted meanwhile makes its update, and with it repair, raise. *)
SetOne ==
    /\ sweep.pc = "set"
    /\ \E i \in sweep.ids :
          /\ visible' = IF sweep.want THEN visible \cup ({i} \cap held) ELSE visible \ {i}
          /\ sweep' = IF i \in held THEN Settle(sweep.ids \ {i}) ELSE Over
    /\ UNCHANGED <<rec, held, known, batch, pc, job, issued, calm>>

SetFails ==
    /\ MayRaise("status")
    /\ sweep.pc \in {"list", "set"}
    /\ sweep' = Over
    /\ UNCHANGED <<vars, calm>>

Repaired ==
    /\ sweep.pc = "repair" /\ sweep.drifted = {}
    /\ sweep' = Now("repaired")
    /\ UNCHANGED <<vars, calm>>

-----------------------------------------------------------------------------
(* purge_orphans.                                                          *)

(* Mutant of NextOrphan: what the report calls an orphan is one. *)
NextOrphanAsReported(d) ==
    /\ sweep.pc = "purge" /\ d \in sweep.orphans /\ May(d)
    /\ sweep' = [sweep EXCEPT !.orphans = @ \ {d}, !.pc = "delete", !.doc = d]
    /\ UNCHANGED <<vars, calm>>

NextOrphan(d) ==
    /\ sweep.pc = "purge" /\ d \in sweep.orphans /\ May(d)
    /\ sweep' = IF rec[d].status # "absent"
                THEN [sweep EXCEPT !.orphans = @ \ {d}]
                ELSE [sweep EXCEPT !.orphans = @ \ {d}, !.pc = "delete", !.doc = d]
    /\ UNCHANGED <<vars, calm>>

DeleteOrphan ==
    /\ sweep.pc = "delete"
    /\ DeleteObjects(ChunksOf(sweep.doc))
    /\ known' = known \ {sweep.doc}
    /\ sweep' = [sweep EXCEPT !.pc = "purge", !.doc = None]
    /\ UNCHANGED <<rec, batch, pc, job, issued, calm>>

DeleteOrphanFails ==
    /\ MayRaise("delete")
    /\ sweep.pc = "delete"
    /\ DeleteSome(ChunksOf(sweep.doc))
    /\ sweep' = Over
    /\ UNCHANGED <<rec, known, batch, pc, job, issued, calm>>

Finish ==
    /\ \/ sweep.pc = "repaired"
       \/ sweep.pc = "purge" /\ sweep.orphans = {}
    /\ sweep' = Over
    /\ UNCHANGED <<vars, calm>>

-----------------------------------------------------------------------------
(* The operations of the service go on beside it.                          *)

Serve ==
    /\ \E w \in Worker :
          \/ Work(w)
          \/ Call(w) /\ (Exclusive => job'[w].doc # sweep.doc)
    /\ calm' = FALSE
    /\ UNCHANGED sweep

(* The process dies with the operator's call, or with that alone. *)
Die ==
    /\ Crashes
    /\ \/ Crash
       \/ /\ sweep.pc # "idle" /\ \A w \in Worker : ~Active(w)
          /\ known' = {}
          /\ UNCHANGED <<rec, held, visible, batch, pc, job, issued>>
    /\ sweep' = Over
    /\ calm' = FALSE

AllOver ==
    /\ CallersDone
    /\ sweep.pc = "idle" /\ sweep.count = MaxSweeps
    /\ UNCHANGED <<sweep, calm>>

(* Chunks written before the records were durable may have been left by an *)
(* operation of an earlier life: its id is the first.                       *)
Legacy ==
    /\ rec = [d \in Doc |-> NoRecord]
    /\ \E d \in Doc, c \in Content :
          batch = [o \in OpId |-> IF o = 1 THEN [doc |-> d, content |-> c, version |-> 1]
                                  ELSE NoStamp]
    /\ held = {1} \X Part /\ visible = held
    /\ known = {}
    /\ pc = [w \in Worker |-> "idle"]
    /\ job = [w \in Worker |-> IdleJob]
    /\ issued = 1

SweepInit ==
    /\ Init \/ Legacy
    /\ sweep = NoSweep
    /\ calm = FALSE

Sweep ==
    \/ BeginCheck \/ Report
    \/ \E d \in Doc : Inspect(d) \/ InspectBlind(d) \/ NextDrift(d) \/ NextOrphan(d)
    \/ ListObjects \/ ListBlind \/ SetOne \/ SetFails \/ Repaired
    \/ DeleteOrphan \/ DeleteOrphanFails \/ Finish

SweepNext == Sweep \/ Serve \/ Die \/ AllOver

SweepSpec == SweepInit /\ [][SweepNext]_allVars

-----------------------------------------------------------------------------
(* Properties.                                                             *)

SweepTypeOK ==
    /\ sweep.pc \in SweepSteps
    /\ sweep.listed \in [Doc -> Status]
    /\ sweep.todo \cup sweep.drifted \cup sweep.orphans \subseteq Doc
    /\ sweep.todo \cap sweep.orphans = {} /\ sweep.todo \cap sweep.drifted = {}
    /\ sweep.doc \in Doc \cup {None}
    /\ sweep.ids \subseteq ChunkId
    /\ (sweep.doc # None) <=> sweep.pc \in {"list", "set", "delete"}
    /\ sweep.count \in 0..MaxSweeps
    /\ calm \in BOOLEAN

(* After a repair beside which nothing happened, the chunks of every        *)
(* document with a record are what the record says: all searchable when it *)
(* is INDEXED, none otherwise, whatever failure or crash had come before.   *)
Realigned ==
    sweep.pc = "repaired" /\ calm =>
        \A d \in Doc : rec[d].status # "absent" =>
            Searchable(d) = IF rec[d].status = "indexed" THEN ChunksOf(d) ELSE {}

(* However old its report, repair makes nothing searchable that the record *)
(* does not: provided no operation runs on the document meanwhile.         *)
NeverExposes ==
    [][SetOne => \A d \in Doc : rec[d].status # "indexed" =>
          {i \in visible' : batch[i[1]].doc = d} \subseteq Searchable(d)]_allVars

(* However old its report, purge_orphans takes no chunk from a document     *)
(* that has a record (same proviso): "Never delete chunks for a document   *)
(* that still exists".                                                     *)
SparesTheLiving ==
    [][sweep.pc = "delete" /\ sweep' # sweep /\ held' # held =>
          \A i \in held \ held' : rec[batch[i[1]].doc].status = "absent"]_allVars
================================================================================
