--------------------------- MODULE IngestLifecycle ---------------------------
(***************************************************************************)
(* The document lifecycle of the RAG service: IngestionService             *)
(* (create_document, update_document, delete_document) driving             *)
(* IngestionPipeline (process_create, process_update) over two stores that *)
(* share no transaction: the document records (SqliteDocumentStore) and    *)
(* the chunk objects (WeaviateChunkStore).  A search returns a chunk iff   *)
(* the chunk's own denormalised document_status is "indexed"; the record   *)
(* is never consulted.                                                     *)
(*                                                                         *)
(* One action is one call on a store.  Between two calls other workers,    *)
(* searches, a failing call or a crash of the process may come.            *)
(*                                                                         *)
(* Abstracted: authorization and throttling (an operation starts past      *)
(* them), one (company, department) scope, the text (a Content), splitting *)
(* and embedding (one step that may fail), every document cut into the     *)
(* same set of Parts.  Chunk ids are fresh uuids in the code: here a pair  *)
(* of the operation that built the chunk and the chunk's position.         *)
(***************************************************************************)
EXTENDS Naturals, FiniteSets

CONSTANTS
    Doc,         \* document ids
    Content,     \* normalised contents; equal contents have equal hashes
    None,        \* no document, no content
    Part,        \* chunk_index values of a document
    Worker,      \* threads that run service operations
    MaxOps,      \* bound: operations started in a behaviour
    Kinds,       \* operations that callers issue
    Faults,      \* store calls that may raise
    Serialized,  \* TRUE: callers never run two operations on one document
    Crashes      \* TRUE: the process may die and restart with its stores

Operations == {"create", "update", "delete"}

FaultPoints == {"build", "insert", "compensate", "stale", "count",
                "status", "record", "delete", "tenants"}

ASSUME LifecycleAssumption ==
    /\ None \notin Doc /\ None \notin Content
    /\ MaxOps \in Nat
    /\ IsFiniteSet(Part)
    /\ Kinds \subseteq Operations
    /\ Faults \subseteq FaultPoints
    /\ Serialized \in BOOLEAN
    /\ Crashes \in BOOLEAN

VARIABLES
    rec,      \* the documents table: per id, its row
    held,     \* chunk objects in the vector store
    visible,  \* those whose document_status property is "indexed"
    known,    \* documents whose tenant the chunk store remembers
    batch,    \* per operation, what it stamps on the chunks it builds
    pc,       \* per worker, the call it makes next
    job,      \* per worker, the locals of the operation it runs
    issued    \* operations started so far

vars == <<rec, held, visible, known, batch, pc, job, issued>>
stores == <<rec, held, visible, known>>

OpId == 1..MaxOps
ChunkId == OpId \X Part

(* DocumentStatus; "absent" stands for a row that does not exist. *)
Status == {"absent", "processing", "indexed", "failed", "deleted"}

Record == [status : Status, version : Nat, hash : Content \cup {None},
           count : Nat]

NoRecord == [status |-> "absent", version |-> 0, hash |-> None, count |-> 0]

Stamp == [doc : Doc \cup {None}, content : Content \cup {None}, version : Nat]

Steps == {"idle", "lookup", "check", "insert", "read", "unpublish", "hide",
          "begin", "build", "write", "undo", "drop", "count", "recall",
          "commit", "restore", "publish", "reveal", "fail", "scrub",
          "purge", "tomb"}

NoStamp == [doc |-> None, content |-> None, version |-> 0]

Job == [kind : Operations, doc : Doc \cup {None}, content : Content \cup {None},
        op : 0..MaxOps, ver : Nat, prior : Record, ids : SUBSET ChunkId,
        todo : SUBSET Part]

NewJob(kind, d, c, o) ==
    [kind |-> kind, doc |-> d, content |-> c, op |-> o, ver |-> 1,
     prior |-> NoRecord, ids |-> {}, todo |-> {}]

IdleJob == NewJob("create", None, None, 0)

(* The chunk objects of a document, whatever their status. *)
ChunksOf(d) == {i \in held : batch[i[1]].doc = d}

(* The chunks of a document that a search may return. *)
Searchable(d) == {i \in visible : batch[i[1]].doc = d}

Active(w) == pc[w] # "idle"

(* Mutant of DeleteObjects: the search index still returns what is deleted. *)
DeleteObjectsOnly(S) ==
    /\ held' = held \ S
    /\ UNCHANGED visible

(* delete_by_document_id and _delete_by_ids: the objects are gone. *)
DeleteObjects(S) ==
    /\ held' = held \ S
    /\ visible' = visible \ S

SetRecord(d, r) == rec' = [rec EXCEPT ![d] = r]

(* The worker makes call `step` next, with locals j; at the end of the      *)
(* operation the locals are gone.                                          *)
GoWith(w, step, j) ==
    /\ pc' = [pc EXCEPT ![w] = step]
    /\ job' = [job EXCEPT ![w] = IF step = "idle" THEN IdleJob ELSE j]

Goto(w, step) == GoWith(w, step, job[w])

(* Mutant of Abort: process_update has no except clause. *)
AbortCreateOnly(w) == Goto(w, IF job[w].kind = "create" THEN "fail" ELSE "idle")

(* Where the except clause of process_create or process_update takes over. *)
Abort(w) == Goto(w, IF job[w].kind = "create" THEN "fail" ELSE "restore")

(* A call that raises may have removed any of the objects it addressed. *)
DeleteSome(S) == \E gone \in SUBSET S : DeleteObjects(gone)

MayRaise(point) == point \in Faults

-----------------------------------------------------------------------------
(* Start of an operation.                                                  *)

(* A caller enters the service; nothing in the code orders two callers. *)
Enter(w, kind, d, c, step) ==
    /\ kind \in Kinds
    /\ pc[w] = "idle"
    /\ issued < MaxOps
    /\ Serialized => \A u \in Worker : Active(u) => job[u].doc # d
    /\ issued' = issued + 1
    /\ GoWith(w, step, NewJob(kind, d, c, issued + 1))
    /\ UNCHANGED <<stores, batch>>

CreateDocument(w, d, c) == Enter(w, "create", d, c, "lookup")
UpdateDocument(w, d, c) == Enter(w, "update", d, c, "read")
DeleteDocument(w, d) == Enter(w, "delete", d, None, "read")

-----------------------------------------------------------------------------
(* create: _create, then create_processing.                                *)

(* An INDEXED document with this content ends the create, as the existing  *)
(* document when deduplicate is set and with an error when it is not.      *)
Lookup(w) ==
    /\ pc[w] = "lookup"
    /\ IF \E d \in Doc : rec[d].status = "indexed" /\ rec[d].hash = job[w].content
       THEN Goto(w, "idle")
       ELSE Goto(w, "check")
    /\ UNCHANGED <<stores, batch, issued>>

(* create_processing reads the row and refuses an id in use ... *)
CheckFree(w) ==
    /\ pc[w] = "check"
    /\ IF rec[job[w].doc].status \in {"absent", "deleted"}
       THEN Goto(w, "insert")
       ELSE Goto(w, "idle")
    /\ UNCHANGED <<stores, batch, issued>>

(* ... and then inserts or replaces it in a transaction of its own. *)
InsertRecord(w) ==
    /\ pc[w] = "insert"
    /\ SetRecord(job[w].doc, [status |-> "processing", version |-> 1,
                              hash |-> job[w].content, count |-> 0])
    /\ Goto(w, "build")
    /\ UNCHANGED <<held, visible, known, batch, issued>>

-----------------------------------------------------------------------------
(* update and delete read the record; update hides what is published.      *)

(* Mutant of ReadRecord: the update does not hide what is published. *)
ReadWithoutHiding(w) ==
    /\ pc[w] = "read"
    /\ LET r == rec[job[w].doc]
           j == [job[w] EXCEPT !.prior = r, !.ver = r.version + 1]
       IN IF r.status \in {"absent", "deleted"}
          THEN Goto(w, "idle")
          ELSE GoWith(w, IF job[w].kind = "update" THEN "begin" ELSE "purge", j)
    /\ UNCHANGED <<stores, batch, issued>>

(* Mutant of ReadRecord: a deleted document can be updated. *)
ReadDeletedToo(w) ==
    /\ pc[w] = "read"
    /\ LET r == rec[job[w].doc]
           j == [job[w] EXCEPT !.prior = r, !.ver = r.version + 1]
       IN IF r.status = "absent"
          THEN Goto(w, "idle")
          ELSE GoWith(w, IF job[w].kind = "update" THEN "unpublish" ELSE "purge", j)
    /\ UNCHANGED <<stores, batch, issued>>

(* The SQLite row is a copy: process_update keeps its fields as the prior. *)
ReadRecord(w) ==
    /\ pc[w] = "read"
    /\ LET r == rec[job[w].doc]
           j == [job[w] EXCEPT !.prior = r, !.ver = r.version + 1]
       IN IF r.status \in {"absent", "deleted"}
          THEN Goto(w, "idle")
          ELSE GoWith(w, IF job[w].kind = "update" THEN "unpublish" ELSE "purge", j)
    /\ UNCHANGED <<stores, batch, issued>>

(* set_document_status lists the ids of the document's objects ... *)
FetchIds(w) ==
    /\ pc[w] \in {"unpublish", "publish"}
    /\ LET found == ChunksOf(job[w].doc)
           step == IF pc[w] = "unpublish"
                   THEN IF found = {} THEN "begin" ELSE "hide"
                   ELSE IF found = {} THEN "idle" ELSE "reveal"
       IN GoWith(w, step, [job[w] EXCEPT !.ids = found])
    /\ UNCHANGED <<stores, batch, issued>>

(* ... and updates them one by one; an object deleted meanwhile makes the  *)
(* update raise, which ends the operation.                                 *)
UpdateOne(w, i, next) ==
    GoWith(w, IF i \notin held THEN "idle"
              ELSE IF job[w].ids = {i} THEN next ELSE pc[w],
           [job[w] EXCEPT !.ids = @ \ {i}])

HideOne(w) ==
    /\ pc[w] = "hide"
    /\ \E i \in job[w].ids : visible' = visible \ {i} /\ UpdateOne(w, i, "begin")
    /\ UNCHANGED <<rec, held, known, batch, issued>>

RevealOne(w) ==
    /\ pc[w] = "reveal"
    /\ \E i \in job[w].ids :
          visible' = visible \cup ({i} \cap held) /\ UpdateOne(w, i, "idle")
    /\ UNCHANGED <<rec, held, known, batch, issued>>

BeginReindex(w) ==
    /\ pc[w] = "begin"
    /\ SetRecord(job[w].doc, [rec[job[w].doc] EXCEPT !.status = "processing",
                                                     !.hash = job[w].content])
    /\ Goto(w, "build")
    /\ UNCHANGED <<held, visible, known, batch, issued>>

-----------------------------------------------------------------------------
(* _build_and_persist and replace_document_chunks.                         *)

(* Split, stamp and embed; then list the ids the new chunks will replace.  *)
Build(w) ==
    /\ pc[w] = "build"
    /\ batch' = [batch EXCEPT ![job[w].op] =
                    [doc |-> job[w].doc, content |-> job[w].content,
                     version |-> job[w].ver]]
    /\ GoWith(w, "write", [job[w] EXCEPT !.ids = ChunksOf(job[w].doc), !.todo = Part])
    /\ UNCHANGED <<stores, issued>>

BuildFails(w) ==
    /\ MayRaise("build")
    /\ pc[w] = "build"
    /\ Abort(w)
    /\ UNCHANGED <<stores, batch, issued>>

(* insert_many, one request per slice of batch_size chunks. *)
InsertSlice(w) ==
    /\ pc[w] = "write"
    /\ \E S \in (SUBSET job[w].todo) \ {{}} :
          /\ held' = held \cup ({job[w].op} \X S)
          /\ GoWith(w, IF job[w].todo = S THEN "drop" ELSE "write",
                    [job[w] EXCEPT !.todo = @ \ S])
    /\ UNCHANGED <<rec, visible, known, batch, issued>>

(* A request that reports errors may have stored some of its objects. *)
InsertFails(w) ==
    /\ MayRaise("insert")
    /\ pc[w] = "write"
    /\ \E S \in SUBSET job[w].todo : held' = held \cup ({job[w].op} \X S)
    /\ Goto(w, "undo")
    /\ UNCHANGED <<rec, visible, known, batch, issued>>

(* _compensate removes what the attempt stored, then the error is raised. *)
Compensate(w) ==
    /\ pc[w] = "undo"
    /\ DeleteObjects({job[w].op} \X Part)
    /\ Abort(w)
    /\ UNCHANGED <<rec, known, batch, issued>>

(* _compensate swallows its own failure. *)
CompensateFails(w) ==
    /\ MayRaise("compensate")
    /\ pc[w] = "undo"
    /\ DeleteSome({job[w].op} \X Part)
    /\ Abort(w)
    /\ UNCHANGED <<rec, known, batch, issued>>

(* Mutant of DropStale: the superseded objects stay. *)
DropNothing(w) ==
    /\ pc[w] = "drop"
    /\ known' = known \cup {job[w].doc}
    /\ Goto(w, "count")
    /\ UNCHANGED <<rec, held, visible, batch, issued>>

(* The superseded objects go, outside the try of the insert; no call is     *)
(* made when there are none.                                               *)
DropStale(w) ==
    /\ pc[w] = "drop"
    /\ DeleteObjects(job[w].ids)
    /\ known' = known \cup {job[w].doc}
    /\ Goto(w, "count")
    /\ UNCHANGED <<rec, batch, issued>>

DropStaleFails(w) ==
    /\ MayRaise("stale")
    /\ pc[w] = "drop"
    /\ job[w].ids # {}
    /\ DeleteSome(job[w].ids)
    /\ Abort(w)
    /\ UNCHANGED <<rec, known, batch, issued>>

CountChunks(w) ==
    /\ pc[w] = "count"
    /\ IF Cardinality(ChunksOf(job[w].doc)) # Cardinality(Part) THEN Abort(w)
       ELSE Goto(w, IF job[w].kind = "create" THEN "recall" ELSE "commit")
    /\ UNCHANGED <<stores, batch, issued>>

CountFails(w) ==
    /\ MayRaise("count")
    /\ pc[w] = "count"
    /\ Abort(w)
    /\ UNCHANGED <<stores, batch, issued>>

-----------------------------------------------------------------------------
(* The outcome.                                                            *)

(* mark_indexed without a version writes back the version it just read. *)
RecallVersion(w) ==
    /\ pc[w] = "recall"
    /\ GoWith(w, "commit", [job[w] EXCEPT !.ver = rec[job[w].doc].version])
    /\ UNCHANGED <<stores, batch, issued>>

(* Mutant of MarkIndexed: an update commits without its new version. *)
MarkIndexedOldVersion(w) ==
    /\ pc[w] = "commit"
    /\ SetRecord(job[w].doc, [status |-> "indexed", version |-> rec[job[w].doc].version,
                              hash |-> job[w].content, count |-> Cardinality(Part)])
    /\ Goto(w, "publish")
    /\ UNCHANGED <<held, visible, known, batch, issued>>

(* mark_indexed: the outcome is committed, but not searchable yet. *)
MarkIndexed(w) ==
    /\ pc[w] = "commit"
    /\ SetRecord(job[w].doc, [status |-> "indexed", version |-> job[w].ver,
                              hash |-> job[w].content, count |-> Cardinality(Part)])
    /\ Goto(w, "publish")
    /\ UNCHANGED <<held, visible, known, batch, issued>>

(* Mutant of RestorePrior: the prior content is not made visible again. *)
RestoreHidden(w) ==
    /\ pc[w] = "restore"
    /\ SetRecord(job[w].doc, [job[w].prior EXCEPT !.status = "indexed"])
    /\ Goto(w, "idle")
    /\ UNCHANGED <<held, visible, known, batch, issued>>

(* process_update's except clause: INDEXED, with the fields of the prior. *)
RestorePrior(w) ==
    /\ pc[w] = "restore"
    /\ SetRecord(job[w].doc, [job[w].prior EXCEPT !.status = "indexed"])
    /\ Goto(w, "publish")
    /\ UNCHANGED <<held, visible, known, batch, issued>>

(* process_create's except clause: the record first, then the chunks. *)
MarkFailed(w) ==
    /\ pc[w] = "fail"
    /\ SetRecord(job[w].doc, [rec[job[w].doc] EXCEPT !.status = "failed", !.count = 0])
    /\ Goto(w, "scrub")
    /\ UNCHANGED <<held, visible, known, batch, issued>>

(* delete_by_document_id: after a failed create, or first in a delete. *)
DeleteChunks(w) ==
    /\ pc[w] \in {"scrub", "purge"}
    /\ DeleteObjects(ChunksOf(job[w].doc))
    /\ known' = known \ {job[w].doc}
    /\ Goto(w, IF pc[w] = "purge" THEN "tomb" ELSE "idle")
    /\ UNCHANGED <<rec, batch, issued>>

MarkDeleted(w) ==
    /\ pc[w] = "tomb"
    /\ SetRecord(job[w].doc, [rec[job[w].doc] EXCEPT !.status = "deleted", !.count = 0])
    /\ Goto(w, "idle")
    /\ UNCHANGED <<held, visible, known, batch, issued>>

-----------------------------------------------------------------------------
(* Calls outside any try: the error reaches the caller, the rest is lost.  *)

StatusCallFails(w) ==
    /\ MayRaise("status")
    /\ pc[w] \in {"unpublish", "hide", "publish", "reveal"}
    /\ Goto(w, "idle")
    /\ UNCHANGED <<stores, batch, issued>>

RecordCallFails(w) ==
    /\ MayRaise("record")
    /\ pc[w] \in {"insert", "begin", "commit", "restore", "fail", "tomb"}
    /\ Goto(w, "idle")
    /\ UNCHANGED <<stores, batch, issued>>

DeleteCallFails(w) ==
    /\ MayRaise("delete")
    /\ pc[w] \in {"scrub", "purge"}
    /\ DeleteSome(ChunksOf(job[w].doc))
    /\ Goto(w, "idle")
    /\ UNCHANGED <<rec, known, batch, issued>>

(* _candidate_tenants swallows a failing tenant listing: a call on a        *)
(* document whose tenant is not remembered then finds nothing to do, and   *)
(* returns as if it had succeeded.                                         *)
StatusCallBlind(w) ==
    /\ MayRaise("tenants")
    /\ pc[w] \in {"unpublish", "publish"}
    /\ job[w].doc \notin known
    /\ Goto(w, IF pc[w] = "unpublish" THEN "begin" ELSE "idle")
    /\ UNCHANGED <<stores, batch, issued>>

DeleteCallBlind(w) ==
    /\ MayRaise("tenants")
    /\ pc[w] \in {"scrub", "purge"}
    /\ job[w].doc \notin known
    /\ Goto(w, IF pc[w] = "purge" THEN "tomb" ELSE "idle")
    /\ UNCHANGED <<stores, batch, issued>>

(* The process dies: every operation in flight is gone and so is what the  *)
(* chunk store remembered; the stores themselves stay.                     *)
Crash ==
    /\ Crashes
    /\ \E w \in Worker : Active(w)
    /\ pc' = [w \in Worker |-> "idle"]
    /\ job' = [w \in Worker |-> IdleJob]
    /\ known' = {}
    /\ UNCHANGED <<rec, held, visible, batch, issued>>

-----------------------------------------------------------------------------
Init ==
    /\ rec = [d \in Doc |-> NoRecord]
    /\ held = {}
    /\ visible = {}
    /\ known = {}
    /\ batch = [o \in OpId |-> NoStamp]
    /\ pc = [w \in Worker |-> "idle"]
    /\ job = [w \in Worker |-> IdleJob]
    /\ issued = 0

Call(w) ==
    \E d \in Doc :
        \/ \E c \in Content : CreateDocument(w, d, c) \/ UpdateDocument(w, d, c)
        \/ DeleteDocument(w, d)

(* The next call of the operation a worker runs, or that call failing. *)
Work(w) ==
    \/ Lookup(w) \/ CheckFree(w) \/ InsertRecord(w)
    \/ ReadRecord(w) \/ FetchIds(w) \/ HideOne(w) \/ RevealOne(w) \/ BeginReindex(w)
    \/ Build(w) \/ InsertSlice(w) \/ Compensate(w) \/ DropStale(w) \/ CountChunks(w)
    \/ RecallVersion(w) \/ MarkIndexed(w) \/ RestorePrior(w) \/ MarkFailed(w)
    \/ DeleteChunks(w) \/ MarkDeleted(w)
    \/ BuildFails(w) \/ InsertFails(w) \/ CompensateFails(w) \/ DropStaleFails(w)
    \/ CountFails(w) \/ StatusCallFails(w) \/ RecordCallFails(w) \/ DeleteCallFails(w)
    \/ StatusCallBlind(w) \/ DeleteCallBlind(w)

(* The bound on operations is reached and all of them are over: no caller  *)
(* comes any more.  Any other state without a step would be a stuck worker.*)
CallersDone ==
    /\ issued = MaxOps
    /\ \A w \in Worker : pc[w] = "idle"
    /\ UNCHANGED vars

Next == (\E w \in Worker : Call(w) \/ Work(w)) \/ Crash \/ CallersDone

Spec == Init /\ [][Next]_vars

(* A thread that runs an operation keeps running: the executor and the     *)
(* event loop never park one for good, and every call returns or raises.   *)
Fairness == \A w \in Worker : WF_vars(Work(w))

FairSpec == Spec /\ Fairness

-----------------------------------------------------------------------------
(* Properties.                                                             *)

TypeOK ==
    /\ rec \in [Doc -> Record]
    /\ held \subseteq ChunkId
    /\ visible \subseteq held
    /\ known \subseteq Doc
    /\ batch \in [OpId -> Stamp]
    /\ pc \in [Worker -> Steps]
    /\ job \in [Worker -> Job]
    /\ issued \in 0..MaxOps

(* A chunk is searchable only while its document's record says INDEXED:    *)
(* never during a create or a reindex, nor after a failure or a delete     *)
(* (DocumentDrift.is_over_exposed, the gate of WeaviateChunkStore).        *)
GateClosed == \A d \in Doc : rec[d].status # "indexed" => Searchable(d) = {}

(* Only create_processing takes a document out of DELETED. *)
TombstoneFinal ==
    [][\A d \in Doc : rec[d].status = "deleted" /\ rec'[d] # rec[d] =>
          \E w \in Worker : pc[w] = "insert" /\ job[w].doc = d]_vars

(* Once no operation runs on a document, its chunks are what its record    *)
(* says: all of an INDEXED document's, each of the recorded content and    *)
(* version and each searchable; no chunk at all of any other document.     *)
AtRest(d) == \A w \in Worker : job[w].doc # d

RestComplete ==
    \A d \in Doc : AtRest(d) =>
        /\ rec[d].status # "processing"
        /\ ChunksOf(d) = Searchable(d)
        /\ Cardinality(ChunksOf(d)) = IF rec[d].status = "indexed" THEN rec[d].count ELSE 0
        /\ \A i \in ChunksOf(d) : /\ batch[i[1]].content = rec[d].hash
                                  /\ batch[i[1]].version = rec[d].version

(* What an update failed to store is never served: the content a search    *)
(* returns of a document is the content its record names (_compensate:     *)
(* "orphaned vectors are unreachable").                                    *)
ServesRecordedContent ==
    \A d \in Doc : \A i \in Searchable(d) : batch[i[1]].content = rec[d].hash

(* A reindex or a create does not leave its document PROCESSING for ever,  *)
(* and what becomes INDEXED becomes searchable in full or is replaced.     *)
Processed == \A d \in Doc : (rec[d].status = "processing") ~> (rec[d].status # "processing")

Published ==
    \A d \in Doc : (rec[d].status = "indexed")
        ~> \/ rec[d].status # "indexed"
           \/ Cardinality(Searchable(d)) = rec[d].count

(* The lifecycle implements the promise of SearchGate. *)
Gate == INSTANCE SearchGate WITH
    Version <- Content \X Nat,
    Nothing <- <<None, 0>>,
    committed <- [d \in Doc |-> IF rec[d].status = "indexed"
                                THEN <<rec[d].hash, rec[d].version>> ELSE <<None, 0>>],
    shown <- [d \in Doc |-> {<<i[2], <<batch[i[1]].content, batch[i[1]].version>>>> :
                             i \in Searchable(d)}]

ImplementsGate == Gate!GateSpec
=============================================================================
