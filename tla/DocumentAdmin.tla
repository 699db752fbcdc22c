---------------------------- MODULE DocumentAdmin ----------------------------
(***************************************************************************)
(* The gateway's document administration: DocumentService and its worker   *)
(* pool over RAGService.  Three places know about a document: its row in   *)
(* PostgreSQL, which survives a restart; its record in the RAG process     *)
(* (the gateway always runs InMemoryDocumentStore), which does not; and    *)
(* its chunks, which survive only with the Weaviate backend.  Uploads      *)
(* queue a task for the pool, deletes run in a request thread, and at      *)
(* start-up a daemon thread re-hydrates the rows that have a text.         *)
(*                                                                         *)
(* RAG operations are one action per call that changes what the three      *)
(* places hold; IngestLifecycle has the calls inside a chunk store.        *)
(* Abstracted: roles, names, page and chunk counts, one (organization,     *)
(* team); the ids of rows are fresh, so a deleted id never comes back.     *)
(***************************************************************************)
EXTENDS Naturals, Sequences, FiniteSets

CONSTANTS
    Doc,          \* document ids
    Payload,      \* per document, its content; equal contents hash equally
    Kind,         \* per document, "text" (typed in) or "file" (uploaded)
    None,         \* no document
    Thread,       \* threads of the ingestion pool
    Admin,        \* request threads that delete documents
    Rehydrator,   \* the start-up thread
    Durable,      \* chunk store backends: TRUE Weaviate, FALSE memory
    Faults,       \* calls that may raise
    Overlap,      \* TRUE: a document may be deleted while it is ingested
    MaxRestarts   \* bound: restarts of the process

FaultPoints == {"ingest", "store", "scrub", "publish", "count", "purge"}

ASSUME AdminAssumption ==
    /\ None \notin Doc
    /\ DOMAIN Payload = Doc
    /\ Kind \in [Doc -> {"text", "file"}]
    /\ Thread \cap Admin = {} /\ Rehydrator \notin Thread \cup Admin
    /\ Durable \subseteq BOOLEAN /\ Durable # {}
    /\ Faults \subseteq FaultPoints
    /\ Overlap \in BOOLEAN
    /\ MaxRestarts \in Nat

VARIABLES
    row,       \* sov_documents: per document, its row's status
    text,      \* documents whose row has an extracted text
    born,      \* per document, the run of the process that uploaded it; 0: none
    rec,       \* InMemoryDocumentStore: per document, its record's status
    vec,       \* the chunk store: per document, what it holds of it
    durable,   \* the backend of the chunk store
    queue,     \* tasks submitted to the pool
    pc, job,   \* per thread, its next call and its locals
    restarts,  \* restarts so far
    blamed,    \* history: documents a failure, a crash or a delete left unserved
    unpurged   \* history: documents whose chunks no call of their delete removed

vars == <<row, text, born, rec, vec, durable, queue, pc, job, restarts, blamed, unpurged>>

history == <<blamed, unpurged>>

Actor == Thread \cup Admin \cup {Rehydrator}

RowStatus == {"none", "processing", "indexed", "failed"}
RecStatus == {"absent", "processing", "indexed", "failed", "deleted"}
VecStatus == {"none", "hidden", "shown"}

Steps == {"idle", "start", "next",
          "ingest", "check", "insert", "store", "fail", "scrub",
          "mark", "publish", "finish", "read", "purge", "tomb", "drop"}

(* first: ingest_file, before the fallback; served: the ingest returned a   *)
(* chunk count; tomb: the record is marked after the chunks are gone;       *)
(* blind: the chunks could not be counted.                                  *)
Job == [doc : Doc \cup {None}, first : BOOLEAN, served : BOOLEAN,
        tomb : BOOLEAN, blind : BOOLEAN, todo : SUBSET Doc]

IdleJob == [doc |-> None, first |-> FALSE, served |-> FALSE, tomb |-> FALSE,
            blind |-> FALSE, todo |-> {}]

Equal(d) == {e \in Doc : Payload[e] = Payload[d]}

NewJob(d) == [IdleJob EXCEPT !.doc = d, !.first = TRUE]

MayRaise(point) == point \in Faults

GoWith(a, step, j) ==
    /\ pc' = [pc EXCEPT ![a] = step]
    /\ job' = [job EXCEPT ![a] = IF step = "idle" THEN IdleJob ELSE j]

Goto(a, step) == GoWith(a, step, job[a])

rag == <<rec, vec, durable>>
db == <<row, text, born>>

(* Mutant of Leave: the re-hydration holds on to the row it is done with. *)
LeaveHolding(a, served) ==
    IF a = Rehydrator THEN Goto(a, "next")
    ELSE GoWith(a, "finish", [job[a] EXCEPT !.served = served])

(* The ingest of a caller is over.  A worker whose ingest_file raised tries *)
(* ingest_document under the same id; then it writes the row.  The          *)
(* re-hydration goes on with its next row.                                  *)
Leave(a, served) ==
    IF a = Rehydrator
    THEN GoWith(a, "next", [job[a] EXCEPT !.doc = None, !.blind = FALSE])
    ELSE IF served \/ ~job[a].first
    THEN GoWith(a, "finish", [job[a] EXCEPT !.served = served])
    ELSE GoWith(a, "ingest", [job[a] EXCEPT !.first = FALSE])

(* What the re-hydration fails to ingest is logged and not tried again. *)
Returned(a, served) ==
    /\ Leave(a, served)
    /\ blamed' = IF a = Rehydrator /\ ~served THEN blamed \cup {job[a].doc} ELSE blamed

-----------------------------------------------------------------------------
(* Requests.                                                               *)

(* upload_document_sync and create_text_document_sync: the row is committed *)
(* as "processing" and the task submitted; a typed text is stored at once.  *)
Upload(d) ==
    /\ born[d] = 0
    /\ born' = [born EXCEPT ![d] = restarts + 1]
    /\ row' = [row EXCEPT ![d] = "processing"]
    /\ text' = IF Kind[d] = "text" THEN text \cup {d} ELSE text
    /\ queue' = Append(queue, d)
    /\ UNCHANGED <<rag, pc, job, restarts, history>>

(* Who may still write what the RAG service holds of a document. *)
Busy(d) ==
    \/ \E i \in DOMAIN queue : queue[i] = d
    \/ \E a \in Actor : job[a].doc = d \/ d \in job[a].todo
    \/ pc[Rehydrator] = "start"

(* delete_document: a request for a row that is not there returns. *)
BeginDelete(a, d) ==
    /\ a \in Admin /\ pc[a] = "idle"
    /\ row[d] # "none"
    /\ Overlap \/ ~Busy(d)
    /\ GoWith(a, "read", NewJob(d))
    /\ UNCHANGED <<db, rag, queue, restarts, history>>

(* Mutant of ReadRecord: an unknown document has no chunks to delete. *)
ReadRecordOnly(a) ==
    /\ pc[a] = "read"
    /\ IF rec[job[a].doc] \in {"absent", "deleted"} THEN Goto(a, "drop")
       ELSE GoWith(a, "purge", [job[a] EXCEPT !.tomb = TRUE])
    /\ UNCHANGED <<db, rag, queue, restarts, history>>

(* IngestionService.delete_document raises for a record it does not know;   *)
(* RAGService then deletes the chunks all the same.                         *)
ReadRecord(a) ==
    /\ pc[a] = "read"
    /\ GoWith(a, "purge",
              [job[a] EXCEPT !.tomb = rec[job[a].doc] \notin {"absent", "deleted"}])
    /\ UNCHANGED <<db, rag, queue, restarts, history>>

(* Equal documents that were answered with this one lose their content. *)
Purge(a) ==
    /\ pc[a] = "purge"
    /\ blamed' = blamed \cup {d \in Equal(job[a].doc) : vec[d] # "shown"}
    /\ vec' = [vec EXCEPT ![job[a].doc] = "none"]
    /\ unpurged' = unpurged \ {job[a].doc}
    /\ Goto(a, IF job[a].tomb THEN "tomb" ELSE "drop")
    /\ UNCHANGED <<db, rec, durable, queue, restarts>>

(* A failure is answered with one more deletion, and without the tombstone; *)
(* that deletion's failure is ignored.  RowTruth promises nothing for what  *)
(* follows.                                                                 *)
PurgeFails(a) ==
    /\ MayRaise("purge")
    /\ pc[a] = "purge"
    /\ blamed' = Doc
    /\ unpurged' = IF job[a].tomb \/ vec[job[a].doc] = "none" THEN unpurged
                   ELSE unpurged \cup {job[a].doc}
    /\ GoWith(a, IF job[a].tomb THEN "purge" ELSE "drop", [job[a] EXCEPT !.tomb = FALSE])
    /\ UNCHANGED <<db, rag, queue, restarts>>

Tombstone(a) ==
    /\ pc[a] = "tomb"
    /\ rec' = [rec EXCEPT ![job[a].doc] = "deleted"]
    /\ Goto(a, "drop")
    /\ UNCHANGED <<db, vec, durable, queue, restarts, history>>

DropRow(a) ==
    /\ pc[a] = "drop"
    /\ row' = [row EXCEPT ![job[a].doc] = "none"]
    /\ text' = text \ {job[a].doc}
    /\ Goto(a, "idle")
    /\ UNCHANGED <<born, rag, queue, restarts, history>>

-----------------------------------------------------------------------------
(* process_document_ingestion_task, in a thread of the pool.               *)

TakeTask(a) ==
    /\ a \in Thread /\ pc[a] = "idle"
    /\ queue # <<>>
    /\ queue' = Tail(queue)
    /\ GoWith(a, "ingest", NewJob(Head(queue)))
    /\ UNCHANGED <<db, rag, restarts, history>>

(* Mutant of WriteRow: a failed ingest leaves the row as it was. *)
WriteRowIfServed(a) ==
    /\ pc[a] = "finish"
    /\ IF row[job[a].doc] = "none" \/ ~job[a].served THEN UNCHANGED <<row, text>>
       ELSE /\ row' = [row EXCEPT ![job[a].doc] = "indexed"]
            /\ text' = text \cup {job[a].doc}
    /\ Goto(a, "idle")
    /\ UNCHANGED <<born, rag, queue, restarts, history>>

(* The outcome goes to the row, if there still is one. *)
WriteRow(a) ==
    /\ pc[a] = "finish"
    /\ IF row[job[a].doc] = "none" THEN UNCHANGED <<row, text>>
       ELSE /\ row' = [row EXCEPT ![job[a].doc] =
                          IF job[a].served THEN "indexed" ELSE "failed"]
            /\ text' = text \cup {job[a].doc}
    /\ Goto(a, "idle")
    /\ UNCHANGED <<born, rag, queue, restarts, history>>

-----------------------------------------------------------------------------
(* ensure_all_documents_indexed, in the start-up thread.                   *)

Snapshot ==
    /\ pc[Rehydrator] = "start"
    /\ GoWith(Rehydrator, "next", [IdleJob EXCEPT !.todo = text])
    /\ UNCHANGED <<db, rag, queue, restarts, history>>

RowsDone ==
    /\ pc[Rehydrator] = "next"
    /\ job[Rehydrator].todo = {}
    /\ Goto(Rehydrator, "idle")
    /\ UNCHANGED <<db, rag, queue, restarts, history>>

Take(d, step, blind) ==
    GoWith(Rehydrator, step,
           [job[Rehydrator] EXCEPT !.doc = IF step = "next" THEN None ELSE d,
                                   !.todo = @ \ {d}, !.blind = blind])

(* Mutant of NextRow: every row is ingested again. *)
NextRowAlways ==
    /\ pc[Rehydrator] = "next"
    /\ \E d \in job[Rehydrator].todo : Take(d, "ingest", FALSE)
    /\ UNCHANGED <<db, rag, queue, restarts, history>>

(* A document that has chunks, whatever their status, is left alone. *)
NextRow ==
    /\ pc[Rehydrator] = "next"
    /\ \E d \in job[Rehydrator].todo :
          Take(d, IF vec[d] # "none" THEN "next" ELSE "ingest", FALSE)
    /\ UNCHANGED <<db, rag, queue, restarts, history>>

(* A failing count is taken for no chunks. *)
CountFails ==
    /\ MayRaise("count")
    /\ pc[Rehydrator] = "next"
    /\ \E d \in job[Rehydrator].todo : Take(d, "ingest", TRUE)
    /\ UNCHANGED <<db, rag, queue, restarts, history>>

-----------------------------------------------------------------------------
(* ingest_file and ingest_document: IngestionService over InMemoryDocument- *)
(* Store, whose check and insert are two steps of an unlocked method.       *)

(* The tenant is registered, the caller throttled and authorized and the    *)
(* file extracted before anything is looked at: any of it may refuse.       *)
Reject(a) ==
    /\ MayRaise("ingest")
    /\ pc[a] = "ingest"
    /\ Returned(a, FALSE)
    /\ UNCHANGED <<db, rag, queue, restarts, unpurged>>

(* An indexed document of this content, be it the same, is the answer. *)
Lookup(a) ==
    /\ pc[a] = "ingest"
    /\ IF \E e \in Equal(job[a].doc) : rec[e] = "indexed"
       THEN Leave(a, TRUE)
       ELSE Goto(a, "check")
    /\ UNCHANGED <<db, rag, queue, restarts, history>>

Check(a) ==
    /\ pc[a] = "check"
    /\ IF rec[job[a].doc] \in {"absent", "deleted"}
       THEN Goto(a, "insert") /\ UNCHANGED blamed
       ELSE Returned(a, FALSE)
    /\ UNCHANGED <<db, rag, queue, restarts, unpurged>>

(* Two ingests of one id (the start-up thread and a worker) may both be past *)
(* the check; then the failure of one scrubs what the other stored.         *)
Insert(a) ==
    /\ pc[a] = "insert"
    /\ LET rivals == {b \in Actor \ {a} : job[b].doc = job[a].doc /\
                pc[b] \in {"insert", "store", "fail", "scrub", "mark", "publish"}}
       IN blamed' = blamed \cup UNION {Equal(job[b].doc) : b \in rivals}
    /\ rec' = [rec EXCEPT ![job[a].doc] = "processing"]
    /\ Goto(a, "store")
    /\ UNCHANGED <<db, vec, durable, queue, restarts, unpurged>>

(* The new chunks replace what was there and are not searchable yet. *)
Store(a) ==
    /\ pc[a] = "store"
    /\ vec' = [vec EXCEPT ![job[a].doc] = "hidden"]
    /\ Goto(a, "mark")
    /\ UNCHANGED <<db, rec, durable, queue, restarts, history>>

(* What a failed attempt leaves behind is not searchable either. *)
StoreFails(a) ==
    /\ MayRaise("store")
    /\ pc[a] = "store"
    /\ \E left \in {vec[job[a].doc], "hidden"} :
          /\ left = "hidden" => durable
          /\ vec[job[a].doc] # "none" => left = vec[job[a].doc]
          /\ vec' = [vec EXCEPT ![job[a].doc] = left]
    /\ Goto(a, "fail")
    /\ UNCHANGED <<db, rec, durable, queue, restarts, history>>

MarkFailed(a) ==
    /\ pc[a] = "fail"
    /\ rec' = [rec EXCEPT ![job[a].doc] = "failed"]
    /\ Goto(a, "scrub")
    /\ UNCHANGED <<db, vec, durable, queue, restarts, history>>

Scrub(a) ==
    /\ pc[a] = "scrub"
    /\ vec' = [vec EXCEPT ![job[a].doc] = "none"]
    /\ Returned(a, FALSE)
    /\ UNCHANGED <<db, rec, durable, queue, restarts, unpurged>>

ScrubFails(a) ==
    /\ MayRaise("scrub")
    /\ pc[a] = "scrub"
    /\ Returned(a, FALSE)
    /\ UNCHANGED <<db, rag, queue, restarts, unpurged>>

MarkIndexed(a) ==
    /\ pc[a] = "mark"
    /\ rec' = [rec EXCEPT ![job[a].doc] = "indexed"]
    /\ Goto(a, "publish")
    /\ UNCHANGED <<db, vec, durable, queue, restarts, history>>

Publish(a) ==
    /\ pc[a] = "publish"
    /\ vec' = [vec EXCEPT ![job[a].doc] = IF @ = "none" THEN "none" ELSE "shown"]
    /\ Returned(a, TRUE)
    /\ UNCHANGED <<db, rec, durable, queue, restarts, unpurged>>

(* The record says "indexed", so the retry of a worker is answered with it. *)
PublishFails(a) ==
    /\ MayRaise("publish")
    /\ pc[a] = "publish"
    /\ Leave(a, FALSE)
    /\ blamed' = Doc
    /\ UNCHANGED <<db, rag, queue, restarts, unpurged>>

-----------------------------------------------------------------------------
(* Mutant of Restart: nothing is re-hydrated. *)
RestartEmpty ==
    /\ restarts < MaxRestarts
    /\ restarts' = restarts + 1
    /\ queue' = <<>>
    /\ pc' = [a \in Actor |-> "idle"]
    /\ job' = [a \in Actor |-> IdleJob]
    /\ rec' = [d \in Doc |-> "absent"]
    /\ vec' = IF durable THEN vec ELSE [d \in Doc |-> "none"]
    /\ blamed' = blamed \cup {d \in Doc : \E e \in Equal(d) : vec'[e] = "hidden"}
    /\ unpurged' = {d \in unpurged : vec'[d] # "none"}
    /\ UNCHANGED <<db, durable>>

(* The process ends and starts again: threads, tasks and records are gone.  *)
(* Chunks that were waiting to be published stay hidden: the re-hydration   *)
(* counts them.                                                            *)
Restart ==
    /\ restarts < MaxRestarts
    /\ restarts' = restarts + 1
    /\ queue' = <<>>
    /\ pc' = [a \in Actor |-> IF a = Rehydrator THEN "start" ELSE "idle"]
    /\ job' = [a \in Actor |-> IdleJob]
    /\ rec' = [d \in Doc |-> "absent"]
    /\ vec' = IF durable THEN vec ELSE [d \in Doc |-> "none"]
    /\ blamed' = blamed \cup {d \in Doc : \E e \in Equal(d) : vec'[e] = "hidden"}
    /\ unpurged' = {d \in unpurged : vec'[d] # "none"}
    /\ UNCHANGED <<db, durable>>

Init ==
    /\ row = [d \in Doc |-> "none"]
    /\ text = {}
    /\ born = [d \in Doc |-> 0]
    /\ rec = [d \in Doc |-> "absent"]
    /\ vec = [d \in Doc |-> "none"]
    /\ durable \in Durable
    /\ queue = <<>>
    /\ pc = [a \in Actor |-> IF a = Rehydrator THEN "start" ELSE "idle"]
    /\ job = [a \in Actor |-> IdleJob]
    /\ restarts = 0
    /\ blamed = {} /\ unpurged = {}

Request == \E d \in Doc : Upload(d) \/ \E a \in Admin : BeginDelete(a, d)

Ingest(a) ==
    \/ Reject(a) \/ Lookup(a) \/ Check(a) \/ Insert(a)
    \/ Store(a) \/ StoreFails(a) \/ MarkFailed(a) \/ Scrub(a) \/ ScrubFails(a)
    \/ MarkIndexed(a) \/ Publish(a) \/ PublishFails(a)

Task(a) == TakeTask(a) \/ Ingest(a) \/ WriteRow(a)

Delete(a) == ReadRecord(a) \/ Purge(a) \/ PurgeFails(a) \/ Tombstone(a) \/ DropRow(a)

Rehydrate == Snapshot \/ RowsDone \/ NextRow \/ CountFails \/ Ingest(Rehydrator)

(* Every document was uploaded and deleted and nothing runs; any other      *)
(* state without a step would be a stuck thread.                            *)
AllDone ==
    /\ \A d \in Doc : born[d] # 0 /\ row[d] = "none"
    /\ queue = <<>> /\ \A a \in Actor : pc[a] = "idle"
    /\ UNCHANGED vars

Next ==
    \/ Request
    \/ \E a \in Thread : Task(a)
    \/ \E a \in Admin : Delete(a)
    \/ Rehydrate
    \/ Restart
    \/ AllDone

Spec == Init /\ [][Next]_vars

(* Threads that have work keep running; nothing in a task waits for another. *)
Fairness ==
    /\ \A a \in Thread : WF_vars(Task(a))
    /\ \A a \in Admin : WF_vars(Delete(a))
    /\ WF_vars(Rehydrate)

FairSpec == Spec /\ Fairness

-----------------------------------------------------------------------------
(* Properties.                                                             *)

TypeOK ==
    /\ row \in [Doc -> RowStatus]
    /\ text \subseteq Doc
    /\ born \in [Doc -> 0..(MaxRestarts + 1)]
    /\ rec \in [Doc -> RecStatus]
    /\ vec \in [Doc -> VecStatus]
    /\ durable \in Durable
    /\ queue \in Seq(Doc)
    /\ pc \in [Actor -> Steps]
    /\ job \in [Actor -> Job]
    /\ \A a \in Actor : pc[a] \in {"idle", "start", "next"} <=> job[a].doc = None
    /\ restarts \in 0..MaxRestarts
    /\ blamed \cup unpurged \subseteq Doc

(* Chunks never outlive their row: what a user deleted is nowhere to be     *)
(* found, also when the delete came after a restart that forgot the record  *)
(* (the fallback of RAGService.delete_document), and whatever else has      *)
(* failed before.  Except when the store refused every deletion of its      *)
(* chunks.  Needs: nobody deletes a document that is being ingested.        *)
NoOrphan == \A d \in Doc \ unpurged : vec[d] # "none" => row[d] # "none"

(* What the rows promise: once nobody works on it or an equal one, a        *)
(* document whose row says "indexed" is searchable, under its own id or     *)
(* under that of an equal one, also after a restart and the re-hydration it *)
(* triggers.  Except when its re-hydration, a publish or a purge has raised,*)
(* when the equal document it was answered with has been deleted, when a    *)
(* crash came between the marking and the publication, or when the start-up *)
(* thread and a worker ingested it at once (see blamed).                    *)
Served(d) == \E e \in Equal(d) : vec[e] = "shown"

Quiet(d) == \A e \in Equal(d) : ~Busy(e)

RowTruth == \A d \in Doc \ blamed : row[d] = "indexed" /\ Quiet(d) => Served(d)

(* What an earlier run of the process made searchable stays so: only a      *)
(* delete, a failed count or, with the memory backend, the restart itself   *)
(* takes it out of the index; the re-hydration leaves it alone.             *)
StaysServed ==
    [][\A d \in Doc :
          born[d] \in 1..restarts /\ vec[d] = "shown" /\ vec'[d] # "shown" =>
             \/ restarts' # restarts /\ ~durable
             \/ \E a \in Admin : job[a].doc = d /\ pc[a] = "purge"
             \/ job[Rehydrator].doc = d /\ job[Rehydrator].blind]_vars

(* While the process lives every upload is decided: its row does not stay   *)
(* "processing" for ever, whatever raises and whoever else ingests it.      *)
Undecided(d) == row[d] = "processing" /\ born[d] = restarts + 1

Settled == \A d \in Doc : []<>~Undecided(d)
=============================================================================
