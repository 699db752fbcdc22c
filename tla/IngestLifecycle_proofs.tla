------------------------ MODULE IngestLifecycle_proofs ------------------------
(***************************************************************************)
(* Proofs about IngestLifecycle, for any documents, contents, workers,     *)
(* parts and number of operations.  Layers, each an invariant that         *)
(* strengthens some of those before:                                       *)
(*   TypeInv    no assumption                                              *)
(*   StampedInv no assumption                                              *)
(*   ClaimInv   the callers do not overlap on a document (Serialized)      *)
(*   GateInv    and no tenant listing fails silently                       *)
(*   RestInv    the same, and what fails leaves nothing behind (CleanRun)  *)
(* On the last rests the refinement of SearchGate.                         *)
(***************************************************************************)
EXTENDS IngestLifecycle, FiniteSetTheorems, TLAPS

USE DEF Active

-----------------------------------------------------------------------------
(* Moving a worker and changing its locals.                                *)

(* An operation in flight has a document and a number already given out. *)
Engaged ==
    \A w \in Worker : Active(w) => job[w].doc \in Doc /\ job[w].op \in 1..issued

TypeInv == TypeOK /\ Engaged

LEMMA PartCount == Cardinality(Part) \in Nat
  BY LifecycleAssumption, FS_CardinalityType

(* What an operation is working on is fixed once it has started. *)
SameTask(j, k) == j.kind = k.kind /\ j.doc = k.doc /\ j.op = k.op

LEMMA IdleJobType == IdleJob \in Job
  BY LifecycleAssumption DEF IdleJob, NewJob, Job, NoRecord, Record, Status, Operations

LEMMA NewJobType ==
  ASSUME NEW kind \in Operations, NEW d \in Doc, NEW c \in Content \cup {None},
         NEW o \in 0..MaxOps
  PROVE  /\ NewJob(kind, d, c, o) \in Job
         /\ NewJob(kind, d, c, o).doc = d
         /\ NewJob(kind, d, c, o).op = o
  BY LifecycleAssumption DEF NewJob, Job, NoRecord, Record, Status

LEMMA JobUpdates ==
  ASSUME NEW j \in Job
  PROVE  /\ \A S \in SUBSET ChunkId :
               [j EXCEPT !.ids = S] \in Job /\ SameTask([j EXCEPT !.ids = S], j)
         /\ \A T \in SUBSET Part :
               [j EXCEPT !.todo = T] \in Job /\ SameTask([j EXCEPT !.todo = T], j)
         /\ \A n \in Nat :
               [j EXCEPT !.ver = n] \in Job /\ SameTask([j EXCEPT !.ver = n], j)
         /\ \A S \in SUBSET ChunkId :
               /\ [j EXCEPT !.ids = S, !.todo = Part] \in Job
               /\ SameTask([j EXCEPT !.ids = S, !.todo = Part], j)
         /\ \A r \in Record :
               /\ [j EXCEPT !.prior = r, !.ver = r.version + 1] \in Job
               /\ SameTask([j EXCEPT !.prior = r, !.ver = r.version + 1], j)
<1>1. \A S \in SUBSET ChunkId, T \in SUBSET Part, n \in Nat :
         /\ [j EXCEPT !.ids = S] \in Job /\ SameTask([j EXCEPT !.ids = S], j)
         /\ [j EXCEPT !.todo = T] \in Job /\ SameTask([j EXCEPT !.todo = T], j)
         /\ [j EXCEPT !.ver = n] \in Job /\ SameTask([j EXCEPT !.ver = n], j)
  BY DEF Job, SameTask
<1>2. \A S \in SUBSET ChunkId :
         /\ [j EXCEPT !.ids = S, !.todo = Part] \in Job
         /\ SameTask([j EXCEPT !.ids = S, !.todo = Part], j)
  BY DEF Job, SameTask
<1>3. \A r \in Record :
         /\ r.version + 1 \in Nat
         /\ [j EXCEPT !.prior = r, !.ver = r.version + 1] \in Job
         /\ SameTask([j EXCEPT !.prior = r, !.ver = r.version + 1], j)
  <2>. SUFFICES ASSUME NEW r \in Record
                PROVE  /\ r.version + 1 \in Nat
                       /\ [j EXCEPT !.prior = r, !.ver = r.version + 1] \in Job
                       /\ SameTask([j EXCEPT !.prior = r, !.ver = r.version + 1], j)
    OBVIOUS
  <2>1. r.version + 1 \in Nat
    BY DEF Record
  <2>. QED  BY <2>1 DEF Job, SameTask
<1>. QED  BY <1>1, <1>2, <1>3, 0 \in Nat, {} \in SUBSET ChunkId, {} \in SUBSET Part

LEMMA GoWithMoves ==
  ASSUME NEW w \in Worker, NEW step \in Steps, NEW j \in Job, TypeOK,
         GoWith(w, step, j)
  PROVE  /\ pc' \in [Worker -> Steps] /\ job' \in [Worker -> Job]
         /\ pc'[w] = step
         /\ step # "idle" => job'[w] = j
         /\ \A u \in Worker \ {w} : pc'[u] = pc[u] /\ job'[u] = job[u]
  BY IdleJobType DEF GoWith, TypeOK

(* Every call of a worker leads it to some step with its task unchanged. *)
Moves(w) ==
    \E step \in Steps, j \in Job : GoWith(w, step, j) /\ SameTask(j, job[w])

LEMMA GotoMoves ==
  ASSUME TypeInv, NEW w \in Worker, NEW step \in Steps, Goto(w, step)
  PROVE  Moves(w)
  BY DEF Goto, Moves, SameTask, TypeInv, TypeOK

LEMMA AbortMoves ==
  ASSUME TypeInv, NEW w \in Worker, Abort(w)
  PROVE  Moves(w)
  BY GotoMoves DEF Abort, Steps

LEMMA OwnRecord ==
  ASSUME TypeInv, NEW w \in Worker, Active(w)
  PROVE  /\ job[w] \in Job
         /\ job[w].doc \in Doc
         /\ job[w].op \in OpId
         /\ rec[job[w].doc] \in Record
         /\ rec[job[w].doc].version \in Nat
  BY LifecycleAssumption DEF TypeInv, TypeOK, Engaged, OpId, Record

LEMMA ChunksOfType ==
  ASSUME TypeInv, NEW d
  PROVE  ChunksOf(d) \in SUBSET ChunkId
  BY DEF TypeInv, TypeOK, ChunksOf

LEMMA WorkMoves ==
  ASSUME TypeInv, NEW w \in Worker, Work(w)
  PROVE  Active(w) /\ Moves(w) /\ issued' = issued
<1>1. Active(w) /\ issued' = issued
  BY DEF Work, Lookup, CheckFree, InsertRecord, ReadRecord, FetchIds, HideOne,
         RevealOne, BeginReindex, Build, InsertSlice, Compensate, DropStale,
         CountChunks, RecallVersion, MarkIndexed, RestorePrior, MarkFailed,
         DeleteChunks, MarkDeleted, BuildFails, InsertFails, CompensateFails,
         DropStaleFails, CountFails, StatusCallFails, RecordCallFails,
         DeleteCallFails, StatusCallBlind, DeleteCallBlind
<1>. USE OwnRecord, <1>1
<1>2. CASE Lookup(w)
  BY <1>2, GotoMoves DEF Lookup, Steps
<1>3. CASE CheckFree(w)
  BY <1>3, GotoMoves DEF CheckFree, Steps
<1>4. CASE InsertRecord(w) \/ BeginReindex(w) \/ MarkIndexed(w) \/ RestorePrior(w)
           \/ MarkFailed(w) \/ MarkDeleted(w)
  BY <1>4, GotoMoves
  DEF InsertRecord, BeginReindex, MarkIndexed, RestorePrior, MarkFailed, MarkDeleted, Steps
<1>5. CASE ReadRecord(w)
  <2>. DEFINE r == rec[job[w].doc]
              j == [job[w] EXCEPT !.prior = r, !.ver = r.version + 1]
  <2>1. j \in Job /\ SameTask(j, job[w])
    BY JobUpdates
  <2>2. Goto(w, "idle") \/ GoWith(w, "unpublish", j) \/ GoWith(w, "purge", j)
    BY <1>5 DEF ReadRecord
  <2>. QED  BY <2>1, <2>2, GotoMoves DEF Moves, Steps
<1>6. CASE FetchIds(w)
  <2>. DEFINE j == [job[w] EXCEPT !.ids = ChunksOf(job[w].doc)]
  <2>1. j \in Job /\ SameTask(j, job[w])
    BY JobUpdates, ChunksOfType
  <2>2. \E step \in {"begin", "hide", "idle", "reveal"} : GoWith(w, step, j)
    BY <1>6 DEF FetchIds
  <2>. QED  BY <2>1, <2>2 DEF Moves, Steps
<1>7. CASE HideOne(w) \/ RevealOne(w)
  <2>1. PICK i \in job[w].ids, next \in {"begin", "idle"} : UpdateOne(w, i, next)
    BY <1>7 DEF HideOne, RevealOne
  <2>. DEFINE j == [job[w] EXCEPT !.ids = job[w].ids \ {i}]
  <2>2. job[w].ids \ {i} \in SUBSET ChunkId
    BY DEF Job
  <2>3. j \in Job /\ SameTask(j, job[w])
    BY <2>2, JobUpdates
  <2>4. \E step \in Steps : GoWith(w, step, j)
    BY <2>1 DEF UpdateOne, Steps, TypeInv, TypeOK
  <2>. QED  BY <2>3, <2>4 DEF Moves
<1>8. CASE Build(w)
  <2>. DEFINE j == [job[w] EXCEPT !.ids = ChunksOf(job[w].doc), !.todo = Part]
  <2>1. j \in Job /\ SameTask(j, job[w])
    BY JobUpdates, ChunksOfType
  <2>. QED  BY <1>8, <2>1 DEF Build, Moves, Steps
<1>9. CASE InsertSlice(w)
  <2>1. PICK S \in SUBSET job[w].todo :
          GoWith(w, IF job[w].todo = S THEN "drop" ELSE "write",
                 [job[w] EXCEPT !.todo = job[w].todo \ S])
    BY <1>9 DEF InsertSlice
  <2>. DEFINE j == [job[w] EXCEPT !.todo = job[w].todo \ S]
  <2>2. job[w].todo \ S \in SUBSET Part
    BY DEF Job
  <2>3. j \in Job /\ SameTask(j, job[w])
    BY <2>2, JobUpdates
  <2>. QED  BY <2>1, <2>3 DEF Moves, Steps
<1>10. CASE InsertFails(w) \/ DropStale(w) \/ DeleteChunks(w)
  BY <1>10, GotoMoves DEF InsertFails, DropStale, DeleteChunks, Steps
<1>11. CASE Compensate(w) \/ CompensateFails(w) \/ DropStaleFails(w) \/ BuildFails(w)
            \/ CountFails(w)
  BY <1>11, AbortMoves
  DEF Compensate, CompensateFails, DropStaleFails, BuildFails, CountFails
<1>12. CASE CountChunks(w)
  BY <1>12, GotoMoves, AbortMoves DEF CountChunks, Steps
<1>13. CASE RecallVersion(w)
  <2>. DEFINE j == [job[w] EXCEPT !.ver = rec[job[w].doc].version]
  <2>1. j \in Job /\ SameTask(j, job[w])
    BY JobUpdates
  <2>. QED  BY <1>13, <2>1 DEF RecallVersion, Moves, Steps
<1>14. CASE StatusCallFails(w) \/ RecordCallFails(w) \/ DeleteCallFails(w)
            \/ StatusCallBlind(w) \/ DeleteCallBlind(w)
  BY <1>14, GotoMoves
  DEF StatusCallFails, RecordCallFails, DeleteCallFails, StatusCallBlind,
      DeleteCallBlind, Steps
<1>. QED
  BY <1>1, <1>2, <1>3, <1>4, <1>5, <1>6, <1>7, <1>8, <1>9, <1>10, <1>11, <1>12,
     <1>13, <1>14 DEF Work

-----------------------------------------------------------------------------
(* Layer 1: types.                                                         *)

(* What a call leaves of a store is still a store. *)
StoresOK ==
    /\ rec \in [Doc -> Record]
    /\ held \subseteq ChunkId
    /\ visible \subseteq held
    /\ known \subseteq Doc
    /\ batch \in [OpId -> Stamp]

LEMMA RecordFields ==
  ASSUME NEW r \in Record
  PROVE  /\ \A s \in Status : [r EXCEPT !.status = s] \in Record
         /\ \A s \in Status : [r EXCEPT !.status = s, !.count = 0] \in Record
         /\ \A s \in Status, c \in Content \cup {None} :
               [r EXCEPT !.status = s, !.hash = c] \in Record
         /\ [r EXCEPT !.status = "indexed"].status = "indexed"
  BY DEF Record, Status

LEMMA WorkStores ==
  ASSUME TypeInv, NEW w \in Worker, Work(w)
  PROVE  StoresOK'
<1>. USE OwnRecord, WorkMoves DEF StoresOK
<1>1. StoresOK
  BY DEF TypeInv, TypeOK
<1>2. CASE UNCHANGED <<stores, batch>>
  BY <1>1, <1>2 DEF stores
<1>3. CASE InsertRecord(w) \/ BeginReindex(w) \/ MarkIndexed(w) \/ RestorePrior(w)
           \/ MarkFailed(w) \/ MarkDeleted(w)
  <2>1. \E r \in Record : SetRecord(job[w].doc, r)
    <3>1. /\ job[w].content \in Content \cup {None}
          /\ job[w].ver \in Nat
          /\ job[w].prior \in Record
      BY DEF Job
    <3>2. CASE InsertRecord(w) \/ MarkIndexed(w)
      BY <3>1, <3>2, PartCount DEF InsertRecord, MarkIndexed, Record, Status
    <3>3. CASE BeginReindex(w)
      BY <3>1, <3>3, RecordFields DEF BeginReindex, Status
    <3>4. CASE RestorePrior(w) \/ MarkFailed(w) \/ MarkDeleted(w)
      BY <3>1, <3>4, RecordFields DEF RestorePrior, MarkFailed, MarkDeleted, Status
    <3>. QED  BY <1>3, <3>2, <3>3, <3>4
  <2>2. UNCHANGED <<held, visible, known, batch>>
    BY <1>3 DEF InsertRecord, BeginReindex, MarkIndexed, RestorePrior, MarkFailed, MarkDeleted
  <2>. QED  BY <1>1, <2>1, <2>2 DEF SetRecord
<1>4. CASE HideOne(w) \/ RevealOne(w)
  BY <1>1, <1>4 DEF HideOne, RevealOne
<1>5. CASE Build(w)
  <2>1. /\ [doc |-> job[w].doc, content |-> job[w].content, version |-> job[w].ver] \in Stamp
        /\ UNCHANGED stores
    BY <1>5 DEF Build, Stamp, Job
  <2>. QED  BY <1>1, <1>5, <2>1 DEF Build, stores
<1>6. CASE InsertSlice(w) \/ InsertFails(w)
  <2>1. job[w].todo \subseteq Part
    BY DEF Job
  <2>2. \E S \in SUBSET Part : held' = held \cup ({job[w].op} \X S)
    BY <1>6, <2>1 DEF InsertSlice, InsertFails
  <2>3. UNCHANGED <<rec, visible, known, batch>>
    BY <1>6 DEF InsertSlice, InsertFails
  <2>. QED  BY <1>1, <2>2, <2>3 DEF ChunkId
<1>7. CASE Compensate(w) \/ CompensateFails(w) \/ DropStale(w) \/ DropStaleFails(w)
           \/ DeleteChunks(w) \/ DeleteCallFails(w)
  <2>1. \E S : DeleteObjects(S)
    BY <1>7 DEF Compensate, CompensateFails, DropStale, DropStaleFails, DeleteChunks,
                DeleteCallFails, DeleteSome
  <2>2. known' \subseteq Doc /\ UNCHANGED <<rec, batch>>
    BY <1>1, <1>7 DEF Compensate, CompensateFails, DropStale, DropStaleFails,
                      DeleteChunks, DeleteCallFails
  <2>. QED  BY <1>1, <2>1, <2>2 DEF DeleteObjects
<1>. QED
  BY <1>2, <1>3, <1>4, <1>5, <1>6, <1>7
  DEF Work, Lookup, CheckFree, ReadRecord, FetchIds, CountChunks, RecallVersion,
      BuildFails, CountFails, StatusCallFails, RecordCallFails, StatusCallBlind,
      DeleteCallBlind

LEMMA WorkTypes ==
  ASSUME TypeInv, NEW w \in Worker, Work(w)
  PROVE  TypeInv'
<1>1. PICK step \in Steps, j \in Job : GoWith(w, step, j) /\ SameTask(j, job[w])
  BY WorkMoves DEF Moves
<1>2. TypeOK'
  BY <1>1, WorkMoves, WorkStores, GoWithMoves DEF StoresOK, TypeInv, TypeOK
<1>3. Engaged'
  BY <1>1, WorkMoves, GoWithMoves DEF TypeInv, TypeOK, Engaged, SameTask
<1>. QED  BY <1>2, <1>3 DEF TypeInv

(* A caller's task is new: no other worker has its number. *)
LEMMA CallMoves ==
  ASSUME TypeInv, NEW w \in Worker, Call(w)
  PROVE  \E d \in Doc, c \in Content \cup {None}, step \in {"lookup", "read"}, kind \in Kinds :
            Enter(w, kind, d, c, step)
  BY DEF Call, CreateDocument, UpdateDocument, DeleteDocument, Enter

LEMMA CallTypes ==
  ASSUME TypeInv, NEW w \in Worker, Call(w)
  PROVE  TypeInv'
<1>1. PICK d \in Doc, c \in Content \cup {None}, step \in {"lookup", "read"}, kind \in Kinds :
         Enter(w, kind, d, c, step)
  BY CallMoves
<1>2. issued + 1 \in 1..MaxOps
  BY <1>1, LifecycleAssumption DEF Enter, TypeInv, TypeOK
<1>. DEFINE j == NewJob(kind, d, c, issued + 1)
<1>3. j \in Job /\ j.doc = d /\ j.op = issued + 1
  BY <1>2, NewJobType, LifecycleAssumption
<1>. HIDE DEF j
<1>4. GoWith(w, step, j) /\ issued' = issued + 1 /\ UNCHANGED <<stores, batch>>
  BY <1>1 DEF Enter, j
<1>5. TypeOK'
  BY <1>2, <1>3, <1>4, GoWithMoves DEF TypeInv, TypeOK, stores, Steps
<1>6. Engaged'
  BY <1>2, <1>3, <1>4, GoWithMoves DEF TypeInv, TypeOK, Engaged, Steps
<1>. QED  BY <1>5, <1>6 DEF TypeInv

LEMMA CrashTypes ==
  ASSUME TypeInv, Crash
  PROVE  TypeInv'
  BY IdleJobType DEF TypeInv, TypeOK, Engaged, Crash, Steps

LEMMA InitTypes == Init => TypeInv
  BY LifecycleAssumption, IdleJobType
  DEF Init, TypeInv, TypeOK, Engaged, NoRecord, Record, Status, NoStamp, Stamp, Steps

LEMMA NextTypes == TypeInv /\ [Next]_vars => TypeInv'
<1>. SUFFICES ASSUME TypeInv, [Next]_vars  PROVE TypeInv'
  OBVIOUS
<1>1. CASE UNCHANGED vars
  BY <1>1 DEF vars, TypeInv, TypeOK, Engaged
<1>. QED
  BY <1>1, WorkTypes, CallTypes, CrashTypes DEF Next, CallersDone

(* Every variable keeps its type, whatever overlaps, fails or crashes. *)
THEOREM TypeCorrect == Spec => []TypeOK
<1>1. Spec => []TypeInv
  BY InitTypes, NextTypes, PTL DEF Spec
<1>2. TypeInv => TypeOK
  BY DEF TypeInv
<1>. QED  BY <1>1, <1>2, PTL

-----------------------------------------------------------------------------
(* Layer 2: every operation stamps its own chunks, once.                   *)

(* No two operations in flight share a number. *)
Numbered ==
    \A u, w \in Worker : u # w /\ Active(u) /\ Active(w) => job[u].op # job[w].op

(* The steps of an operation that has not built its chunks. *)
Unbuilt == {"lookup", "check", "insert", "read", "unpublish", "hide", "begin",
            "build", "purge", "tomb"}

(* A stored chunk has its stamp, and nothing will stamp it again. *)
StampInv ==
    /\ \A o \in OpId : o > issued => batch[o].doc = None
    /\ \A w \in Worker : pc[w] \in Unbuilt => batch[job[w].op].doc = None
    /\ \A w \in Worker : pc[w] \in {"write", "undo"} => batch[job[w].op].doc = job[w].doc
    /\ \A i \in held : batch[i[1]].doc # None

StampedInv == TypeInv /\ Numbered /\ StampInv

(* The next step of a worker, its task unchanged unless it is done. *)
LEMMA WorkStep ==
  ASSUME TypeInv, NEW w \in Worker, Work(w)
  PROVE  /\ Active(w) /\ issued' = issued
         /\ pc'[w] # "idle" => SameTask(job'[w], job[w])
         /\ \A u \in Worker \ {w} : pc'[u] = pc[u] /\ job'[u] = job[u]
<1>1. PICK step \in Steps, j \in Job : GoWith(w, step, j) /\ SameTask(j, job[w])
  BY WorkMoves DEF Moves
<1>. QED  BY <1>1, WorkMoves, GoWithMoves DEF TypeInv

LEMMA WorkNumbered ==
  ASSUME TypeInv, Numbered, NEW w \in Worker, Work(w)
  PROVE  Numbered'
<1>. SUFFICES ASSUME NEW u \in Worker, NEW v \in Worker, u # v, pc'[u] # "idle",
                     pc'[v] # "idle"
              PROVE  job'[u].op # job'[v].op
  BY DEF Numbered
<1>. QED  BY WorkStep DEF Numbered, SameTask

LEMMA HeldStamped ==
  ASSUME StampedInv, NEW i \in held
  PROVE  i[1] \in OpId /\ batch[i[1]].doc # None
  BY DEF StampedInv, TypeInv, TypeOK, StampInv, ChunkId

LEMMA StampsKept ==
  ASSUME StampedInv, NEW w \in Worker, Work(w), NEW o \in OpId
  PROVE  /\ batch[o].doc # None => batch'[o] = batch[o]
         /\ o # job[w].op => batch'[o] = batch[o]
         /\ ~Build(w) => batch' = batch
<1>1. CASE Build(w)
  BY <1>1 DEF Build, StampedInv, TypeInv, TypeOK, StampInv, Unbuilt
<1>2. CASE ~Build(w)
  BY <1>2
  DEF Work, Lookup, CheckFree, InsertRecord, ReadRecord, FetchIds, HideOne, RevealOne,
      BeginReindex, InsertSlice, Compensate, DropStale, CountChunks, RecallVersion,
      MarkIndexed, RestorePrior, MarkFailed, DeleteChunks, MarkDeleted, BuildFails,
      InsertFails, CompensateFails, DropStaleFails, CountFails, StatusCallFails,
      RecordCallFails, DeleteCallFails, StatusCallBlind, DeleteCallBlind
<1>. QED  BY <1>1, <1>2

(* What an operation may store carries its own number, after its stamp. *)
LEMMA HeldGrowth ==
  ASSUME TypeInv, NEW w \in Worker, Work(w), NEW i \in held', i \notin held
  PROVE  pc[w] = "write" /\ i[1] = job[w].op
<1>1. CASE InsertSlice(w) \/ InsertFails(w)
  <2>1. pc[w] = "write" /\ \E S \in SUBSET job[w].todo : held' = held \cup ({job[w].op} \X S)
    BY <1>1 DEF InsertSlice, InsertFails
  <2>2. PICK S : i \in {job[w].op} \X S
    BY <2>1
  <2>. QED  BY <2>1, <2>2
<1>2. CASE \E S : DeleteObjects(S)
  BY <1>2 DEF DeleteObjects
<1>3. CASE Compensate(w) \/ CompensateFails(w) \/ DropStale(w) \/ DropStaleFails(w)
           \/ DeleteChunks(w) \/ DeleteCallFails(w)
  BY <1>2, <1>3 DEF Compensate, CompensateFails, DropStale, DropStaleFails,
                    DeleteChunks, DeleteCallFails, DeleteSome
<1>4. CASE UNCHANGED held
  BY <1>4
<1>. QED
  BY <1>1, <1>3, <1>4
  DEF Work, Lookup, CheckFree, InsertRecord, ReadRecord, FetchIds, HideOne, RevealOne,
      BeginReindex, Build, CountChunks, RecallVersion, MarkIndexed, RestorePrior,
      MarkFailed, MarkDeleted, BuildFails, CountFails, StatusCallFails,
      RecordCallFails, StatusCallBlind, DeleteCallBlind, stores

(* Where a step leads, as far as stamps are concerned. *)
LEMMA StampSteps ==
  ASSUME TypeInv, NEW w \in Worker, Work(w)
  PROVE  /\ pc'[w] \in Unbuilt => pc[w] \in Unbuilt /\ ~Build(w)
         /\ pc'[w] \in {"write", "undo"} => pc[w] = "write" \/ Build(w)
         /\ Build(w) => pc'[w] = "write"
<1>. USE DEF Goto, GoWith, Abort, Unbuilt
<1>0. pc \in [Worker -> Steps]
  BY DEF TypeInv, TypeOK
<1>1. CASE Lookup(w) \/ CheckFree(w) \/ InsertRecord(w) \/ ReadRecord(w) \/ FetchIds(w)
           \/ HideOne(w) \/ RevealOne(w) \/ BeginReindex(w)
  BY <1>0, <1>1
  DEF Lookup, CheckFree, InsertRecord, ReadRecord, FetchIds, HideOne, RevealOne,
      BeginReindex, UpdateOne, Build
<1>2. CASE Build(w) \/ BuildFails(w) \/ InsertSlice(w) \/ InsertFails(w) \/ Compensate(w)
           \/ CompensateFails(w) \/ DropStale(w) \/ DropStaleFails(w)
  BY <1>0, <1>2
  DEF Build, BuildFails, InsertSlice, InsertFails, Compensate, CompensateFails,
      DropStale, DropStaleFails
<1>3. CASE CountChunks(w) \/ CountFails(w) \/ RecallVersion(w) \/ MarkIndexed(w)
           \/ RestorePrior(w) \/ MarkFailed(w)
  BY <1>0, <1>3
  DEF CountChunks, CountFails, RecallVersion, MarkIndexed, RestorePrior, MarkFailed, Build
<1>4. CASE DeleteChunks(w) \/ MarkDeleted(w) \/ StatusCallFails(w) \/ RecordCallFails(w)
           \/ DeleteCallFails(w) \/ StatusCallBlind(w) \/ DeleteCallBlind(w)
  BY <1>0, <1>4
  DEF DeleteChunks, MarkDeleted, StatusCallFails, RecordCallFails, DeleteCallFails,
      StatusCallBlind, DeleteCallBlind, Build
<1>. QED  BY <1>1, <1>2, <1>3, <1>4 DEF Work

LEMMA WorkStamps ==
  ASSUME StampedInv, NEW w \in Worker, Work(w)
  PROVE  StampInv'
<1>1. /\ TypeInv /\ StampInv /\ Numbered
      /\ held \subseteq ChunkId /\ batch \in [OpId -> Stamp]
      /\ issued' = issued /\ issued \in Nat /\ MaxOps \in Nat
      /\ job[w].op \in OpId /\ job[w].op <= issued /\ job[w].doc \in Doc
      /\ None \notin Doc
  BY OwnRecord, WorkStep, LifecycleAssumption
  DEF StampedInv, TypeInv, TypeOK, Engaged, OpId
<1>2. \A o \in OpId : o > issued' => batch'[o].doc = None
  BY <1>1, StampsKept DEF StampInv, OpId
<1>3. ASSUME NEW u \in Worker, pc'[u] \in Unbuilt
      PROVE  batch'[job'[u].op].doc = None
  <2>1. CASE u = w
    BY <1>1, <1>3, <2>1, StampSteps, StampsKept, WorkStep DEF StampInv, SameTask, Unbuilt
  <2>2. CASE u # w
    <3>1. pc[u] = pc'[u] /\ job[u] = job'[u] /\ Active(u) /\ Active(w)
      BY <1>1, <1>3, <2>2, WorkStep DEF Unbuilt
    <3>2. job[u].op \in OpId /\ job[u].op # job[w].op
      BY <1>1, <2>2, <3>1, OwnRecord DEF Numbered
    <3>. QED  BY <1>1, <1>3, <3>1, <3>2, StampsKept DEF StampInv
  <2>. QED  BY <2>1, <2>2
<1>4. ASSUME NEW u \in Worker, pc'[u] \in {"write", "undo"}
      PROVE  batch'[job'[u].op].doc = job'[u].doc
  <2>1. CASE u = w /\ Build(w)
    <3>1. batch'[job[w].op].doc = job[w].doc
      BY <1>1, <2>1 DEF Build
    <3>. QED  BY <1>1, <1>4, <2>1, <3>1, WorkStep DEF SameTask
  <2>2. CASE u = w /\ ~Build(w)
    BY <1>1, <1>4, <2>2, StampSteps, StampsKept, WorkStep DEF StampInv, SameTask
  <2>3. CASE u # w
    <3>1. pc[u] = pc'[u] /\ job[u] = job'[u] /\ Active(u) /\ Active(w)
      BY <1>1, <1>4, <2>3, WorkStep
    <3>2. job[u].op \in OpId /\ job[u].op # job[w].op
      BY <1>1, <2>3, <3>1, OwnRecord DEF Numbered
    <3>. QED  BY <1>1, <1>4, <3>1, <3>2, StampsKept DEF StampInv
  <2>. QED  BY <2>1, <2>2, <2>3
<1>5. ASSUME NEW i \in held'
      PROVE  batch'[i[1]].doc # None
  <2>1. CASE i \in held
    BY <2>1, HeldStamped, StampsKept
  <2>2. CASE i \notin held
    <3>1. i[1] = job[w].op /\ batch[job[w].op].doc = job[w].doc
      BY <1>1, <2>2, HeldGrowth DEF StampInv
    <3>. QED  BY <1>1, <3>1, StampsKept
  <2>. QED  BY <2>1, <2>2
<1>. QED  BY <1>2, <1>3, <1>4, <1>5 DEF StampInv

LEMMA CallStamped ==
  ASSUME StampedInv, NEW w \in Worker, Call(w)
  PROVE  Numbered' /\ StampInv'
<1>1. PICK d \in Doc, c \in Content \cup {None}, step \in {"lookup", "read"}, kind \in Kinds :
         Enter(w, kind, d, c, step)
  BY CallMoves DEF StampedInv
<1>2. issued \in Nat /\ issued + 1 \in OpId
  BY <1>1, LifecycleAssumption DEF Enter, StampedInv, TypeInv, TypeOK, OpId
<1>. DEFINE j == NewJob(kind, d, c, issued + 1)
<1>3. j \in Job /\ j.doc = d /\ j.op = issued + 1
  BY <1>2, NewJobType, LifecycleAssumption DEF OpId
<1>. HIDE DEF j
<1>4. /\ issued' = issued + 1 /\ pc'[w] = step /\ job'[w] = j
      /\ \A u \in Worker \ {w} : pc'[u] = pc[u] /\ job'[u] = job[u]
      /\ UNCHANGED <<held, batch>>
  BY <1>1 DEF Enter, GoWith, j, stores, StampedInv, TypeInv, TypeOK
<1>5. \A u \in Worker : Active(u) => job[u].op # issued + 1
  BY <1>2 DEF StampedInv, TypeInv, Engaged
<1>6. Numbered'
  BY <1>3, <1>4, <1>5 DEF StampedInv, Numbered
<1>7. StampInv'
  BY <1>2, <1>3, <1>4 DEF StampInv, StampedInv, OpId
<1>. QED  BY <1>6, <1>7

LEMMA NextStamped == StampedInv /\ [Next]_vars => StampedInv'
<1>. SUFFICES ASSUME StampedInv, [Next]_vars  PROVE StampedInv'
  OBVIOUS
<1>1. TypeInv'
  BY NextTypes DEF StampedInv
<1>2. CASE UNCHANGED vars
  BY <1>1, <1>2 DEF vars, StampedInv, Numbered, StampInv
<1>3. CASE \E w \in Worker : Work(w)
  BY <1>1, <1>3, WorkNumbered, WorkStamps DEF StampedInv
<1>4. CASE \E w \in Worker : Call(w)
  BY <1>1, <1>4, CallStamped DEF StampedInv
<1>5. CASE Crash
  BY <1>1, <1>5 DEF Crash, StampedInv, Numbered, StampInv, Unbuilt
<1>. QED
  BY <1>2, <1>3, <1>4, <1>5 DEF Next, CallersDone

LEMMA InitStamped == Init => StampedInv
  BY InitTypes DEF Init, StampedInv, Numbered, StampInv, Unbuilt, NoStamp

-----------------------------------------------------------------------------
(* Layer 3: what a worker may rely on about the record it works on, as     *)
(* long as no other operation runs on the document.                        *)

(* No two operations in flight share a document; none share a number. *)
Separate ==
    \A u, w \in Worker : u # w /\ Active(u) /\ Active(w) =>
        job[u].doc # job[w].doc /\ job[u].op # job[w].op

Rewriting == {"build", "write", "undo", "drop", "count", "recall", "commit",
              "restore", "fail"}

Claim(w) ==
    LET status == rec[job[w].doc].status IN
    /\ pc[w] = "insert" => status \in {"absent", "deleted"}
    /\ pc[w] \in {"unpublish", "hide", "begin", "purge", "tomb"} => status # "deleted"
    /\ pc[w] \in Rewriting => status = "processing"
    /\ pc[w] \in {"publish", "reveal"} => status = "indexed"

ClaimInv == TypeInv /\ Separate /\ \A w \in Worker : Claim(w)

(* A worker touches the record of its own document only. *)
LEMMA OwnRecordOnly ==
  ASSUME TypeInv, NEW w \in Worker, Work(w), NEW d \in Doc, d # job[w].doc
  PROVE  rec'[d] = rec[d]
<1>1. CASE UNCHANGED rec
  BY <1>1
<1>2. CASE \E r : SetRecord(job[w].doc, r)
  BY <1>2 DEF SetRecord, TypeInv, TypeOK
<1>. QED
  BY <1>1, <1>2
  DEF Work, Lookup, CheckFree, InsertRecord, ReadRecord, FetchIds, HideOne,
      RevealOne, BeginReindex, Build, InsertSlice, Compensate, DropStale,
      CountChunks, RecallVersion, MarkIndexed, RestorePrior, MarkFailed,
      DeleteChunks, MarkDeleted, BuildFails, InsertFails, CompensateFails,
      DropStaleFails, CountFails, StatusCallFails, RecordCallFails,
      DeleteCallFails, StatusCallBlind, DeleteCallBlind, stores

LEMMA WorkSeparate ==
  ASSUME TypeInv, Separate, NEW w \in Worker, Work(w)
  PROVE  Separate'
<1>. SUFFICES ASSUME NEW u \in Worker, NEW v \in Worker, u # v, pc'[u] # "idle",
                     pc'[v] # "idle"
              PROVE  job'[u].doc # job'[v].doc /\ job'[u].op # job'[v].op
  BY DEF Separate
<1>. QED  BY WorkStep DEF Separate, SameTask

LEMMA CallSeparate ==
  ASSUME Serialized, TypeInv, Separate, NEW w \in Worker, Call(w)
  PROVE  Separate'
<1>1. PICK d \in Doc, c \in Content \cup {None}, step \in {"lookup", "read"}, kind \in Kinds :
         Enter(w, kind, d, c, step)
  BY CallMoves
<1>2. issued + 1 \in 1..MaxOps
  BY <1>1, LifecycleAssumption DEF Enter, TypeInv, TypeOK
<1>. DEFINE j == NewJob(kind, d, c, issued + 1)
<1>3. j \in Job /\ j.doc = d /\ j.op = issued + 1
  BY <1>2, NewJobType, LifecycleAssumption
<1>. HIDE DEF j
<1>4. GoWith(w, step, j)
  BY <1>1 DEF Enter, j
<1>5. \A u \in Worker \ {w} : Active(u) => job[u].doc # d /\ job[u].op # issued + 1
  BY <1>1, <1>2 DEF Enter, TypeInv, TypeOK, Engaged
<1>. QED  BY <1>3, <1>4, <1>5, GoWithMoves DEF Separate, Steps, TypeInv

(* A step of another worker leaves a claim alone. *)
LEMMA OtherClaim ==
  ASSUME ClaimInv, NEW w \in Worker, Work(w), NEW u \in Worker, u # w
  PROVE  Claim(u)'
<1>1. pc'[u] = pc[u] /\ job'[u] = job[u] /\ Active(w)
  BY WorkStep DEF ClaimInv
<1>2. CASE Active(u)
  <2>1. job[u].doc \in Doc /\ job[u].doc # job[w].doc
    BY <1>1, <1>2 DEF ClaimInv, TypeInv, Engaged, Separate
  <2>. QED  BY <1>1, <2>1, OwnRecordOnly DEF ClaimInv, Claim
<1>3. CASE ~Active(u)
  BY <1>1, <1>3 DEF Claim, Rewriting
<1>. QED  BY <1>2, <1>3

LEMMA OwnClaim ==
  ASSUME ClaimInv, NEW w \in Worker, Work(w)
  PROVE  Claim(w)'
<1>. DEFINE d == job[w].doc
<1>1. /\ TypeInv /\ Claim(w)
      /\ pc \in [Worker -> Steps] /\ rec \in [Doc -> Record]
      /\ d \in Doc
      /\ pc'[w] # "idle" => job'[w].doc = d
  BY OwnRecord, WorkStep DEF ClaimInv, TypeInv, TypeOK, SameTask
<1>2. CASE pc'[w] \in {"idle", "lookup", "check", "scrub"}
  BY <1>2 DEF Claim, Rewriting
<1>3. CASE rec' = rec /\ pc[w] \in Rewriting /\ pc'[w] \in Rewriting
  BY <1>1, <1>3 DEF Claim, Rewriting
<1>4. CASE CheckFree(w)
  <2>1. pc'[w] = "idle" \/ (pc'[w] = "insert" /\ rec[d].status \in {"absent", "deleted"})
    BY <1>1, <1>4 DEF CheckFree, Goto, GoWith
  <2>. QED  BY <1>1, <1>2, <1>4, <2>1 DEF CheckFree, Claim, Rewriting, stores
<1>5. CASE InsertRecord(w) \/ BeginReindex(w)
  <2>1. pc'[w] = "build"
    BY <1>1, <1>5 DEF InsertRecord, BeginReindex, Goto, GoWith
  <2>2. rec'[d].status = "processing"
    <3>1. CASE InsertRecord(w)
      BY <1>1, <3>1 DEF InsertRecord, SetRecord
    <3>2. CASE BeginReindex(w)
      <4>1. rec'[d] = [rec[d] EXCEPT !.status = "processing", !.hash = job[w].content]
        BY <1>1, <3>2 DEF BeginReindex, SetRecord
      <4>2. rec[d] \in Record
        BY <1>1
      <4>. QED  BY <4>1, <4>2 DEF Record
    <3>. QED  BY <1>5, <3>1, <3>2
  <2>. QED  BY <1>1, <2>1, <2>2 DEF Claim, Rewriting
<1>6. CASE ReadRecord(w)
  <2>1. pc'[w] = "idle"
        \/ (pc'[w] \in {"unpublish", "purge"} /\ rec[d].status # "deleted")
    BY <1>1, <1>6 DEF ReadRecord, Goto, GoWith
  <2>. QED  BY <1>1, <1>2, <1>6, <2>1 DEF ReadRecord, Claim, Rewriting, stores
<1>7. CASE FetchIds(w) \/ StatusCallBlind(w) \/ HideOne(w) \/ RevealOne(w)
  <2>1. /\ rec' = rec
        /\ \/ pc'[w] = "idle"
           \/ pc[w] \in {"unpublish", "hide"} /\ pc'[w] \in {"begin", "hide"}
           \/ pc[w] \in {"publish", "reveal"} /\ pc'[w] = "reveal"
    BY <1>1, <1>7
    DEF FetchIds, StatusCallBlind, HideOne, RevealOne, UpdateOne, Goto, GoWith, stores
  <2>. QED  BY <1>1, <1>2, <2>1 DEF Claim, Rewriting
<1>8. CASE Build(w) \/ BuildFails(w) \/ InsertSlice(w) \/ InsertFails(w) \/ Compensate(w)
           \/ CompensateFails(w) \/ DropStale(w) \/ DropStaleFails(w) \/ CountChunks(w)
           \/ CountFails(w) \/ RecallVersion(w)
  <2>1. rec' = rec /\ pc[w] \in Rewriting /\ pc'[w] \in Rewriting
    <3>. USE DEF Goto, GoWith, Abort, Rewriting, stores
    <3>1. CASE Build(w) \/ BuildFails(w)
      BY <1>1, <3>1 DEF Build, BuildFails
    <3>2. CASE InsertSlice(w) \/ InsertFails(w)
      BY <1>1, <3>2 DEF InsertSlice, InsertFails
    <3>3. CASE Compensate(w) \/ CompensateFails(w)
      BY <1>1, <3>3 DEF Compensate, CompensateFails
    <3>4. CASE DropStale(w) \/ DropStaleFails(w)
      BY <1>1, <3>4 DEF DropStale, DropStaleFails
    <3>5. CASE CountChunks(w) \/ CountFails(w) \/ RecallVersion(w)
      BY <1>1, <3>5 DEF CountChunks, CountFails, RecallVersion
    <3>. QED  BY <1>8, <3>1, <3>2, <3>3, <3>4, <3>5
  <2>. QED  BY <1>3, <2>1
<1>9. CASE MarkIndexed(w) \/ RestorePrior(w)
  <2>1. pc'[w] = "publish"
    BY <1>1, <1>9 DEF MarkIndexed, RestorePrior, Goto, GoWith
  <2>2. rec'[d].status = "indexed"
    BY <1>1, <1>9, OwnRecord DEF MarkIndexed, RestorePrior, SetRecord, Record, Job
  <2>. QED  BY <1>1, <2>1, <2>2 DEF Claim, Rewriting
<1>10. CASE DeleteChunks(w) \/ DeleteCallBlind(w)
  <2>1. rec' = rec /\ (pc'[w] = "idle" \/ (pc[w] = "purge" /\ pc'[w] = "tomb"))
    BY <1>1, <1>10 DEF DeleteChunks, DeleteCallBlind, Goto, GoWith, stores
  <2>. QED  BY <1>1, <1>2, <2>1 DEF Claim, Rewriting
<1>11. CASE Lookup(w) \/ MarkFailed(w) \/ MarkDeleted(w) \/ StatusCallFails(w)
            \/ RecordCallFails(w) \/ DeleteCallFails(w)
  <2>1. pc'[w] \in {"idle", "check", "scrub"}
    BY <1>1, <1>11
    DEF Lookup, MarkFailed, MarkDeleted, StatusCallFails, RecordCallFails,
        DeleteCallFails, Goto, GoWith
  <2>. QED  BY <1>2, <2>1
<1>. QED
  BY <1>4, <1>5, <1>6, <1>7, <1>8, <1>9, <1>10, <1>11 DEF Work

(* A new operation has no claim yet, and takes none away. *)
LEMMA CallClaims ==
  ASSUME ClaimInv, NEW w \in Worker, Call(w), NEW u \in Worker
  PROVE  Claim(u)'
<1>1. PICK d \in Doc, c \in Content \cup {None}, step \in {"lookup", "read"}, kind \in Kinds :
         Enter(w, kind, d, c, step)
  BY CallMoves DEF ClaimInv
<1>2. /\ rec' = rec /\ pc'[w] = step
      /\ u # w => pc'[u] = pc[u] /\ job'[u] = job[u]
  BY <1>1 DEF Enter, GoWith, stores, ClaimInv, TypeInv, TypeOK
<1>. QED  BY <1>2 DEF Claim, Rewriting, ClaimInv

LEMMA NextClaims == Serialized /\ ClaimInv /\ [Next]_vars => ClaimInv'
<1>. SUFFICES ASSUME Serialized, ClaimInv, [Next]_vars  PROVE ClaimInv'
  OBVIOUS
<1>1. TypeInv'
  BY NextTypes DEF ClaimInv
<1>2. CASE UNCHANGED vars
  BY <1>1, <1>2 DEF vars, ClaimInv, Separate, Claim
<1>3. CASE \E w \in Worker : Work(w)
  BY <1>1, <1>3, WorkSeparate, OwnClaim, OtherClaim DEF ClaimInv
<1>4. CASE \E w \in Worker : Call(w)
  BY <1>1, <1>4, CallSeparate, CallClaims DEF ClaimInv
<1>5. CASE Crash
  BY <1>1, <1>5 DEF Crash, ClaimInv, Separate, Claim, Rewriting
<1>. QED
  BY <1>2, <1>3, <1>4, <1>5 DEF Next, CallersDone

LEMMA InitClaims == Init => ClaimInv
  BY InitTypes DEF Init, ClaimInv, Separate, Claim, Rewriting

(* Without overlapping operations on a document, a deleted document stays  *)
(* deleted until a create replaces its row.                                *)
THEOREM TombstoneSafe == ASSUME Serialized  PROVE Spec => TombstoneFinal
<1>. DEFINE Replaced == \A d \in Doc : rec[d].status = "deleted" /\ rec'[d] # rec[d] =>
                          \E w \in Worker : pc[w] = "insert" /\ job[w].doc = d
<1>1. Spec => []ClaimInv
  BY InitClaims, NextClaims, PTL DEF Spec
<1>2. ClaimInv /\ [Next]_vars => [Replaced]_vars
  <2>. SUFFICES ASSUME ClaimInv, Next, NEW d \in Doc, rec[d].status = "deleted",
                       rec'[d] # rec[d]
                PROVE  \E w \in Worker : pc[w] = "insert" /\ job[w].doc = d
    OBVIOUS
  <2>1. PICK w \in Worker : Work(w)
    BY DEF Next, Call, CreateDocument, UpdateDocument, DeleteDocument, Enter, Crash,
           CallersDone, vars, stores
  <2>2. job[w].doc = d /\ Claim(w)
    BY <2>1, OwnRecordOnly DEF ClaimInv
  <2>3. pc[w] \notin Rewriting \cup {"begin", "tomb"}
    BY <2>2 DEF Claim
  <2>4. InsertRecord(w)
    BY <2>1, <2>3
    DEF Work, Lookup, CheckFree, ReadRecord, FetchIds, HideOne, RevealOne,
        BeginReindex, Build, InsertSlice, Compensate, DropStale, CountChunks,
        RecallVersion, MarkIndexed, RestorePrior, MarkFailed, DeleteChunks,
        MarkDeleted, BuildFails, InsertFails, CompensateFails, DropStaleFails,
        CountFails, StatusCallFails, RecordCallFails, DeleteCallFails,
        StatusCallBlind, DeleteCallBlind, stores, Rewriting
  <2>. QED  BY <2>2, <2>4 DEF InsertRecord
<1>. QED  BY <1>1, <1>2, PTL DEF Spec, TombstoneFinal

-----------------------------------------------------------------------------
(* Layer 4: what a search can see of a document.                           *)

(* What a worker knows of its document's searchable chunks. *)
Sight(w) ==
    LET d == job[w].doc IN
    /\ pc[w] = "hide" => Searchable(d) \subseteq job[w].ids
    /\ pc[w] \in {"begin", "tomb"} => Searchable(d) = {}
    /\ pc[w] = "reveal" => \A i \in job[w].ids : batch[i[1]].doc = d

GateInv ==
    /\ StampedInv
    /\ ClaimInv
    /\ \A w \in Worker : Sight(w)
    /\ GateClosed

(* Only a publish step makes anything searchable, and only of its document. *)
LEMMA SearchableShrinks ==
  ASSUME GateInv, NEW w \in Worker, Work(w), NEW d \in Doc,
         RevealOne(w) => d # job[w].doc
  PROVE  Searchable(d)' \subseteq Searchable(d)
<1>. SUFFICES ASSUME NEW i \in visible', batch'[i[1]].doc = d
              PROVE  i \in visible /\ batch[i[1]].doc = d
  BY DEF Searchable
<1>1. /\ TypeInv /\ visible \subseteq held /\ Sight(w)
  BY DEF GateInv, ClaimInv, TypeInv, TypeOK
<1>2. CASE i \in visible
  BY <1>1, <1>2, HeldStamped, StampsKept DEF GateInv
<1>3. CASE i \notin visible
  <2>1. RevealOne(w)
    <3>1. CASE \E S : DeleteObjects(S)
      BY <1>3, <3>1 DEF DeleteObjects
    <3>2. CASE Compensate(w) \/ CompensateFails(w) \/ DropStale(w) \/ DropStaleFails(w)
               \/ DeleteChunks(w) \/ DeleteCallFails(w)
      BY <3>1, <3>2 DEF Compensate, CompensateFails, DropStale, DropStaleFails,
                        DeleteChunks, DeleteCallFails, DeleteSome
    <3>3. CASE HideOne(w)
      BY <1>3, <3>3 DEF HideOne
    <3>. QED
      BY <1>3, <3>2, <3>3
      DEF Work, Lookup, CheckFree, InsertRecord, ReadRecord, FetchIds, BeginReindex,
          Build, InsertSlice, InsertFails, CountChunks, RecallVersion, MarkIndexed,
          RestorePrior, MarkFailed, MarkDeleted, BuildFails, CountFails,
          StatusCallFails, RecordCallFails, StatusCallBlind, DeleteCallBlind, stores
  <2>2. i \in job[w].ids /\ i \in held
    BY <1>3, <2>1 DEF RevealOne
  <2>3. batch[i[1]].doc = job[w].doc
    BY <1>1, <2>1, <2>2 DEF RevealOne, Sight
  <2>4. batch' = batch
    BY <2>1 DEF RevealOne
  <2>. QED  BY <2>1, <2>3, <2>4
<1>. QED  BY <1>2, <1>3

LEMMA OtherSight ==
  ASSUME GateInv, NEW w \in Worker, Work(w), NEW u \in Worker, u # w
  PROVE  Sight(u)'
<1>1. /\ pc'[u] = pc[u] /\ job'[u] = job[u] /\ Active(w)
      /\ TypeInv /\ Separate /\ Sight(u)
  BY WorkStep DEF GateInv, ClaimInv
<1>2. CASE ~Active(u)
  BY <1>1, <1>2 DEF Sight
<1>3. CASE Active(u)
  <2>0. PICK d \in Doc : d = job[u].doc
    BY <1>1, <1>3, OwnRecord
  <2>1. d # job[w].doc /\ job[u] \in Job
    BY <1>1, <1>3, <2>0, OwnRecord DEF Separate
  <2>2. Searchable(d)' \subseteq Searchable(d)
    BY <2>1, SearchableShrinks
  <2>3. ASSUME pc[u] = "reveal", NEW i \in job[u].ids
        PROVE  batch'[i[1]].doc = d
    <3>1. i[1] \in OpId /\ batch[i[1]].doc = d
      BY <1>1, <2>0, <2>1, <2>3 DEF Sight, Job, ChunkId
    <3>. QED  BY <2>0, <3>1, StampsKept, LifecycleAssumption DEF GateInv
  <2>. QED  BY <1>1, <2>0, <2>2, <2>3 DEF Sight, Searchable
<1>. QED  BY <1>2, <1>3

LEMMA OwnSight ==
  ASSUME GateInv, "tenants" \notin Faults, NEW w \in Worker, Work(w)
  PROVE  Sight(w)'
<1>1. /\ TypeInv /\ StampInv /\ Sight(w)
      /\ pc \in [Worker -> Steps] /\ job \in [Worker -> Job]
      /\ job[w] \in Job /\ visible \subseteq held
      /\ pc'[w] # "idle" => job'[w].doc = job[w].doc
  BY OwnRecord, WorkStep DEF GateInv, StampedInv, TypeInv, TypeOK, SameTask
<1>2. CASE pc'[w] \notin {"hide", "begin", "tomb", "reveal"}
  BY <1>2 DEF Sight
<1>3. PICK d \in Doc : d = job[w].doc
  BY <1>1, OwnRecord, WorkStep
<1>4. CASE FetchIds(w)
    <2>1. UNCHANGED <<visible, batch>> /\ (job'[w].ids = ChunksOf(d) \/ pc'[w] = "idle")
    BY <1>1, <1>3, <1>4 DEF FetchIds, GoWith, Job, stores
  <2>2. pc'[w] = "begin" => ChunksOf(d) = {}
    BY <1>1, <1>3, <1>4 DEF FetchIds, GoWith
  <2>3. pc'[w] # "tomb"
    BY <1>1, <1>4 DEF FetchIds, GoWith
  <2>. QED  BY <1>1, <1>3, <1>4, <2>1, <2>2, <2>3 DEF FetchIds, Sight, Searchable, ChunksOf
<1>5. CASE HideOne(w)
  <2>1. PICK i \in job[w].ids : visible' = visible \ {i} /\ UpdateOne(w, i, "begin")
    BY <1>5 DEF HideOne
  <2>2. /\ pc'[w] \in {"idle", "begin", "hide"}
        /\ pc'[w] = "begin" => job[w].ids = {i}
        /\ pc'[w] = "hide" => job'[w].ids = job[w].ids \ {i}
    BY <1>1, <1>5, <2>1 DEF HideOne, UpdateOne, GoWith, Job
  <2>3. Searchable(d) \subseteq job[w].ids /\ batch' = batch
    BY <1>1, <1>3, <1>5 DEF HideOne, Sight
  <2>. QED  BY <1>1, <1>3, <2>1, <2>2, <2>3 DEF Sight, Searchable
<1>6. CASE RevealOne(w)
  <2>1. /\ pc'[w] \in {"idle", "reveal"}
        /\ pc'[w] = "reveal" => job'[w].ids \subseteq job[w].ids
        /\ batch' = batch
    BY <1>1, <1>6 DEF RevealOne, UpdateOne, GoWith, Job
  <2>2. \A i \in job[w].ids : batch[i[1]].doc = job[w].doc
    BY <1>1, <1>6 DEF RevealOne, Sight
  <2>. QED  BY <1>1, <2>1, <2>2 DEF Sight
<1>7. CASE DeleteChunks(w)
  <2>1. pc'[w] \in {"idle", "tomb"} /\ batch' = batch /\ visible' = visible \ ChunksOf(d)
    BY <1>1, <1>3, <1>7 DEF DeleteChunks, DeleteObjects, Goto, GoWith
  <2>. QED  BY <1>1, <1>3, <2>1 DEF Sight, Searchable, ChunksOf
<1>8. CASE Lookup(w) \/ CheckFree(w) \/ InsertRecord(w) \/ ReadRecord(w) \/ BeginReindex(w)
           \/ MarkIndexed(w) \/ RestorePrior(w) \/ MarkFailed(w) \/ MarkDeleted(w)
  BY <1>1, <1>2, <1>8
  DEF Lookup, CheckFree, InsertRecord, ReadRecord, BeginReindex, MarkIndexed,
      RestorePrior, MarkFailed, MarkDeleted, Goto, GoWith
<1>9. CASE Build(w) \/ BuildFails(w) \/ InsertSlice(w) \/ InsertFails(w) \/ Compensate(w)
           \/ CompensateFails(w) \/ DropStale(w) \/ DropStaleFails(w) \/ CountChunks(w)
           \/ CountFails(w) \/ RecallVersion(w)
  BY <1>1, <1>2, <1>9
  DEF Build, BuildFails, InsertSlice, InsertFails, Compensate, CompensateFails, DropStale,
      DropStaleFails, CountChunks, CountFails, RecallVersion, Abort, Goto, GoWith
<1>10. CASE StatusCallFails(w) \/ RecordCallFails(w) \/ DeleteCallFails(w)
  BY <1>1, <1>2, <1>10
  DEF StatusCallFails, RecordCallFails, DeleteCallFails, Goto, GoWith
<1>. QED
  BY <1>4, <1>5, <1>6, <1>7, <1>8, <1>9, <1>10
  DEF Work, StatusCallBlind, DeleteCallBlind, MayRaise

(* The document a worker works on is searchable only when INDEXED. *)
LEMMA WorkGate ==
  ASSUME GateInv, NEW w \in Worker, Work(w)
  PROVE  GateClosed'
<1>. SUFFICES ASSUME NEW d \in Doc, rec'[d].status # "indexed"
              PROVE  Searchable(d)' = {}
  BY DEF GateClosed
<1>1. /\ TypeInv /\ Claim(w) /\ Sight(w) /\ GateClosed
      /\ rec \in [Doc -> Record]
  BY DEF GateInv, ClaimInv, TypeInv, TypeOK
<1>2. CASE rec[d].status # "indexed" /\ ~RevealOne(w)
  BY <1>1, <1>2, SearchableShrinks DEF GateClosed
<1>3. CASE RevealOne(w)
  <2>1. rec'[d] = rec[d] /\ (d = job[w].doc => rec[d].status = "indexed")
    BY <1>1, <1>3 DEF RevealOne, Claim
  <2>. QED  BY <1>1, <2>1, SearchableShrinks DEF GateClosed
<1>4. CASE rec[d].status = "indexed" /\ ~RevealOne(w)
  <2>1. rec'[d] # rec[d]
    BY <1>4
  <2>2. d = job[w].doc
    BY <1>1, <2>1, OwnRecordOnly
  <2>3. pc[w] \notin Rewriting \cup {"insert"}
    BY <1>1, <1>4, <2>2 DEF Claim
  <2>4. BeginReindex(w) \/ MarkDeleted(w)
    BY <2>1, <2>3
    DEF Work, Lookup, CheckFree, InsertRecord, ReadRecord, FetchIds, HideOne, RevealOne,
        Build, InsertSlice, Compensate, DropStale, CountChunks, RecallVersion,
        MarkIndexed, RestorePrior, MarkFailed, DeleteChunks, BuildFails, InsertFails,
        CompensateFails, DropStaleFails, CountFails, StatusCallFails, RecordCallFails,
        DeleteCallFails, StatusCallBlind, DeleteCallBlind, stores, Rewriting
  <2>5. Searchable(d) = {}
    BY <1>1, <2>2, <2>4 DEF BeginReindex, MarkDeleted, Sight
  <2>. QED  BY <1>4, <2>5, SearchableShrinks
<1>. QED  BY <1>2, <1>3, <1>4

LEMMA CallGate ==
  ASSUME GateInv, NEW w \in Worker, Call(w)
  PROVE  GateClosed' /\ \A u \in Worker : Sight(u)'
<1>1. PICK d \in Doc, c \in Content \cup {None}, step \in {"lookup", "read"}, kind \in Kinds :
         Enter(w, kind, d, c, step)
  BY CallMoves DEF GateInv, ClaimInv
<1>2. /\ pc'[w] = step /\ \A u \in Worker \ {w} : pc'[u] = pc[u] /\ job'[u] = job[u]
      /\ UNCHANGED <<rec, held, visible, batch>>
  BY <1>1 DEF Enter, GoWith, stores, GateInv, ClaimInv, TypeInv, TypeOK
<1>. QED  BY <1>2 DEF GateInv, GateClosed, Sight, Searchable

LEMMA NextGate ==
  Serialized /\ "tenants" \notin Faults /\ GateInv /\ [Next]_vars => GateInv'
<1>. SUFFICES ASSUME Serialized, "tenants" \notin Faults, GateInv, [Next]_vars
              PROVE  GateInv'
  OBVIOUS
<1>1. ClaimInv' /\ StampedInv'
  BY NextClaims, NextStamped DEF GateInv
<1>2. CASE UNCHANGED vars
  BY <1>1, <1>2 DEF vars, GateInv, Sight, GateClosed, Searchable
<1>3. CASE \E w \in Worker : Work(w)
  BY <1>1, <1>3, OwnSight, OtherSight, WorkGate DEF GateInv
<1>4. CASE \E w \in Worker : Call(w)
  BY <1>1, <1>4, CallGate DEF GateInv
<1>5. CASE Crash
  BY <1>1, <1>5 DEF Crash, GateInv, Sight, GateClosed, Searchable
<1>. QED
  BY <1>2, <1>3, <1>4, <1>5 DEF Next, CallersDone

LEMMA InitGate == Init => GateInv
  BY InitClaims, InitStamped DEF Init, GateInv, Sight, GateClosed, Searchable

(* The gate of the search: with no two operations on one document at once  *)
(* and no tenant listing failing silently, whatever else fails and         *)
(* whenever the process crashes, only an INDEXED document is searchable.   *)
THEOREM GateSafe ==
  ASSUME Serialized, "tenants" \notin Faults
  PROVE  Spec => []GateClosed
<1>1. Spec => []GateInv
  BY InitGate, NextGate, PTL DEF Spec
<1>2. GateInv => GateClosed
  BY DEF GateInv
<1>. QED  BY <1>1, <1>2, PTL

-----------------------------------------------------------------------------
(* Layer 5: what is stored of a document, as long as every failure leaves  *)
(* nothing behind.                                                         *)

(* The failures of the clean kind: splitting and embedding, a slice of an  *)
(* insert (its compensation works), a tenant listing.                      *)
CleanRun == Serialized /\ ~Crashes /\ Faults \subseteq {"build", "insert", "tenants"}

(* S is what a row with these fields stands for: no chunk at all, or one   *)
(* batch in full, of the row's content and version.                        *)
Filled(S, r) ==
    \/ S = {} /\ r.count = 0
    \/ \E o \in OpId : /\ S = {o} \X Part
                       /\ r.count = Cardinality(Part)
                       /\ batch[o].content = r.hash
                       /\ batch[o].version = r.version

(* A document on which no operation has changed anything yet. *)
Calm(d) ==
    /\ rec[d].status # "processing"
    /\ Searchable(d) = ChunksOf(d)
    /\ Filled(ChunksOf(d), rec[d])
    /\ rec[d].status # "indexed" => ChunksOf(d) = {}
    /\ ChunksOf(d) # {} => d \in known

Rows == \A d \in Doc : rec[d].status \notin {"absent", "deleted"} => rec[d].hash \in Content

Own(w) == {job[w].op} \X Part

Writing == {"write", "undo", "drop"}

(* The chunks an operation found, which its own are to replace. *)
Former(w, d) == IF pc[w] \in Writing THEN job[w].ids ELSE ChunksOf(d)

(* Which operations take which steps, and with what they started. *)
Task(w) ==
    LET j == job[w] IN
    /\ pc[w] \in {"lookup", "check", "insert", "recall", "fail", "scrub"} => j.kind = "create"
    /\ pc[w] \in {"unpublish", "hide", "begin", "restore"} => j.kind = "update"
    /\ pc[w] \in {"build", "commit"} \cup Writing \cup {"count"} => j.kind # "delete"
    /\ pc[w] \in {"purge", "tomb"} => j.kind = "delete"
    /\ pc[w] = "read" => j.kind # "create"
    /\ Active(w) /\ j.kind # "delete" => j.content \in Content
    /\ Active(w) /\ j.kind = "create" => j.ver = 1
    /\ pc[w] \in Rewriting /\ j.kind = "create" => rec[j.doc].version = 1
    /\ pc[w] \in {"unpublish", "hide", "begin"} => j.prior = rec[j.doc]
    /\ pc[w] \in {"unpublish", "hide", "begin"} \cup Rewriting /\ j.kind = "update" =>
          j.prior.hash \in Content

(* What an operation finds stored of its document at each of its steps. *)
StoredAt(w, d) ==
    LET j == job[w]
        chunks == ChunksOf(d)
        former == Former(w, d)
    IN
    /\ pc[w] \in {"lookup", "check", "insert", "read", "unpublish", "purge"} => Calm(d)
    /\ pc[w] \in {"begin", "tomb", "publish", "scrub"} \cup Rewriting => Searchable(d) = {}
    /\ pc[w] = "hide" =>
          /\ j.ids # {} /\ j.ids \subseteq chunks /\ Searchable(d) \subseteq j.ids
    /\ pc[w] \in {"hide", "begin"} => Filled(chunks, j.prior)
    /\ pc[w] \in {"build", "restore"} \cup Writing =>
          IF j.kind = "create" THEN former = {} ELSE Filled(former, j.prior)
    /\ pc[w] \in Writing =>
          /\ former \subseteq chunks /\ chunks \subseteq former \cup Own(w)
          /\ former \cap Own(w) = {}
    /\ pc[w] = "write" => chunks = former \cup ({j.op} \X (Part \ j.todo))
    /\ pc[w] = "drop" => chunks = former \cup Own(w)
    /\ pc[w] \in {"count", "recall", "commit"} => chunks = Own(w) /\ d \in known
    /\ pc[w] \in {"write", "drop", "count", "recall", "commit"} =>
          batch[j.op] = [doc |-> d, content |-> j.content, version |-> j.ver]
    /\ pc[w] \in {"fail", "scrub", "tomb"} => chunks = {}
    /\ pc[w] = "scrub" => rec[d].status = "failed" /\ rec[d].count = 0
    /\ pc[w] \in {"publish", "reveal"} => Filled(chunks, rec[d])
    /\ pc[w] = "reveal" =>
          j.ids # {} /\ j.ids \subseteq chunks /\ chunks \ j.ids \subseteq Searchable(d)
    /\ former # {} => d \in known

Stored(w) == \A d \in Doc : Active(w) /\ d = job[w].doc => StoredAt(w, d)

RestInv ==
    /\ StampedInv
    /\ ClaimInv
    /\ Rows
    /\ \A w \in Worker : Task(w)
    /\ \A w \in Worker : Stored(w)
    /\ \A d \in Doc : (\A w \in Worker : Active(w) => job[w].doc # d) => Calm(d)

-----------------------------------------------------------------------------
(* What a call on a store does to the chunks of a document.                *)

LEMMA ChunksShrink ==
  ASSUME NEW S, DeleteObjects(S), UNCHANGED batch, NEW d \in Doc
  PROVE  ChunksOf(d)' = ChunksOf(d) \ S /\ Searchable(d)' = Searchable(d) \ S
  BY DEF DeleteObjects, ChunksOf, Searchable

LEMMA ChunksSame ==
  ASSUME UNCHANGED <<held, visible, batch>>, NEW d \in Doc
  PROVE  ChunksOf(d)' = ChunksOf(d) /\ Searchable(d)' = Searchable(d)
  BY DEF ChunksOf, Searchable

LEMMA ChunksSub ==
  ASSUME StampedInv, NEW d \in Doc
  PROVE  /\ ChunksOf(d) \subseteq held /\ Searchable(d) \subseteq ChunksOf(d)
         /\ \A i \in ChunksOf(d) : i \in ChunkId /\ i[1] \in OpId /\ batch[i[1]].doc = d
  BY DEF StampedInv, TypeInv, TypeOK, ChunksOf, Searchable, ChunkId

(* The chunks of the operation's own number, all of its own document. *)
LEMMA OwnChunks ==
  ASSUME StampedInv, NEW w \in Worker, Active(w), batch[job[w].op].doc = job[w].doc,
         NEW i \in held, i \in Own(w)
  PROVE  i \in ChunksOf(job[w].doc)
  BY DEF ChunksOf, Own

(* Chunks appear in the store under the stamp their operation has made. *)
LEMMA ChunksGrow ==
  ASSUME StampedInv, NEW w \in Worker, Active(w), batch[job[w].op].doc = job[w].doc,
         NEW S \in SUBSET Part, held' = held \cup ({job[w].op} \X S),
         UNCHANGED <<visible, batch>>, NEW d \in Doc
  PROVE  /\ Searchable(d)' = Searchable(d)
         /\ d = job[w].doc => ChunksOf(d)' = ChunksOf(d) \cup ({job[w].op} \X S)
         /\ d # job[w].doc => ChunksOf(d)' = ChunksOf(d)
<1>1. Searchable(d)' = Searchable(d)
  BY DEF Searchable
<1>2. \A i \in {job[w].op} \X S : i[1] = job[w].op
  OBVIOUS
<1>. QED  BY <1>1, <1>2 DEF ChunksOf

(* A new stamp is on no stored chunk yet. *)
LEMMA ChunksStamped ==
  ASSUME StampedInv, NEW w \in Worker, Work(w), Build(w), NEW d \in Doc
  PROVE  ChunksOf(d)' = ChunksOf(d) /\ Searchable(d)' = Searchable(d)
<1>1. held' = held /\ visible' = visible /\ visible \subseteq held
  BY DEF Build, stores, StampedInv, TypeInv, TypeOK
<1>2. \A i \in held : batch'[i[1]] = batch[i[1]]
  BY HeldStamped, StampsKept
<1>. QED  BY <1>1, <1>2 DEF ChunksOf, Searchable

(* No other document's chunks, record or tenant changes. *)
LEMMA Elsewhere ==
  ASSUME RestInv, NEW w \in Worker, Work(w), NEW d \in Doc, d # job[w].doc
  PROVE  /\ ChunksOf(d)' = ChunksOf(d) /\ Searchable(d)' = Searchable(d)
         /\ rec'[d] = rec[d] /\ (d \in known' <=> d \in known)
<1>1. /\ StampedInv /\ TypeInv /\ Active(w) /\ job[w] \in Job /\ job[w].doc \in Doc
      /\ Stored(w)
  BY WorkStep, OwnRecord DEF RestInv, StampedInv
<1>2. rec'[d] = rec[d]
  BY <1>1, OwnRecordOnly
<1>3. d \in known' <=> d \in known
  BY <1>1
  DEF Work, Lookup, CheckFree, InsertRecord, ReadRecord, FetchIds, HideOne, RevealOne,
      BeginReindex, Build, InsertSlice, Compensate, DropStale, CountChunks, RecallVersion,
      MarkIndexed, RestorePrior, MarkFailed, DeleteChunks, MarkDeleted, BuildFails,
      InsertFails, CompensateFails, DropStaleFails, CountFails, StatusCallFails,
      RecordCallFails, DeleteCallFails, StatusCallBlind, DeleteCallBlind, stores
<1>4. PICK e \in Doc : e = job[w].doc
  BY <1>1
<1>5. StoredAt(w, e)
  BY <1>1, <1>4 DEF Stored
<1>6. CASE Compensate(w) \/ CompensateFails(w)
  <2>1. PICK S \in SUBSET ({job[w].op} \X Part) : DeleteObjects(S) /\ UNCHANGED batch
    BY <1>6 DEF Compensate, CompensateFails, DeleteSome
  <2>2. batch[job[w].op].doc = e
    BY <1>1, <1>4, <1>6 DEF Compensate, CompensateFails, StampedInv, StampInv
  <2>3. \A i \in S : i \notin ChunksOf(d)
    BY <1>4, <2>2 DEF ChunksOf
  <2>4. \A i \in S : i \notin Searchable(d)
    BY <1>4, <2>2 DEF Searchable
  <2>5. ChunksOf(d) \ S = ChunksOf(d) /\ Searchable(d) \ S = Searchable(d)
    BY <2>3, <2>4
  <2>6. ChunksOf(d)' = ChunksOf(d) \ S /\ Searchable(d)' = Searchable(d) \ S
    BY <2>1, ChunksShrink
  <2>. QED  BY <1>2, <1>3, <2>5, <2>6
<1>7. CASE DropStale(w) \/ DropStaleFails(w) \/ DeleteChunks(w) \/ DeleteCallFails(w)
  <2>1. PICK S \in SUBSET ChunksOf(e) : DeleteObjects(S) /\ UNCHANGED batch
    <3>1. CASE DropStale(w) \/ DropStaleFails(w)
      <4>1. job[w].ids \subseteq ChunksOf(e)
        BY <1>5, <3>1 DEF DropStale, DropStaleFails, StoredAt, Former, Writing
      <4>. QED  BY <3>1, <4>1 DEF DropStale, DropStaleFails, DeleteSome
    <3>. QED  BY <1>4, <1>7, <3>1 DEF DeleteChunks, DeleteCallFails, DeleteSome
  <2>2. \A i \in S : i \notin ChunksOf(d) /\ i \notin Searchable(d)
    BY <1>1, <1>4, <2>1, ChunksSub
  <2>3. ChunksOf(d) \ S = ChunksOf(d) /\ Searchable(d) \ S = Searchable(d)
    BY <2>2
  <2>4. ChunksOf(d)' = ChunksOf(d) \ S /\ Searchable(d)' = Searchable(d) \ S
    BY <2>1, ChunksShrink
  <2>. QED  BY <1>2, <1>3, <2>3, <2>4
<1>8. CASE InsertSlice(w) \/ InsertFails(w)
  <2>1. PICK S \in SUBSET Part : held' = held \cup ({job[w].op} \X S)
    BY <1>1, <1>8 DEF InsertSlice, InsertFails, Job
  <2>2. batch[job[w].op].doc = job[w].doc /\ UNCHANGED <<visible, batch>>
    BY <1>1, <1>8 DEF InsertSlice, InsertFails, StampedInv, StampInv
  <2>. QED  BY <1>1, <1>2, <1>3, <2>1, <2>2, ChunksGrow
<1>9. CASE Build(w)
  BY <1>1, <1>2, <1>3, <1>9, ChunksStamped
<1>10. CASE HideOne(w) \/ RevealOne(w)
  <2>1. PICK i \in ChunksOf(e) : held' = held /\ batch' = batch
             /\ (visible' = visible \ {i} \/ visible' = visible \cup ({i} \cap held))
    BY <1>5, <1>10 DEF HideOne, RevealOne, StoredAt
  <2>2. batch[i[1]].doc = e
    BY <1>1, <2>1, ChunksSub
  <2>. QED  BY <1>2, <1>3, <1>4, <2>1, <2>2 DEF ChunksOf, Searchable
<1>11. CASE UNCHANGED <<held, visible, batch>>
  BY <1>2, <1>3, <1>11, ChunksSame
<1>. QED
  BY <1>6, <1>7, <1>8, <1>9, <1>10, <1>11
  DEF Work, Lookup, CheckFree, InsertRecord, ReadRecord, FetchIds, BeginReindex,
      CountChunks, RecallVersion, MarkIndexed, RestorePrior, MarkFailed, MarkDeleted,
      BuildFails, CountFails, StatusCallFails, RecordCallFails, StatusCallBlind,
      DeleteCallBlind, stores

(* What is stored in full stays so: its batch is not stamped again. *)
LEMMA FilledKept ==
  ASSUME StampedInv, NEW w \in Worker, Work(w), NEW S \in SUBSET held, NEW r,
         Filled(S, r)
  PROVE  Filled(S, r)'
<1>1. CASE S = {} /\ r.count = 0
  BY <1>1 DEF Filled
<1>2. ASSUME NEW o \in OpId, S = {o} \X Part, r.count = Cardinality(Part),
             batch[o].content = r.hash, batch[o].version = r.version
      PROVE  Filled(S, r)'
  <2>1. CASE Part = {}
    BY <1>2, <2>1, FS_EmptySet DEF Filled
  <2>2. CASE Part # {}
    <3>1. PICK p \in Part : <<o, p>> \in held
      BY <1>2, <2>2
    <3>2. batch[o].doc # None
      BY <3>1, HeldStamped
    <3>3. batch'[o] = batch[o]
      BY <3>2, StampsKept
    <3>. QED  BY <1>2, <3>3 DEF Filled
  <2>. QED  BY <2>1, <2>2
<1>. QED  BY <1>1, <1>2 DEF Filled

(* A document no operation changes stays as it is. *)
LEMMA CalmKept ==
  ASSUME StampedInv, NEW w \in Worker, Work(w), NEW d \in Doc, Calm(d),
         ChunksOf(d)' = ChunksOf(d), Searchable(d)' = Searchable(d),
         rec'[d] = rec[d], d \in known => d \in known'
  PROVE  Calm(d)'
<1>1. PICK S, r : S = ChunksOf(d) /\ r = rec[d]
  OBVIOUS
<1>2. S \in SUBSET held /\ Filled(S, r)
  BY <1>1, ChunksSub DEF Calm
<1>3. Filled(S, r)'
  BY <1>2, FilledKept
<1>. QED  BY <1>1, <1>3 DEF Calm, Filled

-----------------------------------------------------------------------------
(* The other operations, the start of one, and documents left alone.       *)

LEMMA OtherStored ==
  ASSUME RestInv, NEW w \in Worker, Work(w), NEW u \in Worker, u # w
  PROVE  Task(u)' /\ Stored(u)'
<1>1. /\ pc'[u] = pc[u] /\ job'[u] = job[u] /\ Active(w)
      /\ StampedInv /\ TypeInv /\ Separate /\ Numbered /\ Task(u) /\ Stored(u)
  BY WorkStep DEF RestInv, StampedInv, ClaimInv
<1>2. CASE ~Active(u)
  BY <1>1, <1>2 DEF Task, Stored, Writing, Rewriting
<1>3. CASE Active(u)
  <2>1. PICK d \in Doc : d = job[u].doc
    BY <1>1, <1>3, OwnRecord
  <2>2. d # job[w].doc /\ job[u] \in Job /\ job[u].op \in OpId /\ job[u].op # job[w].op
    BY <1>1, <1>3, <2>1, OwnRecord DEF Separate
  <2>3. /\ ChunksOf(d)' = ChunksOf(d) /\ Searchable(d)' = Searchable(d)
        /\ rec'[d] = rec[d] /\ (d \in known' <=> d \in known)
    BY <2>2, Elsewhere
  <2>4. Task(u)'
    BY <1>1, <1>3, <2>1, <2>3 DEF Task
  <2>5. batch'[job[u].op] = batch[job[u].op]
    BY <1>1, <2>2, StampsKept
  <2>6. StoredAt(u, d)
    BY <1>1, <1>3, <2>1 DEF Stored
  <2>7. Calm(d) => Calm(d)'
    BY <1>1, <2>3, CalmKept
  <2>8. \A S \in SUBSET held : \A r : Filled(S, r) => Filled(S, r)'
    BY <1>1, FilledKept
  <2>9. ChunksOf(d) \in SUBSET held
    BY <1>1, ChunksSub
  <2>10. Former(u, d)' = Former(u, d) /\ Own(u)' = Own(u)
    BY <1>1, <2>3 DEF Former, Own
  <2>11. PICK S, T, r, p : S = ChunksOf(d) /\ T = Former(u, d) /\ r = rec[d] /\ p = job[u].prior
    OBVIOUS
  <2>12. pc[u] \in Writing => T \in SUBSET held
    BY <2>6, <2>9, <2>11 DEF StoredAt
  <2>13. pc[u] \notin Writing => T \in SUBSET held
    BY <2>9, <2>11 DEF Former
  <2>14. /\ Filled(S, r) => Filled(S, r)'
         /\ Filled(S, p) => Filled(S, p)'
         /\ Filled(T, p) => Filled(T, p)'
    BY <2>8, <2>9, <2>11, <2>12, <2>13
  <2>15. /\ Filled(ChunksOf(d), rec[d]) => Filled(ChunksOf(d), rec[d])'
         /\ Filled(ChunksOf(d), job[u].prior) => Filled(ChunksOf(d), job[u].prior)'
         /\ Filled(Former(u, d), job[u].prior) => Filled(Former(u, d), job[u].prior)'
    BY <1>1, <2>3, <2>10, <2>11, <2>14 DEF Filled
  <2>16. StoredAt(u, d)'
    BY <1>1, <2>3, <2>5, <2>6, <2>7, <2>10, <2>15 DEF StoredAt
  <2>17. Stored(u)'
    BY <1>1, <2>1, <2>16 DEF Stored
  <2>. QED  BY <2>4, <2>17
<1>. QED  BY <1>2, <1>3

(* Where the operations of a run that fails cleanly fail. *)
LEMMA CleanWork ==
  ASSUME CleanRun, NEW w \in Worker, Work(w)
  PROVE  \/ Lookup(w) \/ CheckFree(w) \/ ReadRecord(w) \/ FetchIds(w) \/ StatusCallBlind(w)
            \/ BuildFails(w) \/ CountChunks(w) \/ RecallVersion(w)
         \/ InsertRecord(w) \/ BeginReindex(w) \/ MarkIndexed(w) \/ RestorePrior(w)
            \/ MarkFailed(w) \/ MarkDeleted(w)
         \/ HideOne(w) \/ RevealOne(w)
         \/ Build(w) \/ InsertSlice(w) \/ InsertFails(w)
         \/ Compensate(w) \/ DropStale(w) \/ DeleteChunks(w) \/ DeleteCallBlind(w)
  BY DEF Work, CompensateFails, DropStaleFails, CountFails, StatusCallFails,
         RecordCallFails, DeleteCallFails, MayRaise, CleanRun

LEMMA CallRest ==
  ASSUME CleanRun, RestInv, NEW w \in Worker, Call(w)
  PROVE  /\ Rows' /\ \A u \in Worker : Task(u)' /\ Stored(u)'
         /\ \A d \in Doc : (\A u \in Worker : pc'[u] # "idle" => job'[u].doc # d) => Calm(d)'
<1>1. PICK d \in Doc, c \in Content \cup {None}, step \in {"lookup", "read"}, kind \in Operations :
         /\ Enter(w, kind, d, c, step)
         /\ kind # "delete" => c \in Content
         /\ step = IF kind = "create" THEN "lookup" ELSE "read"
  BY DEF Call, CreateDocument, UpdateDocument, DeleteDocument, Enter, Operations
<1>2. /\ TypeInv /\ StampedInv /\ issued + 1 \in 0..MaxOps /\ ~Active(w)
  BY <1>1, LifecycleAssumption DEF RestInv, StampedInv, TypeInv, TypeOK, Enter
<1>3. /\ pc'[w] = step /\ job'[w] = NewJob(kind, d, c, issued + 1)
      /\ \A u \in Worker \ {w} : pc'[u] = pc[u] /\ job'[u] = job[u]
      /\ UNCHANGED <<rec, held, visible, known, batch>>
  BY <1>1, <1>2 DEF Enter, GoWith, stores, TypeInv, TypeOK
<1>4. /\ job'[w].kind = kind /\ job'[w].doc = d /\ job'[w].content = c /\ job'[w].ver = 1
  BY <1>3 DEF NewJob
<1>5. Rows'
  BY <1>3 DEF RestInv, Rows
<1>6. \A e \in Doc : Calm(e)' <=> Calm(e)
  BY <1>3 DEF Calm, Filled, ChunksOf, Searchable
<1>7. \A u \in Worker : Active(u) => job[u].doc # d
  BY <1>1 DEF Enter, CleanRun
<1>8. Calm(d)
  BY <1>7 DEF RestInv
<1>9. ASSUME NEW u \in Worker, u # w
      PROVE  Task(u)' /\ Stored(u)'
  <2>1. Task(u) /\ Stored(u) /\ pc'[u] = pc[u] /\ job'[u] = job[u]
    BY <1>3, <1>9 DEF RestInv
  <2>2. Task(u)'
    BY <1>3, <2>1 DEF Task
  <2>3. Stored(u)'
    BY <1>3, <1>6, <2>1
    DEF Stored, StoredAt, Former, Own, Filled, ChunksOf, Searchable
  <2>. QED  BY <2>2, <2>3
<1>10. Task(w)'
  BY <1>1, <1>3, <1>4 DEF Task, Writing, Rewriting
<1>11. Stored(w)'
  <2>. SUFFICES ASSUME NEW e \in Doc, e = job'[w].doc  PROVE StoredAt(w, e)'
    BY DEF Stored
  <2>1. e = d /\ Calm(e)'
    BY <1>4, <1>6, <1>8
  <2>. QED  BY <1>3, <2>1 DEF StoredAt, Former, Calm, Writing, Rewriting
<1>12. ASSUME NEW e \in Doc, \A u \in Worker : pc'[u] # "idle" => job'[u].doc # e
       PROVE  Calm(e)'
  <2>1. \A u \in Worker : Active(u) => job[u].doc # e
    BY <1>2, <1>3, <1>12
  <2>. QED  BY <1>6, <2>1 DEF RestInv
<1>. QED  BY <1>5, <1>9, <1>10, <1>11, <1>12

-----------------------------------------------------------------------------
(* The operation itself: its next step finds what Stored says, and its     *)
(* last one leaves the document calm.                                      *)

LEMMA Mine ==
  ASSUME RestInv, NEW w \in Worker, Work(w)
  PROVE  /\ StampedInv /\ TypeInv /\ Active(w) /\ Claim(w) /\ Task(w) /\ Rows
         /\ pc \in [Worker -> Steps] /\ job \in [Worker -> Job] /\ rec \in [Doc -> Record]
         /\ job[w] \in Job /\ job[w].op \in OpId
         /\ \E d \in Doc : d = job[w].doc /\ StoredAt(w, d)
  BY OwnRecord, WorkStep DEF RestInv, StampedInv, ClaimInv, TypeInv, TypeOK, Stored

(* Where the operation leaves its document. *)
Left(w, d) ==
    /\ Task(w)
    /\ Active(w) => StoredAt(w, d)
    /\ ~Active(w) => Calm(d)

LEMMA ReadsRest ==
  ASSUME RestInv, NEW w \in Worker, Work(w), NEW d \in Doc, d = job[w].doc,
         Lookup(w) \/ CheckFree(w) \/ ReadRecord(w)
  PROVE  Left(w, d)'
<1>1. /\ Claim(w) /\ Task(w) /\ StoredAt(w, d) /\ Rows
      /\ pc \in [Worker -> Steps] /\ job \in [Worker -> Job] /\ job[w] \in Job
  BY Mine
<1>2. UNCHANGED <<rec, held, visible, known, batch>>
  BY DEF Lookup, CheckFree, ReadRecord, stores
<1>3. Calm(d)' <=> Calm(d)
  BY <1>2 DEF Calm, Filled, ChunksOf, Searchable
<1>4. Calm(d)'
  BY <1>1, <1>3 DEF Lookup, CheckFree, ReadRecord, StoredAt
<1>5. CASE Lookup(w) \/ CheckFree(w)
  <2>1. /\ pc[w] \in {"lookup", "check"} /\ pc'[w] \in {"idle", "check", "insert"}
        /\ pc'[w] # "idle" => job'[w] = job[w]
    BY <1>1, <1>5 DEF Lookup, CheckFree, Goto, GoWith
  <2>2. Task(w)'
    BY <1>1, <2>1 DEF Task, Writing, Rewriting
  <2>. QED  BY <1>4, <2>1, <2>2 DEF Left, StoredAt, Former, Calm, Writing, Rewriting
<1>6. CASE ReadRecord(w)
  <2>. DEFINE r == rec[d]
              j == [job[w] EXCEPT !.prior = r, !.ver = r.version + 1]
  <2>1. /\ pc[w] = "read" /\ pc'[w] \in {"idle", "unpublish", "purge"}
        /\ pc'[w] # "idle" => /\ r.status \notin {"absent", "deleted"} /\ job'[w] = j
                              /\ pc'[w] = IF job[w].kind = "update" THEN "unpublish" ELSE "purge"
    BY <1>1, <1>6 DEF ReadRecord, Goto, GoWith
  <2>2. /\ j.kind = job[w].kind /\ j.doc = d /\ j.content = job[w].content
        /\ j.prior = r
    BY <1>1 DEF Job
  <2>3. Task(w)'
    BY <1>1, <1>2, <2>1, <2>2 DEF Task, Rows, Writing, Rewriting, Job, Operations
  <2>. QED  BY <1>4, <2>1, <2>3 DEF Left, StoredAt, Former, Calm, Writing, Rewriting
<1>. QED  BY <1>5, <1>6

LEMMA FetchRest ==
  ASSUME RestInv, NEW w \in Worker, Work(w), NEW d \in Doc, d = job[w].doc,
         FetchIds(w) \/ StatusCallBlind(w)
  PROVE  Left(w, d)'
<1>1. /\ Claim(w) /\ Task(w) /\ StoredAt(w, d)
      /\ pc \in [Worker -> Steps] /\ job \in [Worker -> Job] /\ job[w] \in Job
  BY Mine
<1>2. UNCHANGED <<rec, held, visible, known, batch>>
  BY DEF FetchIds, StatusCallBlind, stores
<1>3. ChunksOf(d)' = ChunksOf(d) /\ Searchable(d)' = Searchable(d)
  BY <1>2, ChunksSame
<1>4. Filled(ChunksOf(d), rec[d])' <=> Filled(ChunksOf(d), rec[d])
  BY <1>2, <1>3 DEF Filled
<1>5. pc[w] \in {"unpublish", "publish"}
  BY DEF FetchIds, StatusCallBlind
<1>6. Filled(ChunksOf(d), rec[d])'
  BY <1>1, <1>4, <1>5 DEF StoredAt, Calm
<1>7. StatusCallBlind(w) => ChunksOf(d) = {}
  BY <1>1, <1>5 DEF StoredAt, Calm, Former, Writing, StatusCallBlind
<1>8. CASE pc'[w] = "idle"
  <2>1. pc[w] = "publish" /\ ChunksOf(d) = {}
    BY <1>1, <1>7, <1>8 DEF FetchIds, StatusCallBlind, Goto, GoWith
  <2>2. rec[d].status = "indexed" /\ Searchable(d) = {}
    BY <1>1, <2>1 DEF Claim, StoredAt
  <2>3. Calm(d)'
    BY <1>2, <1>3, <1>6, <2>1, <2>2 DEF Calm
  <2>. QED  BY <1>8, <2>3 DEF Left, Task, Writing, Rewriting
<1>9. CASE pc'[w] # "idle"
  <2>1. /\ job'[w].kind = job[w].kind /\ job'[w].doc = d /\ job'[w].content = job[w].content
        /\ job'[w].prior = job[w].prior /\ job'[w].ver = job[w].ver
        /\ FetchIds(w) => job'[w].ids = ChunksOf(d)
    BY <1>1, <1>9 DEF FetchIds, StatusCallBlind, Goto, GoWith, Job
  <2>2. /\ pc[w] = "unpublish" => /\ pc'[w] \in {"begin", "hide"}
                                  /\ pc'[w] = "begin" => ChunksOf(d) = {}
                                  /\ pc'[w] = "hide" => FetchIds(w) /\ ChunksOf(d) # {}
        /\ pc[w] = "publish" => pc'[w] = "reveal" /\ FetchIds(w) /\ ChunksOf(d) # {}
    BY <1>1, <1>7, <1>9 DEF FetchIds, StatusCallBlind, Goto, GoWith
  <2>3. Task(w)'
    BY <1>1, <1>2, <1>5, <2>1, <2>2 DEF Task, Writing, Rewriting
  <2>4. CASE pc[w] = "unpublish"
    <3>1. Calm(d) /\ rec[d] = job[w].prior
      BY <1>1, <2>4 DEF StoredAt, Task
    <3>2. Filled(ChunksOf(d), job[w].prior)'
      BY <1>2, <1>6, <2>1, <3>1 DEF Filled
    <3>3. Searchable(d) = ChunksOf(d) /\ (ChunksOf(d) # {} => d \in known)
      BY <3>1 DEF Calm
    <3>4. StoredAt(w, d)'
      BY <1>2, <1>3, <2>1, <2>2, <2>4, <3>2, <3>3 DEF StoredAt, Former, Writing, Rewriting
    <3>. QED  BY <1>9, <2>3, <3>4 DEF Left
  <2>5. CASE pc[w] = "publish"
    <3>1. ChunksOf(d) # {} => d \in known
      BY <1>1, <2>5 DEF StoredAt, Former, Writing
    <3>2. StoredAt(w, d)'
      BY <1>2, <1>3, <1>6, <2>1, <2>2, <2>5, <3>1 DEF StoredAt, Former, Writing, Rewriting
    <3>. QED  BY <1>9, <2>3, <3>2 DEF Left
  <2>. QED  BY <1>5, <2>4, <2>5
<1>. QED  BY <1>8, <1>9

LEMMA BatchCount ==
  ASSUME NEW o
  PROVE  Cardinality({o} \X Part) = Cardinality(Part)
<1>1. IsFiniteSet({o}) /\ Cardinality({o}) = 1
  BY FS_Singleton
<1>2. Cardinality({o} \X Part) = Cardinality({o}) * Cardinality(Part)
  BY <1>1, FS_Product, LifecycleAssumption
<1>. QED  BY <1>1, <1>2, PartCount

LEMMA CountOwn ==
  ASSUME RestInv, NEW w \in Worker, Work(w), NEW d \in Doc, d = job[w].doc,
         pc[w] = "count"
  PROVE  ChunksOf(d) = Own(w) /\ Cardinality(ChunksOf(d)) = Cardinality(Part)
<1>1. ChunksOf(d) = {job[w].op} \X Part
  BY Mine DEF StoredAt, Own
<1>. QED  BY <1>1, BatchCount DEF Own

LEMMA BuildFailsRest ==
  ASSUME RestInv, NEW w \in Worker, Work(w), NEW d \in Doc, d = job[w].doc,
         BuildFails(w) \/ CountChunks(w) \/ RecallVersion(w)
  PROVE  Left(w, d)'
<1>1. /\ Claim(w) /\ Task(w) /\ StoredAt(w, d)
      /\ pc \in [Worker -> Steps] /\ job \in [Worker -> Job] /\ job[w] \in Job
  BY Mine
<1>2. UNCHANGED <<rec, held, visible, known, batch>>
  BY DEF BuildFails, CountChunks, RecallVersion, stores
<1>3. ChunksOf(d)' = ChunksOf(d) /\ Searchable(d)' = Searchable(d)
  BY <1>2, ChunksSame
<1>4. CASE BuildFails(w)
  <2>1. /\ pc[w] = "build" /\ job'[w] = job[w]
        /\ pc'[w] = IF job[w].kind = "create" THEN "fail" ELSE "restore"
    BY <1>1, <1>4 DEF BuildFails, Abort, Goto, GoWith
  <2>2. job[w].kind \in {"create", "update"}
    BY <1>1, <2>1 DEF Task, Job, Operations
  <2>3. Task(w)'
    BY <1>1, <1>2, <2>1, <2>2 DEF Task, Writing, Rewriting
  <2>4. StoredAt(w, d)'
    <3>1. Former(w, d)' = ChunksOf(d)
      BY <1>3, <2>1 DEF Former, Writing
    <3>2. job[w].kind = "create" => ChunksOf(d) = {}
      BY <1>1, <2>1 DEF StoredAt, Former, Writing
    <3>3. job[w].kind = "update" => Filled(ChunksOf(d), job[w].prior)
      BY <1>1, <2>1 DEF StoredAt, Former, Writing
    <3>4. job[w].kind = "update" => Filled(Former(w, d), job[w].prior)'
      BY <1>2, <2>1, <3>1, <3>3 DEF Filled
    <3>5. Searchable(d) = {} /\ (ChunksOf(d) # {} => d \in known)
      BY <1>1, <2>1 DEF StoredAt, Former, Writing, Rewriting
    <3>. QED  BY <1>2, <1>3, <2>1, <2>2, <3>1, <3>2, <3>4, <3>5 DEF StoredAt, Writing, Rewriting
  <2>. QED  BY <2>1, <2>3, <2>4 DEF Left
<1>5. CASE CountChunks(w) \/ RecallVersion(w)
  <2>1. /\ pc[w] \in {"count", "recall"} /\ pc'[w] \in {"recall", "commit"}
        /\ pc[w] = "count" => job'[w] = job[w]
        /\ pc[w] = "recall" => job'[w] = [job[w] EXCEPT !.ver = rec[d].version]
        /\ pc'[w] = "recall" => job[w].kind = "create"
    BY <1>1, <1>5, CountOwn DEF CountChunks, RecallVersion, Goto, GoWith
  <2>2. pc[w] = "recall" => rec[d].version = job[w].ver
    BY <1>1 DEF Task, Rewriting
  <2>3. job'[w] = job[w]
    BY <1>1, <2>1, <2>2 DEF Job
  <2>4. Task(w)'
    BY <1>1, <1>2, <2>1, <2>3 DEF Task, Writing, Rewriting
  <2>5. StoredAt(w, d)'
    BY <1>1, <1>2, <1>3, <2>1, <2>3 DEF StoredAt, Former, Own, Writing, Rewriting
  <2>. QED  BY <2>1, <2>4, <2>5 DEF Left
<1>. QED  BY <1>4, <1>5

LEMMA RowsKept ==
  ASSUME RestInv, CleanRun, NEW w \in Worker, Work(w)
  PROVE  Rows'
<1>1. /\ Task(w) /\ Claim(w) /\ Rows /\ TypeInv /\ rec \in [Doc -> Record] /\ job[w] \in Job
      /\ Active(w)
  BY Mine
<1>2. PICK d \in Doc : d = job[w].doc
  BY <1>1, OwnRecord
<1>3. CASE UNCHANGED rec
  BY <1>1, <1>3 DEF Rows
<1>4. CASE InsertRecord(w) \/ BeginReindex(w) \/ MarkIndexed(w)
  <2>1. job[w].kind # "delete"
    BY <1>1, <1>4 DEF InsertRecord, BeginReindex, MarkIndexed, Task
  <2>2. job[w].content \in Content
    BY <1>1, <2>1 DEF Task
  <2>3. CASE InsertRecord(w) \/ MarkIndexed(w)
    BY <1>1, <1>2, <2>2, <2>3, OwnRecordOnly DEF InsertRecord, MarkIndexed, SetRecord, Rows
  <2>4. CASE BeginReindex(w)
    <3>1. rec'[d] = [rec[d] EXCEPT !.status = "processing", !.hash = job[w].content]
      BY <1>1, <1>2, <2>4 DEF BeginReindex, SetRecord
    <3>2. rec'[d].hash = job[w].content
      BY <1>1, <3>1 DEF Record
    <3>. QED  BY <1>1, <1>2, <2>2, <3>2, OwnRecordOnly DEF Rows
  <2>. QED  BY <1>4, <2>3, <2>4
<1>5. CASE RestorePrior(w)
  <2>1. rec'[d].hash = job[w].prior.hash /\ job[w].prior.hash \in Content
    BY <1>1, <1>2, <1>5 DEF RestorePrior, SetRecord, Task, Rewriting, Record, Job
  <2>. QED  BY <1>1, <1>2, <2>1, OwnRecordOnly DEF Rows
<1>6. CASE MarkFailed(w) \/ MarkDeleted(w)
  <2>1. rec[d].status = "processing" \/ rec'[d].status = "deleted"
    <3>1. CASE MarkFailed(w)
      BY <1>1, <1>2, <3>1 DEF MarkFailed, Claim, Rewriting
    <3>2. CASE MarkDeleted(w)
      BY <1>1, <1>2, <3>2 DEF MarkDeleted, SetRecord, Record
    <3>. QED  BY <1>6, <3>1, <3>2
  <2>2. rec'[d].hash = rec[d].hash
    BY <1>1, <1>2, <1>6 DEF MarkFailed, MarkDeleted, SetRecord, Record
  <2>3. rec'[d].status = "deleted" \/ rec'[d].hash \in Content
    BY <1>1, <2>1, <2>2 DEF Rows
  <2>. QED  BY <1>1, <1>2, <2>3, OwnRecordOnly DEF Rows
<1>. QED
  BY <1>3, <1>4, <1>5, <1>6, CleanWork
  DEF Lookup, CheckFree, ReadRecord, FetchIds, HideOne, RevealOne, Build, InsertSlice,
      Compensate, DropStale, CountChunks, RecallVersion, DeleteChunks, BuildFails,
      InsertFails, StatusCallBlind, DeleteCallBlind, stores

(* A write of the record leaves the chunks as they are. *)
LEMMA RecordRest ==
  ASSUME RestInv, NEW w \in Worker, Work(w), NEW d \in Doc, d = job[w].doc,
         InsertRecord(w) \/ BeginReindex(w) \/ MarkIndexed(w) \/ RestorePrior(w)
            \/ MarkFailed(w) \/ MarkDeleted(w)
  PROVE  Left(w, d)'
<1>1. /\ Claim(w) /\ Task(w) /\ StoredAt(w, d) /\ TypeInv /\ StampedInv
      /\ pc \in [Worker -> Steps] /\ job \in [Worker -> Job] /\ job[w] \in Job
      /\ job[w].op \in OpId /\ rec \in [Doc -> Record]
  BY Mine
<1>2. UNCHANGED <<held, visible, known, batch>>
  BY DEF InsertRecord, BeginReindex, MarkIndexed, RestorePrior, MarkFailed, MarkDeleted
<1>3. ChunksOf(d)' = ChunksOf(d) /\ Searchable(d)' = Searchable(d)
  BY <1>2, ChunksSame
<1>4. PICK S, r, p : S = ChunksOf(d) /\ r = rec'[d] /\ p = job[w].prior
  OBVIOUS
<1>5. \A q : Filled(S, q)' <=> Filled(S, q)
  BY <1>2 DEF Filled
<1>6. pc'[w] # "idle" => job'[w] = job[w]
  BY <1>1
  DEF InsertRecord, BeginReindex, MarkIndexed, RestorePrior, MarkFailed, MarkDeleted,
      Goto, GoWith
<1>7. CASE InsertRecord(w)
  <2>1. /\ pc[w] = "insert" /\ pc'[w] = "build"
        /\ rec'[d] = [status |-> "processing", version |-> 1, hash |-> job[w].content, count |-> 0]
    BY <1>1, <1>7 DEF InsertRecord, SetRecord, Goto, GoWith
  <2>2. ChunksOf(d) = {} /\ Searchable(d) = {}
    BY <1>1, <2>1 DEF StoredAt, Calm, Claim
  <2>3. job[w].kind = "create" /\ job[w].content \in Content /\ job[w].ver = 1
    BY <1>1, <2>1 DEF Task
  <2>4. Task(w)'
    BY <1>1, <1>6, <2>1, <2>3 DEF Task, Writing, Rewriting
  <2>5. StoredAt(w, d)'
    BY <1>3, <1>6, <2>1, <2>2, <2>3 DEF StoredAt, Former, Writing, Rewriting
  <2>. QED  BY <2>1, <2>4, <2>5 DEF Left
<1>8. CASE BeginReindex(w)
  <2>1. pc[w] = "begin" /\ pc'[w] = "build"
    BY <1>1, <1>8 DEF BeginReindex, Goto, GoWith
  <2>2. job[w].kind = "update" /\ Searchable(d) = {} /\ Filled(S, p)
    BY <1>1, <1>4, <2>1 DEF StoredAt, Task, Filled
  <2>3. ChunksOf(d) # {} => d \in known
    BY <1>1, <2>1 DEF StoredAt, Former, Writing
  <2>4. Task(w)'
    BY <1>1, <1>6, <2>1, <2>2 DEF Task, Writing, Rewriting
  <2>5. Filled(Former(w, d), job[w].prior)'
    BY <1>3, <1>4, <1>5, <1>6, <2>1, <2>2 DEF Filled, Former, Writing
  <2>6. StoredAt(w, d)'
    BY <1>2, <1>3, <1>6, <2>1, <2>2, <2>3, <2>5 DEF StoredAt, Former, Writing, Rewriting
  <2>. QED  BY <2>1, <2>4, <2>6 DEF Left
<1>9. CASE MarkIndexed(w) \/ RestorePrior(w)
  <2>1. pc[w] \in {"commit", "restore"} /\ pc'[w] = "publish"
    BY <1>1, <1>9 DEF MarkIndexed, RestorePrior, Goto, GoWith
  <2>2. Searchable(d) = {} /\ (ChunksOf(d) # {} => d \in known)
    BY <1>1, <2>1 DEF StoredAt, Former, Writing, Rewriting
  <2>3. Filled(S, r)
    <3>1. CASE MarkIndexed(w)
      <4>1. /\ S = {job[w].op} \X Part
            /\ batch[job[w].op] = [doc |-> d, content |-> job[w].content, version |-> job[w].ver]
        BY <1>1, <1>4, <3>1 DEF MarkIndexed, StoredAt, Own
      <4>2. r = [status |-> "indexed", version |-> job[w].ver, hash |-> job[w].content,
                 count |-> Cardinality(Part)]
        BY <1>1, <1>4, <3>1 DEF MarkIndexed, SetRecord
      <4>. QED  BY <1>1, <4>1, <4>2 DEF Filled
    <3>2. CASE RestorePrior(w)
      <4>1. job[w].kind = "update"
        BY <1>1, <3>2 DEF RestorePrior, Task
      <4>2. Filled(S, p)
        BY <1>1, <1>4, <3>2, <4>1 DEF RestorePrior, StoredAt, Former, Writing, Filled
      <4>3. r = [p EXCEPT !.status = "indexed"]
        BY <1>1, <1>4, <3>2 DEF RestorePrior, SetRecord
      <4>4. p \in Record
        BY <1>1, <1>4 DEF Job
      <4>5. r.count = p.count /\ r.hash = p.hash /\ r.version = p.version
        BY <4>3, <4>4 DEF Record
      <4>. QED  BY <4>2, <4>5 DEF Filled
    <3>. QED  BY <1>9, <3>1, <3>2
  <2>4. Filled(ChunksOf(d), rec[d])'
    BY <1>3, <1>4, <1>5, <2>3 DEF Filled
  <2>5. Task(w)'
    BY <1>1, <1>6, <2>1 DEF Task, Writing, Rewriting
  <2>6. StoredAt(w, d)'
    BY <1>2, <1>3, <2>1, <2>2, <2>4 DEF StoredAt, Former, Writing, Rewriting
  <2>. QED  BY <2>1, <2>5, <2>6 DEF Left
<1>10. CASE MarkFailed(w) \/ MarkDeleted(w)
  <2>1. /\ pc[w] \in {"fail", "tomb"}
        /\ pc'[w] = IF pc[w] = "fail" THEN "scrub" ELSE "idle"
        /\ rec'[d] = [rec[d] EXCEPT !.status = IF pc[w] = "fail" THEN "failed" ELSE "deleted",
                                    !.count = 0]
    BY <1>1, <1>10 DEF MarkFailed, MarkDeleted, SetRecord, Goto, GoWith
  <2>2. /\ rec'[d].status = (IF pc[w] = "fail" THEN "failed" ELSE "deleted")
        /\ rec'[d].count = 0
    BY <1>1, <2>1 DEF Record
  <2>3. ChunksOf(d) = {} /\ Searchable(d) = {}
    BY <1>1, <2>1 DEF StoredAt, Rewriting
  <2>4. Task(w)'
    BY <1>1, <1>6, <2>1 DEF Task, Writing, Rewriting
  <2>5. CASE pc[w] = "fail"
    <3>1. StoredAt(w, d)'
      BY <1>3, <2>1, <2>2, <2>3, <2>5 DEF StoredAt, Former, Writing, Rewriting
    <3>. QED  BY <2>1, <2>4, <2>5, <3>1 DEF Left
  <2>6. CASE pc[w] = "tomb"
    <3>1. Calm(d)'
      BY <1>3, <2>2, <2>3, <2>6 DEF Calm, Filled
    <3>. QED  BY <2>1, <2>4, <2>6, <3>1 DEF Left
  <2>. QED  BY <2>1, <2>5, <2>6
<1>. QED  BY <1>7, <1>8, <1>9, <1>10

LEMMA HideRest ==
  ASSUME RestInv, NEW w \in Worker, Work(w), NEW d \in Doc, d = job[w].doc, HideOne(w)
  PROVE  Left(w, d)'
<1>1. /\ Task(w) /\ StoredAt(w, d) /\ StampedInv
      /\ pc \in [Worker -> Steps] /\ job \in [Worker -> Job] /\ job[w] \in Job
  BY Mine
<1>2. PICK i \in job[w].ids : visible' = visible \ {i} /\ UpdateOne(w, i, "begin")
  BY DEF HideOne
<1>3. UNCHANGED <<rec, held, known, batch>> /\ pc[w] = "hide"
  BY DEF HideOne
<1>4. /\ job[w].ids \subseteq ChunksOf(d) /\ Searchable(d) \subseteq job[w].ids
      /\ Filled(ChunksOf(d), job[w].prior)
      /\ ChunksOf(d) # {} => d \in known
  BY <1>1, <1>3 DEF StoredAt, Former, Writing
<1>5. i \in held
  BY <1>1, <1>4, ChunksSub
<1>6. /\ pc'[w] = (IF job[w].ids = {i} THEN "begin" ELSE "hide")
      /\ job'[w] = [job[w] EXCEPT !.ids = job[w].ids \ {i}]
  BY <1>1, <1>2, <1>3, <1>5 DEF UpdateOne, GoWith
<1>7. /\ job'[w].kind = job[w].kind /\ job'[w].doc = d /\ job'[w].content = job[w].content
      /\ job'[w].prior = job[w].prior /\ job'[w].ver = job[w].ver
      /\ job'[w].ids = job[w].ids \ {i}
  BY <1>1, <1>6 DEF Job
<1>8. ChunksOf(d)' = ChunksOf(d) /\ Searchable(d)' = Searchable(d) \ {i}
  BY <1>2, <1>3 DEF ChunksOf, Searchable
<1>9. Filled(ChunksOf(d), job[w].prior)'
  BY <1>3, <1>4, <1>7, <1>8 DEF Filled
<1>10. Task(w)'
  BY <1>1, <1>3, <1>6, <1>7 DEF Task, Writing, Rewriting
<1>11. StoredAt(w, d)'
  BY <1>3, <1>4, <1>6, <1>7, <1>8, <1>9 DEF StoredAt, Former, Writing, Rewriting
<1>. QED  BY <1>6, <1>10, <1>11 DEF Left

LEMMA RevealRest ==
  ASSUME RestInv, NEW w \in Worker, Work(w), NEW d \in Doc, d = job[w].doc, RevealOne(w)
  PROVE  Left(w, d)'
<1>1. /\ Task(w) /\ Claim(w) /\ StoredAt(w, d) /\ StampedInv
      /\ pc \in [Worker -> Steps] /\ job \in [Worker -> Job] /\ job[w] \in Job
  BY Mine
<1>2. PICK i \in job[w].ids : visible' = visible \cup ({i} \cap held) /\ UpdateOne(w, i, "idle")
  BY DEF RevealOne
<1>3. UNCHANGED <<rec, held, known, batch>> /\ pc[w] = "reveal"
  BY DEF RevealOne
<1>4. /\ job[w].ids \subseteq ChunksOf(d) /\ ChunksOf(d) \ job[w].ids \subseteq Searchable(d)
      /\ Filled(ChunksOf(d), rec[d])
      /\ ChunksOf(d) # {} => d \in known
  BY <1>1, <1>3 DEF StoredAt, Former, Writing
<1>5. i \in held /\ batch[i[1]].doc = d /\ rec[d].status = "indexed"
  BY <1>1, <1>3, <1>4, ChunksSub DEF Claim
<1>6. /\ pc'[w] = (IF job[w].ids = {i} THEN "idle" ELSE "reveal")
      /\ pc'[w] # "idle" => job'[w] = [job[w] EXCEPT !.ids = job[w].ids \ {i}]
  BY <1>1, <1>2, <1>3, <1>5 DEF UpdateOne, GoWith
<1>7. ChunksOf(d)' = ChunksOf(d) /\ Searchable(d)' = Searchable(d) \cup {i}
  BY <1>2, <1>3, <1>5 DEF ChunksOf, Searchable
<1>8. Filled(ChunksOf(d), rec[d])'
  BY <1>3, <1>4, <1>7 DEF Filled
<1>9. CASE job[w].ids = {i}
  <2>1. Searchable(d)' = ChunksOf(d)'
    BY <1>1, <1>4, <1>7, <1>9, ChunksSub
  <2>2. Calm(d)'
    BY <1>3, <1>4, <1>5, <1>7, <1>8, <2>1 DEF Calm
  <2>. QED  BY <1>6, <1>9, <2>2 DEF Left, Task, Writing, Rewriting
<1>10. CASE job[w].ids # {i}
  <2>1. /\ job'[w].kind = job[w].kind /\ job'[w].doc = d /\ job'[w].content = job[w].content
        /\ job'[w].prior = job[w].prior /\ job'[w].ver = job[w].ver
        /\ job'[w].ids = job[w].ids \ {i}
    BY <1>1, <1>6, <1>10 DEF Job
  <2>2. Task(w)'
    BY <1>1, <1>3, <1>6, <1>10, <2>1 DEF Task, Writing, Rewriting
  <2>3. StoredAt(w, d)'
    BY <1>3, <1>4, <1>6, <1>7, <1>8, <1>10, <2>1 DEF StoredAt, Former, Writing, Rewriting
  <2>. QED  BY <1>6, <1>10, <2>2, <2>3 DEF Left
<1>. QED  BY <1>9, <1>10

LEMMA BuildRest ==
  ASSUME RestInv, NEW w \in Worker, Work(w), NEW d \in Doc, d = job[w].doc, Build(w)
  PROVE  Left(w, d)'
<1>1. /\ Task(w) /\ Claim(w) /\ StoredAt(w, d) /\ StampedInv /\ TypeInv
      /\ pc \in [Worker -> Steps] /\ job \in [Worker -> Job] /\ job[w] \in Job
      /\ job[w].op \in OpId /\ batch \in [OpId -> Stamp]
  BY Mine DEF TypeInv, TypeOK
<1>2. /\ UNCHANGED <<rec, held, visible, known>> /\ pc[w] = "build" /\ pc'[w] = "write"
      /\ job'[w] = [job[w] EXCEPT !.ids = ChunksOf(d), !.todo = Part]
      /\ batch'[job[w].op] = [doc |-> d, content |-> job[w].content, version |-> job[w].ver]
  BY <1>1 DEF Build, GoWith, stores
<1>3. /\ job'[w].kind = job[w].kind /\ job'[w].doc = d /\ job'[w].content = job[w].content
      /\ job'[w].prior = job[w].prior /\ job'[w].ver = job[w].ver /\ job'[w].op = job[w].op
      /\ job'[w].ids = ChunksOf(d) /\ job'[w].todo = Part
  BY <1>1, <1>2 DEF Job
<1>4. ChunksOf(d)' = ChunksOf(d) /\ Searchable(d)' = Searchable(d)
  BY <1>1, ChunksStamped
<1>5. PICK S, p : S = ChunksOf(d) /\ p = job[w].prior
  OBVIOUS
<1>6. /\ job[w].kind = "create" => S = {}
      /\ job[w].kind # "create" => Filled(S, p)
      /\ S # {} => d \in known
      /\ Searchable(d) = {}
  BY <1>1, <1>2, <1>5 DEF StoredAt, Former, Writing, Rewriting, Filled
<1>7. S \in SUBSET held
  BY <1>1, <1>5, ChunksSub
<1>8. job[w].kind # "create" => Filled(S, p)'
  BY <1>1, <1>6, <1>7, FilledKept
<1>9. Former(w, d)' = S /\ Own(w)' = Own(w)
  BY <1>2, <1>3, <1>5 DEF Former, Own, Writing
<1>10. job[w].kind # "create" => Filled(Former(w, d), job[w].prior)'
  BY <1>3, <1>5, <1>8, <1>9 DEF Filled
<1>11. S \cap Own(w) = {}
  <2>1. batch[job[w].op].doc = None /\ None \notin Doc
    BY <1>1, <1>2, LifecycleAssumption DEF StampedInv, StampInv, Unbuilt
  <2>. QED  BY <1>1, <1>5, <2>1, ChunksSub DEF Own
<1>12. Task(w)'
  BY <1>1, <1>2, <1>3 DEF Task, Writing, Rewriting
<1>13. StoredAt(w, d)'
  BY <1>2, <1>3, <1>4, <1>5, <1>6, <1>9, <1>10, <1>11, <1>12
  DEF StoredAt, Writing, Rewriting
<1>. QED  BY <1>2, <1>12, <1>13 DEF Left

LEMMA InsertRest ==
  ASSUME RestInv, NEW w \in Worker, Work(w), NEW d \in Doc, d = job[w].doc,
         InsertSlice(w) \/ InsertFails(w)
  PROVE  Left(w, d)'
<1>1. /\ Task(w) /\ Claim(w) /\ StoredAt(w, d) /\ StampedInv /\ Active(w)
      /\ pc \in [Worker -> Steps] /\ job \in [Worker -> Job] /\ job[w] \in Job
  BY Mine
<1>2. /\ UNCHANGED <<rec, visible, known, batch>> /\ pc[w] = "write"
      /\ batch[job[w].op].doc = job[w].doc
  BY <1>1 DEF InsertSlice, InsertFails, StampedInv, StampInv
<1>3. PICK S \in SUBSET job[w].todo :
         /\ held' = held \cup ({job[w].op} \X S)
         /\ \/ /\ pc'[w] = IF job[w].todo = S THEN "drop" ELSE "write"
               /\ job'[w] = [job[w] EXCEPT !.todo = job[w].todo \ S]
            \/ pc'[w] = "undo" /\ job'[w] = job[w]
  BY <1>1 DEF InsertSlice, InsertFails, Goto, GoWith
<1>4. /\ job'[w].kind = job[w].kind /\ job'[w].doc = d /\ job'[w].content = job[w].content
      /\ job'[w].prior = job[w].prior /\ job'[w].ver = job[w].ver /\ job'[w].op = job[w].op
      /\ job'[w].ids = job[w].ids
      /\ pc'[w] # "undo" => job'[w].todo = job[w].todo \ S
  BY <1>1, <1>3 DEF Job
<1>5. job[w].todo \subseteq Part /\ S \in SUBSET Part
  BY <1>1, <1>3 DEF Job
<1>6. /\ ChunksOf(d)' = ChunksOf(d) \cup ({job[w].op} \X S)
      /\ Searchable(d)' = Searchable(d)
  BY <1>1, <1>2, <1>3, <1>5, ChunksGrow
<1>7. Former(w, d)' = Former(w, d) /\ Own(w)' = Own(w)
  BY <1>2, <1>3, <1>4 DEF Former, Own, Writing
<1>8. /\ ChunksOf(d) = Former(w, d) \cup ({job[w].op} \X (Part \ job[w].todo))
      /\ IF job[w].kind = "create" THEN Former(w, d) = {} ELSE Filled(Former(w, d), job[w].prior)
      /\ Former(w, d) \cap Own(w) = {} /\ Searchable(d) = {}
      /\ Former(w, d) # {} => d \in known
      /\ batch[job[w].op] = [doc |-> d, content |-> job[w].content, version |-> job[w].ver]
  BY <1>1, <1>2 DEF StoredAt, Writing, Rewriting
<1>9. job[w].kind # "create" => Filled(Former(w, d), job[w].prior)'
  BY <1>2, <1>4, <1>7, <1>8 DEF Filled
<1>10. ChunksOf(d)' = Former(w, d) \cup ({job[w].op} \X ((Part \ job[w].todo) \cup S))
  BY <1>6, <1>8
<1>11. /\ pc'[w] = "write" => (Part \ job[w].todo) \cup S = Part \ job'[w].todo
       /\ pc'[w] = "drop" => (Part \ job[w].todo) \cup S = Part
       /\ (Part \ job[w].todo) \cup S \subseteq Part
  BY <1>3, <1>4, <1>5
<1>12. Task(w)'
  BY <1>1, <1>2, <1>3, <1>4 DEF Task, Writing, Rewriting
<1>13. /\ pc'[w] = "write" => ChunksOf(d)' = Former(w, d)' \cup ({job'[w].op} \X (Part \ job'[w].todo))
       /\ pc'[w] = "drop" => ChunksOf(d)' = Former(w, d)' \cup Own(w)'
       /\ Former(w, d)' \subseteq ChunksOf(d)'
       /\ ChunksOf(d)' \subseteq Former(w, d)' \cup Own(w)'
  BY <1>4, <1>7, <1>10, <1>11 DEF Own
<1>14. StoredAt(w, d)'
  BY <1>2, <1>3, <1>4, <1>6, <1>7, <1>8, <1>9, <1>13 DEF StoredAt, Writing, Rewriting
<1>. QED  BY <1>3, <1>12, <1>14 DEF Left

LEMMA CompensateRest ==
  ASSUME RestInv, NEW w \in Worker, Work(w), NEW d \in Doc, d = job[w].doc, Compensate(w)
  PROVE  Left(w, d)'
<1>1. /\ Task(w) /\ Claim(w) /\ StoredAt(w, d) /\ StampedInv
      /\ pc \in [Worker -> Steps] /\ job \in [Worker -> Job] /\ job[w] \in Job
  BY Mine
<1>2. /\ UNCHANGED <<rec, known, batch>> /\ pc[w] = "undo" /\ DeleteObjects(Own(w))
      /\ job'[w] = job[w] /\ pc'[w] = IF job[w].kind = "create" THEN "fail" ELSE "restore"
  BY <1>1 DEF Compensate, Own, Abort, Goto, GoWith
<1>3. /\ ChunksOf(d)' = ChunksOf(d) \ Own(w) /\ Searchable(d)' = Searchable(d) \ Own(w)
  BY <1>2, ChunksShrink
<1>4. /\ Former(w, d) \subseteq ChunksOf(d) /\ ChunksOf(d) \subseteq Former(w, d) \cup Own(w)
      /\ Former(w, d) \cap Own(w) = {} /\ Searchable(d) = {}
      /\ IF job[w].kind = "create" THEN Former(w, d) = {} ELSE Filled(Former(w, d), job[w].prior)
      /\ Former(w, d) # {} => d \in known
  BY <1>1, <1>2 DEF StoredAt, Writing, Rewriting
<1>5. ChunksOf(d)' = Former(w, d)
  BY <1>3, <1>4
<1>6. job[w].kind \in {"create", "update"}
  BY <1>1, <1>2 DEF Task, Writing, Job, Operations
<1>7. Former(w, d)' = Former(w, d)
  BY <1>2, <1>5 DEF Former, Writing
<1>8. job[w].kind # "create" => Filled(Former(w, d), job[w].prior)'
  BY <1>2, <1>4, <1>7 DEF Filled
<1>9. Task(w)'
  BY <1>1, <1>2, <1>6 DEF Task, Writing, Rewriting
<1>10. StoredAt(w, d)'
  BY <1>2, <1>3, <1>4, <1>5, <1>6, <1>7, <1>8 DEF StoredAt, Writing, Rewriting
<1>. QED  BY <1>2, <1>9, <1>10 DEF Left

LEMMA DropRest ==
  ASSUME RestInv, NEW w \in Worker, Work(w), NEW d \in Doc, d = job[w].doc, DropStale(w)
  PROVE  Left(w, d)'
<1>1. /\ Task(w) /\ Claim(w) /\ StoredAt(w, d)
      /\ pc \in [Worker -> Steps] /\ job \in [Worker -> Job] /\ job[w] \in Job
  BY Mine
<1>2. /\ UNCHANGED <<rec, batch>> /\ pc[w] = "drop" /\ DeleteObjects(job[w].ids)
      /\ job'[w] = job[w] /\ pc'[w] = "count" /\ known' = known \cup {d}
  BY <1>1 DEF DropStale, Goto, GoWith
<1>3. /\ ChunksOf(d)' = ChunksOf(d) \ job[w].ids
      /\ Searchable(d)' = Searchable(d) \ job[w].ids
  BY <1>2, ChunksShrink
<1>4. /\ ChunksOf(d) = job[w].ids \cup Own(w) /\ job[w].ids \cap Own(w) = {}
      /\ Searchable(d) = {}
      /\ batch[job[w].op] = [doc |-> d, content |-> job[w].content, version |-> job[w].ver]
  BY <1>1, <1>2 DEF StoredAt, Former, Writing, Rewriting
<1>5. ChunksOf(d)' = Own(w) /\ Own(w)' = Own(w)
  BY <1>2, <1>3, <1>4 DEF Own
<1>6. Task(w)'
  BY <1>1, <1>2 DEF Task, Writing, Rewriting
<1>7. StoredAt(w, d)'
  BY <1>2, <1>3, <1>4, <1>5 DEF StoredAt, Former, Writing, Rewriting
<1>. QED  BY <1>2, <1>6, <1>7 DEF Left

LEMMA DeleteRest ==
  ASSUME RestInv, NEW w \in Worker, Work(w), NEW d \in Doc, d = job[w].doc,
         DeleteChunks(w) \/ DeleteCallBlind(w)
  PROVE  Left(w, d)'
<1>1. /\ Task(w) /\ Claim(w) /\ StoredAt(w, d) /\ StampedInv
      /\ pc \in [Worker -> Steps] /\ job \in [Worker -> Job] /\ job[w] \in Job
  BY Mine
<1>2. /\ UNCHANGED <<rec, batch>> /\ pc[w] \in {"scrub", "purge"}
      /\ pc'[w] = (IF pc[w] = "purge" THEN "tomb" ELSE "idle")
      /\ pc'[w] # "idle" => job'[w] = job[w]
  BY <1>1 DEF DeleteChunks, DeleteCallBlind, Goto, GoWith, stores
<1>3. ChunksOf(d)' = {} /\ Searchable(d)' = {}
  <2>1. CASE DeleteChunks(w)
    <3>1. DeleteObjects(ChunksOf(d)) /\ UNCHANGED batch
      BY <2>1 DEF DeleteChunks
    <3>2. /\ ChunksOf(d)' = ChunksOf(d) \ ChunksOf(d)
          /\ Searchable(d)' = Searchable(d) \ ChunksOf(d)
      BY <3>1, ChunksShrink
    <3>. QED  BY <1>1, <3>2, ChunksSub
  <2>2. CASE DeleteCallBlind(w)
    <3>1. ChunksOf(d) = {}
      BY <1>1, <1>2, <2>2 DEF DeleteCallBlind, StoredAt, Former, Writing
    <3>2. ChunksOf(d)' = ChunksOf(d) /\ Searchable(d)' = Searchable(d)
      BY <2>2, ChunksSame DEF DeleteCallBlind, stores
    <3>. QED  BY <1>1, <3>1, <3>2, ChunksSub
  <2>. QED  BY <2>1, <2>2
<1>4. CASE pc[w] = "scrub"
  <2>1. rec[d].status = "failed" /\ rec[d].count = 0
    BY <1>1, <1>4 DEF StoredAt
  <2>2. Calm(d)'
    BY <1>2, <1>3, <2>1 DEF Calm, Filled
  <2>. QED  BY <1>2, <1>4, <2>2 DEF Left, Task, Writing, Rewriting
<1>5. CASE pc[w] = "purge"
  <2>1. Task(w)'
    BY <1>1, <1>2, <1>5 DEF Task, Writing, Rewriting
  <2>2. StoredAt(w, d)'
    BY <1>2, <1>3, <1>5 DEF StoredAt, Former, Writing, Rewriting
  <2>. QED  BY <1>2, <1>5, <2>1, <2>2 DEF Left
<1>. QED  BY <1>2, <1>4, <1>5

LEMMA WorkRest ==
  ASSUME RestInv, CleanRun, NEW w \in Worker, Work(w), NEW d \in Doc, d = job[w].doc
  PROVE  Left(w, d)'
<1>1. CASE Lookup(w) \/ CheckFree(w) \/ ReadRecord(w) \/ FetchIds(w) \/ StatusCallBlind(w)
           \/ BuildFails(w) \/ CountChunks(w) \/ RecallVersion(w)
  BY <1>1, ReadsRest, FetchRest, BuildFailsRest
<1>2. CASE InsertRecord(w) \/ BeginReindex(w) \/ MarkIndexed(w) \/ RestorePrior(w)
           \/ MarkFailed(w) \/ MarkDeleted(w)
  BY <1>2, RecordRest
<1>3. CASE HideOne(w) \/ RevealOne(w) \/ Build(w) \/ InsertSlice(w) \/ InsertFails(w)
  BY <1>3, HideRest, RevealRest, BuildRest, InsertRest
<1>4. CASE Compensate(w) \/ DropStale(w) \/ DeleteChunks(w) \/ DeleteCallBlind(w)
  BY <1>4, CompensateRest, DropRest, DeleteRest
<1>. QED  BY <1>1, <1>2, <1>3, <1>4, CleanWork

LEMMA NextRest == CleanRun /\ RestInv /\ [Next]_vars => RestInv'
<1>. SUFFICES ASSUME CleanRun, RestInv, [Next]_vars  PROVE RestInv'
  OBVIOUS
<1>1. StampedInv' /\ ClaimInv'
  BY NextStamped, NextClaims DEF RestInv, CleanRun
<1>2. CASE UNCHANGED vars
  BY <1>1, <1>2
  DEF vars, RestInv, Rows, Task, Stored, StoredAt, Former, Own, Calm, Filled, ChunksOf,
      Searchable
<1>3. ASSUME NEW w \in Worker, Work(w)
      PROVE  RestInv'
  <2>1. PICK d \in Doc : d = job[w].doc
    BY <1>3, Mine
  <2>2. Left(w, d)' /\ Rows'
    BY <1>3, <2>1, WorkRest, RowsKept
  <2>3. /\ pc'[w] # "idle" => job'[w].doc = d
        /\ \A u \in Worker \ {w} : pc'[u] = pc[u] /\ job'[u] = job[u]
        /\ StampedInv /\ Separate /\ Active(w)
    BY <1>3, <2>1, WorkStep DEF SameTask, RestInv, StampedInv, ClaimInv
  <2>4. \A u \in Worker : Task(u)'
    BY <1>3, <2>2, OtherStored DEF Left
  <2>5. \A u \in Worker : Stored(u)'
    <3>1. Stored(w)'
      BY <2>2, <2>3 DEF Left, Stored
    <3>. QED  BY <1>3, <3>1, OtherStored
  <2>6. ASSUME NEW e \in Doc, \A u \in Worker : pc'[u] # "idle" => job'[u].doc # e
        PROVE  Calm(e)'
    <3>1. CASE e = d
      BY <2>2, <2>3, <2>6, <3>1 DEF Left
    <3>2. CASE e # d
      <4>1. \A u \in Worker : Active(u) => job[u].doc # e
        BY <2>1, <2>3, <2>6, <3>2
      <4>2. Calm(e)
        BY <4>1 DEF RestInv
      <4>3. /\ ChunksOf(e)' = ChunksOf(e) /\ Searchable(e)' = Searchable(e)
            /\ rec'[e] = rec[e] /\ (e \in known => e \in known')
        BY <1>3, <2>1, <3>2, Elsewhere
      <4>. QED  BY <1>3, <2>3, <4>2, <4>3, CalmKept
    <3>. QED  BY <3>1, <3>2
  <2>. QED  BY <1>1, <2>2, <2>4, <2>5, <2>6 DEF RestInv
<1>4. CASE \E w \in Worker : Call(w)
  BY <1>1, <1>4, CallRest DEF RestInv
<1>. QED
  BY <1>2, <1>3, <1>4 DEF Next, CallersDone, Crash, CleanRun

LEMMA InitRest == Init => RestInv
<1>. SUFFICES ASSUME Init  PROVE RestInv
  OBVIOUS
<1>1. StampedInv /\ ClaimInv
  BY InitStamped, InitClaims
<1>2. \A w \in Worker : Task(w) /\ Stored(w)
  BY DEF Init, Task, Stored, Writing, Rewriting
<1>3. \A d \in Doc : Calm(d)
  BY DEF Init, Calm, Filled, ChunksOf, Searchable, NoRecord
<1>4. Rows
  BY DEF Init, Rows, NoRecord
<1>. QED  BY <1>1, <1>2, <1>3, <1>4 DEF RestInv

(* Once no operation runs on a document, its chunks are what its record    *)
(* says, provided callers do not overlap and what fails leaves nothing     *)
(* behind.                                                                 *)
THEOREM RestSafe == ASSUME CleanRun  PROVE Spec => []RestComplete
<1>1. Spec => []RestInv
  BY InitRest, NextRest, PTL DEF Spec
<1>2. RestInv => RestComplete
  <2>. SUFFICES ASSUME RestInv, NEW d \in Doc, AtRest(d)
                PROVE  /\ rec[d].status # "processing"
                       /\ ChunksOf(d) = Searchable(d)
                       /\ Cardinality(ChunksOf(d)) =
                             IF rec[d].status = "indexed" THEN rec[d].count ELSE 0
                       /\ \A i \in ChunksOf(d) : /\ batch[i[1]].content = rec[d].hash
                                                 /\ batch[i[1]].version = rec[d].version
    BY DEF RestComplete
  <2>1. Calm(d)
    BY DEF AtRest, RestInv
  <2>2. Cardinality({}) = 0
    BY FS_EmptySet
  <2>3. \A o \in OpId : Cardinality({o} \X Part) = Cardinality(Part)
    BY BatchCount
  <2>. QED  BY <2>1, <2>2, <2>3 DEF Calm, Filled
<1>. QED  BY <1>1, <1>2, PTL

(* A search never returns a content other than the one the record names,   *)
(* under the same provisos.                                                *)
THEOREM ServesRecorded == ASSUME CleanRun  PROVE Spec => []ServesRecordedContent
<1>1. Spec => []RestInv
  BY InitRest, NextRest, PTL DEF Spec
<1>2. RestInv => ServesRecordedContent
  <2>. SUFFICES ASSUME RestInv, NEW d \in Doc, NEW i \in Searchable(d)
                PROVE  batch[i[1]].content = rec[d].hash
    BY DEF ServesRecordedContent
  <2>1. i \in ChunksOf(d)
    BY ChunksSub DEF RestInv
  <2>2. CASE Filled(ChunksOf(d), rec[d])
    BY <2>1, <2>2 DEF Filled
  <2>3. CASE \A w \in Worker : Active(w) => job[w].doc # d
    BY <2>2, <2>3 DEF RestInv, Calm
  <2>4. ASSUME NEW w \in Worker, Active(w), job[w].doc = d
        PROVE  Filled(ChunksOf(d), rec[d])
    <3>1. StoredAt(w, d) /\ Task(w) /\ pc[w] \in Steps
      BY <2>4 DEF RestInv, Stored, StampedInv, TypeInv, TypeOK
    <3>. QED  BY <2>4, <3>1 DEF StoredAt, Task, Calm, Filled, Steps, Rewriting
  <2>. QED  BY <2>2, <2>3, <2>4
<1>. QED  BY <1>1, <1>2, PTL

-----------------------------------------------------------------------------
(* The lifecycle implements SearchGate: each call on a store is a step of  *)
(* the gate on the document it works on, or none.                          *)

Committed(d) ==
    IF rec[d].status = "indexed" THEN <<rec[d].hash, rec[d].version>> ELSE <<None, 0>>

Shown(d) ==
    {<<i[2], <<batch[i[1]].content, batch[i[1]].version>>>> : i \in Searchable(d)}

(* What a step on document d leaves alone. *)
OthersKept(d) == \A e \in Doc \ {d} : Committed(e)' = Committed(e) /\ Shown(e)' = Shown(e)

LEMMA HideMaps ==
  ASSUME NEW d \in Doc, OthersKept(d), Committed(d)' = Committed(d), Shown(d)' \subseteq Shown(d)
  PROVE  Gate!Hide(d)
<1>1. PICK S : S = Shown(d)'
  OBVIOUS
<1>2. S \in SUBSET Shown(d)
  BY <1>1
<1>3. [e \in Doc |-> Shown(e)]' = [[e \in Doc |-> Shown(e)] EXCEPT ![d] = S]
  BY <1>1 DEF OthersKept
<1>4. [e \in Doc |-> Committed(e)]' = [e \in Doc |-> Committed(e)]
  BY DEF OthersKept
<1>. QED  BY <1>2, <1>3, <1>4 DEF Gate!Hide, Committed, Shown

LEMMA RevealMaps ==
  ASSUME NEW d \in Doc, OthersKept(d), Committed(d)' = Committed(d),
         Committed(d) # <<None, 0>>, NEW p \in Part,
         Shown(d)' = Shown(d) \cup {<<p, Committed(d)>>}
  PROVE  Gate!Reveal(d)
<1>0. Shown(d)' = Shown(d) \cup ({p} \X {Committed(d)})
  OBVIOUS
<1>1. [e \in Doc |-> Shown(e)]' =
         [[e \in Doc |-> Shown(e)] EXCEPT ![d] = Shown(d) \cup ({p} \X {Committed(d)})]
  BY <1>0 DEF OthersKept
<1>2. [e \in Doc |-> Committed(e)]' = [e \in Doc |-> Committed(e)]
  BY DEF OthersKept
<1>. QED  BY <1>1, <1>2 DEF Gate!Reveal, Committed, Shown

LEMMA CommitMaps ==
  ASSUME NEW d \in Doc, OthersKept(d), Shown(d) = {}, Shown(d)' = {},
         Committed(d)' \in (Content \X Nat) \cup {<<None, 0>>}
  PROVE  Gate!Commit(d) \/ Gate!Withdraw(d)
<1>1. PICK v : v = Committed(d)'
  OBVIOUS
<1>2. [e \in Doc |-> Committed(e)]' = [[e \in Doc |-> Committed(e)] EXCEPT ![d] = v]
  BY <1>1 DEF OthersKept
<1>3. [e \in Doc |-> Shown(e)]' = [e \in Doc |-> Shown(e)]
  BY DEF OthersKept
<1>4. CASE v \in Content \X Nat
  BY <1>1, <1>2, <1>3, <1>4 DEF Gate!Commit, Committed, Shown
<1>5. CASE v = <<None, 0>>
  BY <1>1, <1>2, <1>3, <1>5 DEF Gate!Withdraw, Committed, Shown
<1>. QED  BY <1>1, <1>4, <1>5

(* A document the step does not work on looks the same to a search. *)
LEMMA WorkKeepsOthers ==
  ASSUME RestInv, NEW w \in Worker, Work(w), NEW d \in Doc, d = job[w].doc
  PROVE  OthersKept(d)
<1>. SUFFICES ASSUME NEW e \in Doc \ {d}
              PROVE  Committed(e)' = Committed(e) /\ Shown(e)' = Shown(e)
  BY DEF OthersKept
<1>1. rec'[e] = rec[e] /\ Searchable(e)' = Searchable(e)
  BY Elsewhere
<1>2. \A i \in Searchable(e) : batch'[i[1]] = batch[i[1]]
  BY Mine, ChunksSub, HeldStamped, StampsKept
<1>3. Committed(e)' = Committed(e)
  BY <1>1 DEF Committed
<1>4. Shown(e)' = Shown(e)
  BY <1>1, <1>2 DEF Shown
<1>. QED  BY <1>3, <1>4

(* What the record commits to after a step. *)
LEMMA CommittedType ==
  ASSUME TypeInv', Rows', NEW d \in Doc
  PROVE  Committed(d)' \in (Content \X Nat) \cup {<<None, 0>>}
<1>1. rec'[d] \in Record
  BY DEF TypeInv, TypeOK
<1>2. rec'[d].version \in Nat
  BY <1>1 DEF Record
<1>3. rec'[d].status = "indexed" => rec'[d].hash \in Content
  BY DEF Rows
<1>. QED  BY <1>2, <1>3 DEF Committed

LEMMA WorkImplements ==
  ASSUME CleanRun, RestInv, RestInv', NEW w \in Worker, Work(w)
  PROVE  Gate!GateNext
<1>1. /\ Task(w) /\ Claim(w) /\ Rows /\ StampedInv /\ TypeInv /\ Active(w)
      /\ rec \in [Doc -> Record] /\ visible \subseteq held /\ job[w] \in Job
  BY Mine DEF TypeInv, TypeOK
<1>2. PICK d \in Doc : d = job[w].doc /\ StoredAt(w, d)
  BY Mine
<1>3. OthersKept(d)
  BY <1>2, WorkKeepsOthers
<1>4. CASE RevealOne(w)
  <2>1. PICK i \in job[w].ids : visible' = visible \cup ({i} \cap held)
    BY <1>4 DEF RevealOne
  <2>2. UNCHANGED <<rec, held, batch>> /\ pc[w] = "reveal"
    BY <1>4 DEF RevealOne
  <2>3. i \in ChunksOf(d) /\ Filled(ChunksOf(d), rec[d]) /\ rec[d].status = "indexed"
    BY <1>1, <1>2, <2>1, <2>2 DEF StoredAt, Claim
  <2>4. /\ i \in held /\ i \in ChunkId /\ batch[i[1]].doc = d
    BY <1>1, <2>3, ChunksSub
  <2>5. batch[i[1]].content = rec[d].hash /\ batch[i[1]].version = rec[d].version
    BY <2>3 DEF Filled
  <2>6. Searchable(d)' = Searchable(d) \cup {i}
    BY <2>1, <2>2, <2>4 DEF Searchable
  <2>7. Committed(d) = <<rec[d].hash, rec[d].version>> /\ Committed(d)' = Committed(d)
    BY <2>2, <2>3 DEF Committed
  <2>8. Shown(d)' = Shown(d) \cup {<<i[2], Committed(d)>>}
    BY <2>2, <2>5, <2>6, <2>7 DEF Shown
  <2>9. i[2] \in Part
    BY <2>4 DEF ChunkId
  <2>10. Committed(d) # <<None, 0>>
    BY <1>1, <2>3, <2>7, LifecycleAssumption DEF Rows
  <2>. QED  BY <1>3, <2>7, <2>8, <2>9, <2>10, RevealMaps DEF Gate!GateNext
<1>5. CASE InsertRecord(w) \/ BeginReindex(w) \/ MarkIndexed(w) \/ RestorePrior(w)
           \/ MarkFailed(w) \/ MarkDeleted(w)
  <2>1. UNCHANGED <<held, visible, batch>>
        /\ pc[w] \in {"insert", "begin", "commit", "restore", "fail", "tomb"}
    BY <1>5
    DEF InsertRecord, BeginReindex, MarkIndexed, RestorePrior, MarkFailed, MarkDeleted
  <2>2. Searchable(d) = {}
    BY <1>1, <1>2, <2>1 DEF StoredAt, Calm, Claim, Rewriting
  <2>3. Shown(d) = {} /\ Shown(d)' = {}
    BY <2>1, <2>2, ChunksSame DEF Shown
  <2>4. Committed(d)' \in (Content \X Nat) \cup {<<None, 0>>}
    BY CommittedType DEF RestInv, StampedInv
  <2>. QED  BY <1>3, <2>3, <2>4, CommitMaps DEF Gate!GateNext
<1>6. CASE rec' = rec /\ visible' \subseteq visible
  <2>1. \A i \in held : i[1] \in OpId /\ batch'[i[1]] = batch[i[1]]
    BY <1>1, HeldStamped, StampsKept
  <2>2. Searchable(d)' \subseteq Searchable(d)
    BY <1>1, <1>6, <2>1 DEF Searchable
  <2>3. \A i \in Searchable(d) : batch'[i[1]] = batch[i[1]]
    BY <1>1, <2>1 DEF Searchable
  <2>4. Shown(d)' \subseteq Shown(d)
    BY <2>2, <2>3 DEF Shown
  <2>5. Committed(d)' = Committed(d)
    BY <1>6 DEF Committed
  <2>. QED  BY <1>3, <2>4, <2>5, HideMaps DEF Gate!GateNext
<1>7. CASE Lookup(w) \/ CheckFree(w) \/ ReadRecord(w) \/ FetchIds(w) \/ StatusCallBlind(w)
           \/ BuildFails(w) \/ CountChunks(w) \/ RecallVersion(w) \/ Build(w)
           \/ DeleteCallBlind(w) \/ InsertSlice(w) \/ InsertFails(w) \/ HideOne(w)
  BY <1>6, <1>7
  DEF Lookup, CheckFree, ReadRecord, FetchIds, StatusCallBlind, BuildFails, CountChunks,
      RecallVersion, Build, DeleteCallBlind, InsertSlice, InsertFails, HideOne, stores
<1>8. CASE Compensate(w) \/ DropStale(w) \/ DeleteChunks(w)
  BY <1>6, <1>8 DEF Compensate, DropStale, DeleteChunks, DeleteObjects
<1>. QED  BY <1>4, <1>5, <1>7, <1>8, CleanWork

(* With callers that do not overlap and failures that leave nothing behind *)
(* a search sees what SearchGate promises: at any moment chunks of the one *)
(* committed version of a document, and another version only after it saw  *)
(* none.                                                                   *)
THEOREM GateImplemented == ASSUME CleanRun  PROVE Spec => ImplementsGate
<1>1. Spec => []RestInv
  BY InitRest, NextRest, PTL DEF Spec
<1>2. Init => Gate!GateInit
  BY DEF Init, Gate!GateInit, NoRecord, Searchable
<1>3. RestInv /\ RestInv' /\ [Next]_vars => [Gate!GateNext]_(Gate!gateVars)
  <2>. SUFFICES ASSUME RestInv, RestInv', [Next]_vars
                PROVE  Gate!GateNext \/ UNCHANGED Gate!gateVars
    OBVIOUS
  <2>1. CASE \E w \in Worker : Work(w)
    BY <2>1, WorkImplements
  <2>2. CASE UNCHANGED <<rec, visible, batch>>
    BY <2>2 DEF Gate!gateVars, Searchable
  <2>3. CASE \E w \in Worker : Call(w)
    BY <2>2, <2>3 DEF Call, CreateDocument, UpdateDocument, DeleteDocument, Enter, stores
  <2>4. CASE Crash \/ CallersDone \/ UNCHANGED vars
    BY <2>2, <2>4 DEF Crash, CallersDone, vars
  <2>. QED  BY <2>1, <2>3, <2>4 DEF Next
<1>. QED  BY <1>1, <1>2, <1>3, PTL DEF Spec, ImplementsGate, Gate!GateSpec

(* What SearchGate promises, derived from its steps alone: a step that      *)
(* keeps the committed version shows only that one, and a step that changes *)
(* it happens while nothing of the document is shown.                       *)
GateCommitted == [d \in Doc |-> Committed(d)]
GateShown == [d \in Doc |-> Shown(d)]

LEMMA GateSteps ==
  ASSUME [Gate!GateNext]_(Gate!gateVars)
  PROVE  \/ GateCommitted' = GateCommitted /\ GateShown' = GateShown
         \/ \E d \in Doc :
              \/ /\ GateCommitted' = GateCommitted
                 /\ \E S \in SUBSET GateShown[d] : GateShown' = [GateShown EXCEPT ![d] = S]
              \/ /\ GateCommitted' = GateCommitted
                 /\ \E S \in SUBSET Part :
                      GateShown' = [GateShown EXCEPT ![d] = @ \cup (S \X {GateCommitted[d]})]
              \/ /\ GateShown' = GateShown /\ GateShown[d] = {}
                 /\ \E v : GateCommitted' = [GateCommitted EXCEPT ![d] = v]
<1>1. CASE UNCHANGED Gate!gateVars
  BY <1>1, Zenon DEF Gate!gateVars, GateCommitted, GateShown, Committed, Shown
<1>2. ASSUME NEW d \in Doc, Gate!Hide(d)
      PROVE  /\ GateCommitted' = GateCommitted
             /\ \E S \in SUBSET GateShown[d] : GateShown' = [GateShown EXCEPT ![d] = S]
  BY <1>2, Zenon DEF Gate!Hide, GateCommitted, GateShown, Committed, Shown
<1>3. ASSUME NEW d \in Doc, Gate!Reveal(d)
      PROVE  /\ GateCommitted' = GateCommitted
             /\ \E S \in SUBSET Part :
                  GateShown' = [GateShown EXCEPT ![d] = @ \cup (S \X {GateCommitted[d]})]
  BY <1>3, Zenon DEF Gate!Reveal, GateCommitted, GateShown, Committed, Shown
<1>4. ASSUME NEW d \in Doc, Gate!Commit(d) \/ Gate!Withdraw(d)
      PROVE  /\ GateShown' = GateShown /\ GateShown[d] = {}
             /\ \E v : GateCommitted' = [GateCommitted EXCEPT ![d] = v]
  BY <1>4, Zenon DEF Gate!Commit, Gate!Withdraw, GateCommitted, GateShown, Committed, Shown
<1>. QED  BY <1>1, <1>2, <1>3, <1>4 DEF Gate!GateNext

(* A search never sees a chunk of a version its document has not committed  *)
(* to: not of a version that failed, of a superseded one or of a deleted    *)
(* document.  This is what WeaviateChunkStore's status gate is for.         *)
THEOREM GatePromise == Gate!GateSpec => []Gate!OnlyCommittedShown
<1>. DEFINE Inv == \A d \in Doc : \A s \in GateShown[d] : s[2] = GateCommitted[d]
<1>1. Gate!GateInit => Inv
  <2>1. Gate!GateInit => GateShown = [d \in Doc |-> {}]
    BY Zenon DEF Gate!GateInit, GateShown, Shown
  <2>. QED  BY <2>1
<1>2. Inv /\ [Gate!GateNext]_(Gate!gateVars) => Inv'
  <2>. SUFFICES ASSUME Inv, [Gate!GateNext]_(Gate!gateVars),
                       NEW e \in Doc, NEW s \in GateShown'[e]
                PROVE  s[2] = GateCommitted'[e]
    OBVIOUS
  <2>0. DOMAIN GateShown = Doc /\ DOMAIN GateCommitted = Doc
    BY DEF GateShown, GateCommitted
  <2>1. CASE GateCommitted' = GateCommitted /\ GateShown' = GateShown
    BY <2>1
  <2>2. ASSUME NEW d \in Doc, GateCommitted' = GateCommitted,
               NEW S \in SUBSET GateShown[d], GateShown' = [GateShown EXCEPT ![d] = S]
        PROVE  s[2] = GateCommitted'[e]
    BY <2>0, <2>2
  <2>3. ASSUME NEW d \in Doc, GateCommitted' = GateCommitted, NEW S \in SUBSET Part,
               GateShown' = [GateShown EXCEPT ![d] = @ \cup (S \X {GateCommitted[d]})]
        PROVE  s[2] = GateCommitted'[e]
    BY <2>0, <2>3
  <2>4. ASSUME NEW d \in Doc, GateShown' = GateShown, GateShown[d] = {},
               NEW v, GateCommitted' = [GateCommitted EXCEPT ![d] = v]
        PROVE  s[2] = GateCommitted'[e]
    BY <2>0, <2>4
  <2>. QED  BY <2>1, <2>2, <2>3, <2>4, GateSteps
<1>3. Inv => Gate!OnlyCommittedShown
  BY DEF Gate!OnlyCommittedShown, GateShown, GateCommitted, Committed, Shown
<1>. QED  BY <1>1, <1>2, <1>3, PTL DEF Gate!GateSpec

(* What the promise of SearchGate says of the two stores: under the same   *)
(* provisos every chunk a search can return belongs to an INDEXED document *)
(* and is of the content and version its record names.                     *)
THEOREM OnlyCommittedServed ==
  ASSUME CleanRun  PROVE Spec => []Gate!OnlyCommittedShown
<1>1. Spec => Gate!GateSpec
  BY GateImplemented DEF ImplementsGate
<1>. QED  BY <1>1, GatePromise, PTL
=============================================================================
