-------------------------- MODULE DocumentAdmin_proofs --------------------------
(***************************************************************************)
(* Proofs about DocumentAdmin, for any documents, threads, contents,       *)
(* faults and number of restarts.  The invariants build on each other:     *)
(*   TypeInv    types, and which steps each kind of thread takes           *)
(*   FreshInv   tasks are of the present run; what the re-hydration has in *)
(*              hand was not searchable when it took it                    *)
(*   ClaimInv   a document that is deleted is in nobody else's hands, and  *)
(*              what it leaves; needs that none is deleted while ingested  *)
(*   TruthInv   why an "indexed" row tells the truth                       *)
(***************************************************************************)
EXTENDS DocumentAdmin, TLAPS

Worker == Thread \cup {Rehydrator}

IngestSteps == {"ingest", "check", "insert", "store", "fail", "scrub", "mark", "publish"}

StepsOf(a) ==
    IF a \in Admin THEN {"idle", "read", "purge", "tomb", "drop"}
    ELSE IF a = Rehydrator THEN {"idle", "start", "next"} \cup IngestSteps
    ELSE {"idle", "finish"} \cup IngestSteps

Resting == {"idle", "start", "next"}

-----------------------------------------------------------------------------
(* Types.                                                                  *)

MovesTyped ==
    /\ pc \in [Actor -> Steps]
    /\ job \in [Actor -> Job]
    /\ \A a \in Actor : pc[a] \in StepsOf(a)
    /\ \A a \in Actor : pc[a] \in Resting <=> job[a].doc = None

StoresTyped ==
    /\ row \in [Doc -> RowStatus]
    /\ text \in SUBSET Doc
    /\ born \in [Doc -> 0..(restarts + 1)]
    /\ rec \in [Doc -> RecStatus]
    /\ vec \in [Doc -> VecStatus]
    /\ durable \in Durable
    /\ queue \in Seq(Doc)
    /\ restarts \in 0..MaxRestarts
    /\ blamed \in SUBSET Doc
    /\ unpurged \in SUBSET Doc

TypeInv == MovesTyped /\ StoresTyped

(* What a step does to the threads: all but one stay where they are.       *)
OthersStay(a) == \A b \in Actor : b # a => pc'[b] = pc[b] /\ job'[b] = job[b]

Went(a, step) == OthersStay(a) /\ pc'[a] = step /\ job'[a] = job[a]

(* The end of an ingest: the row is written, or it is tried once more; the  *)
(* re-hydration lets go of its document.                                    *)
Ended(a, served) ==
    /\ OthersStay(a)
    /\ job'[a].todo = job[a].todo
    /\ a = Rehydrator => pc'[a] = "next" /\ job'[a].doc = None
    /\ a # Rehydrator =>
          /\ job'[a].doc = job[a].doc
          /\ \/ pc'[a] = "finish" /\ job'[a].served = served
             \/ pc'[a] = "ingest" /\ ~served

LEMMA Kinds ==
  /\ Thread \subseteq Actor /\ Admin \subseteq Actor /\ Worker \subseteq Actor
  /\ Rehydrator \in Actor /\ Rehydrator \in Worker
  /\ Thread \cap Admin = {} /\ Worker \cap Admin = {} /\ Rehydrator \notin Thread
  /\ Actor = Worker \cup Admin /\ None \notin Doc
  BY AdminAssumption DEF Actor, Worker

LEMMA StepsAreSteps == \A a : StepsOf(a) \subseteq Steps
  BY DEF StepsOf, Steps, IngestSteps

LEMMA NewJobTyped == \A d \in Doc : NewJob(d) \in Job /\ NewJob(d).doc = d /\ NewJob(d).todo = {}
  BY DEF NewJob, IdleJob, Job

LEMMA IdleJobTyped == IdleJob \in Job /\ IdleJob.doc = None /\ IdleJob.todo = {}
  BY DEF IdleJob, Job

LEMMA Going ==
  ASSUME MovesTyped, NEW a \in Actor, NEW step \in StepsOf(a), NEW j \in Job,
         GoWith(a, step, j), step # "idle" => (step \in Resting <=> j.doc = None)
  PROVE  /\ OthersStay(a) /\ MovesTyped' /\ pc'[a] = step
         /\ job'[a] = IF step = "idle" THEN IdleJob ELSE j
<1>1. step \in Steps
  BY StepsAreSteps
<1>2. /\ pc' = [pc EXCEPT ![a] = step]
      /\ job' = [job EXCEPT ![a] = IF step = "idle" THEN IdleJob ELSE j]
  BY DEF GoWith
<1>3. /\ pc'[a] = step /\ job'[a] = (IF step = "idle" THEN IdleJob ELSE j)
      /\ OthersStay(a)
      /\ pc' \in [Actor -> Steps] /\ job' \in [Actor -> Job]
  BY <1>1, <1>2, IdleJobTyped DEF MovesTyped, OthersStay
<1>4. pc'[a] \in Resting <=> job'[a].doc = None
  BY <1>3, IdleJobTyped DEF Resting
<1>5. MovesTyped'
  BY <1>3, <1>4 DEF MovesTyped, OthersStay
<1>. QED  BY <1>3, <1>5

LEMMA Going1 ==
  ASSUME MovesTyped, NEW a \in Actor, NEW step \in StepsOf(a), step \notin Resting,
         pc[a] \notin Resting, Goto(a, step)
  PROVE  Went(a, step) /\ MovesTyped'
<1>1. job[a] \in Job /\ job[a].doc # None
  BY DEF MovesTyped
<1>2. GoWith(a, step, job[a]) /\ step # "idle"
  BY DEF Goto, Resting
<1>. QED  BY <1>1, <1>2, Going DEF Went

LEMMA Leaving ==
  ASSUME MovesTyped, NEW a \in Worker, NEW served \in BOOLEAN,
         pc[a] \in IngestSteps, Leave(a, served)
  PROVE  Ended(a, served) /\ MovesTyped'
<1>1. a \in Actor /\ job[a] \in Job /\ job[a].doc \in Doc /\ a \notin Admin
  <2>1. a \in Actor /\ a \notin Admin /\ job[a] \in Job
    BY Kinds DEF MovesTyped
  <2>2. job[a].doc # None
    BY <2>1 DEF MovesTyped, IngestSteps, Resting
  <2>. QED  BY <2>1, <2>2 DEF Job
<1>2. CASE a = Rehydrator
  <2> DEFINE j == [job[a] EXCEPT !.doc = None, !.blind = FALSE]
  <2>1. GoWith(a, "next", j)
    BY <1>2 DEF Leave
  <2>2. j \in Job /\ j.doc = None /\ j.todo = job[a].todo
    BY <1>1 DEF Job
  <2>3. "next" \in StepsOf(a)
    BY <1>1, <1>2 DEF StepsOf
  <2>. HIDE DEF j
  <2>4. OthersStay(a) /\ MovesTyped' /\ pc'[a] = "next" /\ job'[a] = j
    BY <1>1, <2>1, <2>2, <2>3, Going DEF Resting
  <2>. QED  BY <1>2, <2>2, <2>4 DEF Ended
<1>3. CASE a # Rehydrator /\ (served \/ ~job[a].first)
  <2> DEFINE j == [job[a] EXCEPT !.served = served]
  <2>1. GoWith(a, "finish", j)
    BY <1>3 DEF Leave
  <2>2. j \in Job /\ j.doc = job[a].doc /\ j.todo = job[a].todo /\ j.served = served
    BY <1>1 DEF Job
  <2>3. "finish" \in StepsOf(a)
    BY <1>1, <1>3 DEF StepsOf
  <2>. HIDE DEF j
  <2>4. OthersStay(a) /\ MovesTyped' /\ pc'[a] = "finish" /\ job'[a] = j
    BY <1>1, <2>1, <2>2, <2>3, Going, Kinds DEF Resting
  <2>. QED  BY <1>3, <2>2, <2>4 DEF Ended
<1>4. CASE a # Rehydrator /\ ~ (served \/ ~job[a].first)
  <2> DEFINE j == [job[a] EXCEPT !.first = FALSE]
  <2>1. GoWith(a, "ingest", j)
    BY <1>4 DEF Leave
  <2>2. j \in Job /\ j.doc = job[a].doc /\ j.todo = job[a].todo
    BY <1>1 DEF Job
  <2>3. "ingest" \in StepsOf(a)
    BY <1>1, <1>4 DEF StepsOf, IngestSteps
  <2>. HIDE DEF j
  <2>4. OthersStay(a) /\ MovesTyped' /\ pc'[a] = "ingest" /\ job'[a] = j
    BY <1>1, <2>1, <2>2, <2>3, Going, Kinds DEF Resting
  <2>. QED  BY <1>4, <2>2, <2>4 DEF Ended
<1>. QED  BY <1>2, <1>3, <1>4

-----------------------------------------------------------------------------
(* What one step of an ingest does.                                        *)

(* It ends without having changed anything: refused, or what a failure has  *)
(* left could not be removed.                                              *)
Refused(a) ==
    /\ pc[a] \in {"ingest", "check", "scrub"}
    /\ Ended(a, FALSE) /\ UNCHANGED <<rec, vec>>
    /\ a = Rehydrator => job[a].doc \in blamed'

Hit(a) ==
    /\ pc[a] = "ingest" /\ \E e \in Equal(job[a].doc) : rec[e] = "indexed"
    /\ Ended(a, TRUE) /\ UNCHANGED <<rec, vec>>

Missed(a) == pc[a] = "ingest" /\ Went(a, "check") /\ UNCHANGED <<rec, vec>>

Passed(a) ==
    /\ pc[a] = "check" /\ rec[job[a].doc] \in {"absent", "deleted"}
    /\ Went(a, "insert") /\ UNCHANGED <<rec, vec>>

Scrubbed(a) ==
    /\ Scrub(a) /\ Ended(a, FALSE)
    /\ a = Rehydrator => job[a].doc \in blamed'

Ingested(a) ==
    \/ Refused(a) \/ Hit(a) \/ Missed(a) \/ Passed(a)
    \/ (Insert(a) /\ Went(a, "store"))
    \/ (Store(a) /\ Went(a, "mark"))
    \/ (StoreFails(a) /\ Went(a, "fail"))
    \/ (MarkFailed(a) /\ Went(a, "scrub"))
    \/ Scrubbed(a)
    \/ (MarkIndexed(a) /\ Went(a, "publish"))
    \/ (Publish(a) /\ Ended(a, TRUE))
    \/ (PublishFails(a) /\ Ended(a, FALSE))

LEMMA IngestPlace ==
  ASSUME MovesTyped, NEW a \in Worker, Ingest(a)
  PROVE  /\ a \in Actor /\ pc[a] \in IngestSteps /\ pc[a] \notin Resting
         /\ job[a].doc \in Doc
         /\ IngestSteps \subseteq StepsOf(a) /\ \A s \in IngestSteps : s \notin Resting
         /\ UNCHANGED <<row, text, born, durable, queue, restarts, unpurged>>
<1>1. a \in Actor /\ a \notin Admin /\ job[a] \in Job
  BY Kinds DEF MovesTyped
<1>2. pc[a] \in IngestSteps
  BY DEF Ingest, Reject, Lookup, Check, Insert, Store, StoreFails, MarkFailed, Scrub,
         ScrubFails, MarkIndexed, Publish, PublishFails, IngestSteps
<1>3. \A s \in IngestSteps : s \notin Resting
  BY DEF IngestSteps, Resting
<1>4. job[a].doc # None
  BY <1>1, <1>2, <1>3 DEF MovesTyped
<1>5. job[a].doc \in Doc
  BY <1>1, <1>4 DEF Job
<1>6. UNCHANGED <<row, text, born, durable, queue, restarts, unpurged>>
  BY DEF Ingest, Reject, Lookup, Check, Insert, Store, StoreFails, MarkFailed, Scrub,
         ScrubFails, MarkIndexed, Publish, PublishFails, db, rag, history
<1>7. IngestSteps \subseteq StepsOf(a)
  BY <1>1 DEF StepsOf
<1>. QED  BY <1>1, <1>2, <1>3, <1>5, <1>6, <1>7

LEMMA IngestCases ==
  ASSUME MovesTyped, blamed \in SUBSET Doc, NEW a \in Worker, Ingest(a)
  PROVE  Ingested(a) /\ MovesTyped' /\ blamed \subseteq blamed' /\ blamed' \in SUBSET Doc
<1>1. /\ a \in Actor /\ pc[a] \in IngestSteps /\ pc[a] \notin Resting
      /\ job[a].doc \in Doc
      /\ IngestSteps \subseteq StepsOf(a) /\ \A s \in IngestSteps : s \notin Resting
  BY IngestPlace
<1>2. \A s \in IngestSteps : Goto(a, s) => Went(a, s) /\ MovesTyped'
  BY <1>1, Going1
<1>3. \A served \in BOOLEAN : Leave(a, served) => Ended(a, served) /\ MovesTyped'
  BY <1>1, Leaving
<1>4. \A served \in BOOLEAN : Returned(a, served) =>
         /\ Ended(a, served) /\ MovesTyped' /\ blamed \subseteq blamed' /\ blamed' \in SUBSET Doc
         /\ ~served /\ a = Rehydrator => job[a].doc \in blamed'
  BY <1>1, <1>3 DEF Returned
<1>5. {"check", "insert", "store", "fail", "scrub", "mark", "publish"} \subseteq IngestSteps
  BY DEF IngestSteps
<1>6. CASE Reject(a)
  BY <1>4, <1>6 DEF Reject, Ingested, Refused, rag
<1>7. CASE Lookup(a)
  <2>1. CASE \E e \in Equal(job[a].doc) : rec[e] = "indexed"
    BY <1>3, <1>7, <2>1 DEF Lookup, Ingested, Hit, rag, history
  <2>2. CASE ~ \E e \in Equal(job[a].doc) : rec[e] = "indexed"
    BY <1>2, <1>5, <1>7, <2>2 DEF Lookup, Ingested, Missed, rag, history
  <2>. QED  BY <2>1, <2>2
<1>8. CASE Check(a)
  <2>1. CASE rec[job[a].doc] \in {"absent", "deleted"}
    BY <1>2, <1>5, <1>8, <2>1 DEF Check, Ingested, Passed, rag
  <2>2. CASE rec[job[a].doc] \notin {"absent", "deleted"}
    BY <1>4, <1>8, <2>2 DEF Check, Ingested, Refused, rag
  <2>. QED  BY <2>1, <2>2
<1>9. CASE Insert(a)
  <2>1. blamed \subseteq blamed' /\ blamed' \in SUBSET Doc
    BY <1>9 DEF Insert, Equal
  <2>2. Went(a, "store") /\ MovesTyped'
    BY <1>2, <1>5, <1>9 DEF Insert
  <2>. QED  BY <1>9, <2>1, <2>2 DEF Ingested
<1>10. CASE Store(a)
  BY <1>2, <1>5, <1>10 DEF Store, Ingested, history
<1>11. CASE StoreFails(a)
  BY <1>2, <1>5, <1>11 DEF StoreFails, Ingested, history
<1>12. CASE MarkFailed(a)
  BY <1>2, <1>5, <1>12 DEF MarkFailed, Ingested, history
<1>13. CASE Scrub(a)
  BY <1>4, <1>13 DEF Scrub, Scrubbed, Ingested
<1>14. CASE ScrubFails(a)
  BY <1>4, <1>14 DEF ScrubFails, Refused, Ingested, rag
<1>15. CASE MarkIndexed(a)
  BY <1>2, <1>5, <1>15 DEF MarkIndexed, Ingested, history
<1>16. CASE Publish(a)
  BY <1>4, <1>16 DEF Publish, Ingested
<1>17. CASE PublishFails(a)
  BY <1>3, <1>17 DEF PublishFails, Ingested
<1>. QED
  BY <1>6, <1>7, <1>8, <1>9, <1>10, <1>11, <1>12, <1>13, <1>14, <1>15, <1>16, <1>17 DEF Ingest

(* Whatever the step, it touches its own document only.                    *)
IngestFrame(a) ==
    /\ OthersStay(a)
    /\ job'[a].todo = job[a].todo
    /\ job'[a].doc \in {None, job[a].doc}
    /\ job'[a].doc = job[a].doc => job'[a].blind = job[a].blind \/ a # Rehydrator
    /\ pc'[a] # "start"
    /\ rec' = [rec EXCEPT ![job[a].doc] = rec'[job[a].doc]]
    /\ vec' = [vec EXCEPT ![job[a].doc] = vec'[job[a].doc]]
    /\ rec'[job[a].doc] \in {rec[job[a].doc], "processing", "indexed", "failed"}
    /\ vec'[job[a].doc] \in VecStatus
    /\ vec'[job[a].doc] = "shown" => vec[job[a].doc] = "shown" \/ Publish(a)
    /\ vec[job[a].doc] = "shown" /\ vec'[job[a].doc] # "shown" => Store(a) \/ Scrub(a)

LEMMA IngestFrames ==
  ASSUME TypeInv, NEW a \in Worker, Ingest(a)
  PROVE  IngestFrame(a)
<1>1. /\ a \in Actor /\ job[a].doc \in Doc /\ job[a].doc # None
      /\ rec \in [Doc -> RecStatus] /\ vec \in [Doc -> VecStatus]
  BY IngestPlace, Kinds DEF TypeInv, StoresTyped
<1>2. Ingested(a)
  BY IngestCases DEF TypeInv, StoresTyped
<1>3. ASSUME NEW served \in BOOLEAN, Ended(a, served)
      PROVE  /\ OthersStay(a) /\ job'[a].todo = job[a].todo
             /\ job'[a].doc \in {None, job[a].doc} /\ pc'[a] # "start"
             /\ job'[a].doc = job[a].doc => a # Rehydrator
  BY <1>1, <1>3 DEF Ended
<1>4. ASSUME NEW s \in IngestSteps, Went(a, s)
      PROVE  /\ OthersStay(a) /\ job'[a] = job[a] /\ pc'[a] # "start"
  BY <1>4 DEF Went, IngestSteps
<1>5. {"check", "insert", "store", "fail", "scrub", "mark", "publish"} \subseteq IngestSteps
  BY DEF IngestSteps
<1>6. /\ OthersStay(a)
      /\ job'[a].todo = job[a].todo
      /\ job'[a].doc \in {None, job[a].doc}
      /\ job'[a].doc = job[a].doc => job'[a].blind = job[a].blind \/ a # Rehydrator
      /\ pc'[a] # "start"
  <2>1. (\E served \in BOOLEAN : Ended(a, served)) \/ (\E s \in IngestSteps : Went(a, s))
    BY <1>2, <1>5 DEF Ingested, Refused, Hit, Missed, Passed, Scrubbed
  <2>2. CASE \E served \in BOOLEAN : Ended(a, served)
    BY <1>3, <2>2
  <2>3. CASE \E s \in IngestSteps : Went(a, s)
    BY <1>4, <2>3
  <2>. QED  BY <2>1, <2>2, <2>3
<1>7. CASE UNCHANGED <<rec, vec>>
  BY <1>1, <1>6, <1>7 DEF IngestFrame, VecStatus
<1>8. CASE Insert(a)
  BY <1>1, <1>6, <1>8 DEF IngestFrame, Insert, VecStatus
<1>9. CASE Store(a)
  BY <1>1, <1>6, <1>9 DEF IngestFrame, Store, VecStatus
<1>10. CASE StoreFails(a)
  <2>1. PICK left \in {vec[job[a].doc], "hidden"} :
           /\ vec[job[a].doc] # "none" => left = vec[job[a].doc]
           /\ vec' = [vec EXCEPT ![job[a].doc] = left]
    BY <1>10 DEF StoreFails
  <2>2. rec' = rec
    BY <1>10 DEF StoreFails
  <2>. QED  BY <1>1, <1>6, <2>1, <2>2 DEF IngestFrame, VecStatus
<1>11. CASE MarkFailed(a)
  BY <1>1, <1>6, <1>11 DEF IngestFrame, MarkFailed, VecStatus
<1>12. CASE Scrub(a)
  BY <1>1, <1>6, <1>12 DEF IngestFrame, Scrub, VecStatus
<1>13. CASE MarkIndexed(a)
  BY <1>1, <1>6, <1>13 DEF IngestFrame, MarkIndexed, VecStatus
<1>14. CASE Publish(a)
  BY <1>1, <1>6, <1>14 DEF IngestFrame, Publish, VecStatus
<1>. QED
  BY <1>2, <1>7, <1>8, <1>9, <1>10, <1>11, <1>12, <1>13, <1>14
  DEF Ingested, Refused, Hit, Missed, Passed, Scrubbed, PublishFails, rag

-----------------------------------------------------------------------------
(* What the other steps do to the threads.                                 *)

Became(a, step, j) == OthersStay(a) /\ pc'[a] = step /\ job'[a] = j

LEMMA BeginDeleteMoves ==
  ASSUME MovesTyped, NEW a \in Admin, NEW d \in Doc, BeginDelete(a, d)
  PROVE  Became(a, "read", NewJob(d)) /\ MovesTyped' /\ job[a].doc = None
<1>1. a \in Actor /\ "read" \in StepsOf(a)
  BY Kinds DEF StepsOf
<1>2. NewJob(d) \in Job /\ NewJob(d).doc # None
  BY NewJobTyped, Kinds
<1>3. GoWith(a, "read", NewJob(d)) /\ pc[a] = "idle"
  BY DEF BeginDelete
<1>. QED  BY <1>1, <1>2, <1>3, Going DEF Resting, Became, MovesTyped

LEMMA TakeTaskMoves ==
  ASSUME MovesTyped, queue \in Seq(Doc), NEW a \in Thread, TakeTask(a)
  PROVE  /\ queue # <<>> /\ Head(queue) \in Doc
         /\ Became(a, "ingest", NewJob(Head(queue))) /\ MovesTyped' /\ job[a].doc = None
<1>1. a \in Actor /\ "ingest" \in StepsOf(a)
  BY Kinds DEF StepsOf, IngestSteps
<1>2. queue # <<>> /\ Head(queue) \in Doc
  BY DEF TakeTask
<1>3. NewJob(Head(queue)) \in Job /\ NewJob(Head(queue)).doc # None
  BY <1>2, NewJobTyped, Kinds
<1>4. GoWith(a, "ingest", NewJob(Head(queue))) /\ pc[a] = "idle"
  BY DEF TakeTask
<1>. QED  BY <1>1, <1>2, <1>3, <1>4, Going DEF Resting, Became, MovesTyped

LEMMA IdleMoves ==
  ASSUME MovesTyped, NEW a \in Actor, Goto(a, "idle")
  PROVE  Became(a, "idle", IdleJob) /\ MovesTyped'
<1>1. "idle" \in StepsOf(a) /\ job[a] \in Job
  BY DEF StepsOf, MovesTyped
<1>2. GoWith(a, "idle", job[a])
  BY DEF Goto
<1>. QED  BY <1>1, <1>2, Going DEF Became

LEMMA WriteRowMoves ==
  ASSUME MovesTyped, NEW a \in Thread, WriteRow(a)
  PROVE  Became(a, "idle", IdleJob) /\ MovesTyped' /\ job[a].doc \in Doc
<1>1. a \in Actor /\ Goto(a, "idle") /\ pc[a] = "finish"
  BY Kinds DEF WriteRow
<1>2. job[a].doc \in Doc
  BY <1>1 DEF MovesTyped, Job, Resting
<1>. QED  BY <1>1, <1>2, IdleMoves

LEMMA SnapshotMoves ==
  ASSUME MovesTyped, text \in SUBSET Doc, Snapshot
  PROVE  /\ MovesTyped'
         /\ Became(Rehydrator, "next", [IdleJob EXCEPT !.todo = text])
<1>1. Rehydrator \in Actor /\ "next" \in StepsOf(Rehydrator)
  BY Kinds DEF StepsOf
<1>2. /\ [IdleJob EXCEPT !.todo = text] \in Job
      /\ [IdleJob EXCEPT !.todo = text].doc = None
  BY DEF IdleJob, Job
<1>3. GoWith(Rehydrator, "next", [IdleJob EXCEPT !.todo = text])
  BY DEF Snapshot
<1>. QED  BY <1>1, <1>2, <1>3, Going DEF Resting, Became

LEMMA RowsDoneMoves ==
  ASSUME MovesTyped, RowsDone
  PROVE  Became(Rehydrator, "idle", IdleJob) /\ MovesTyped'
  BY IdleMoves, Kinds DEF RowsDone

(* The re-hydration takes d from its list, to ingest it or to leave it.     *)
Took(d, step, blind) ==
    /\ d \in job[Rehydrator].todo
    /\ OthersStay(Rehydrator)
    /\ pc'[Rehydrator] = step
    /\ job'[Rehydrator].doc = IF step = "next" THEN None ELSE d
    /\ job'[Rehydrator].todo = job[Rehydrator].todo \ {d}
    /\ job'[Rehydrator].blind = blind

LEMMA TakeMoves ==
  ASSUME MovesTyped, NEW d \in job[Rehydrator].todo, NEW step \in {"next", "ingest"},
         NEW blind \in BOOLEAN, Take(d, step, blind)
  PROVE  Took(d, step, blind) /\ MovesTyped' /\ d \in Doc
<1> DEFINE j == [job[Rehydrator] EXCEPT !.doc = IF step = "next" THEN None ELSE d,
                                        !.todo = @ \ {d}, !.blind = blind]
<1>1. Rehydrator \in Actor /\ step \in StepsOf(Rehydrator)
  BY Kinds DEF StepsOf, IngestSteps
<1>2. job[Rehydrator] \in Job /\ d \in Doc
  BY <1>1 DEF MovesTyped, Job
<1>3. /\ j \in Job /\ j.doc = (IF step = "next" THEN None ELSE d)
      /\ j.todo = job[Rehydrator].todo \ {d} /\ j.blind = blind
  BY <1>2 DEF Job
<1>4. GoWith(Rehydrator, step, j)
  BY DEF Take
<1>. HIDE DEF j
<1>5. step \in Resting <=> j.doc = None
  BY <1>2, <1>3, Kinds DEF Resting
<1>6. OthersStay(Rehydrator) /\ MovesTyped' /\ pc'[Rehydrator] = step /\ job'[Rehydrator] = j
  BY <1>1, <1>3, <1>4, <1>5, Going
<1>. QED  BY <1>2, <1>3, <1>6 DEF Took

LEMMA RehydrateMoves ==
  ASSUME MovesTyped, NextRow \/ CountFails
  PROVE  /\ pc[Rehydrator] = "next" /\ job[Rehydrator].doc = None
         /\ MovesTyped' /\ UNCHANGED <<db, rag, queue, restarts, history>>
         /\ \E d \in Doc :
               \/ Took(d, "next", FALSE) /\ vec[d] # "none"
               \/ Took(d, "ingest", FALSE) /\ vec[d] = "none"
               \/ Took(d, "ingest", TRUE)
<1>1. pc[Rehydrator] = "next" /\ UNCHANGED <<db, rag, queue, restarts, history>>
  BY DEF NextRow, CountFails
<1>2. job[Rehydrator].doc = None
  BY <1>1, Kinds DEF MovesTyped, Resting
<1>3. CASE NextRow
  <2>1. PICK d \in job[Rehydrator].todo :
           Take(d, IF vec[d] # "none" THEN "next" ELSE "ingest", FALSE)
    BY <1>3 DEF NextRow
  <2>2. Took(d, IF vec[d] # "none" THEN "next" ELSE "ingest", FALSE) /\ MovesTyped' /\ d \in Doc
    BY <2>1, TakeMoves
  <2>. QED  BY <1>1, <1>2, <2>2
<1>4. CASE CountFails
  <2>1. PICK d \in job[Rehydrator].todo : Take(d, "ingest", TRUE)
    BY <1>4 DEF CountFails
  <2>2. Took(d, "ingest", TRUE) /\ MovesTyped' /\ d \in Doc
    BY <2>1, TakeMoves
  <2>. QED  BY <1>1, <1>2, <2>2
<1>. QED  BY <1>3, <1>4

(* A deletion holds its document until the row is gone.                    *)
DeleteFrame(a) ==
    /\ OthersStay(a)
    /\ job[a].doc \in Doc
    /\ job'[a].doc = IF DropRow(a) THEN None ELSE job[a].doc
    /\ UNCHANGED <<born, durable, queue, restarts>>
    /\ \/ ReadRecord(a) /\ pc'[a] = "purge"
          /\ job'[a].tomb = (rec[job[a].doc] \notin {"absent", "deleted"})
       \/ Purge(a) /\ pc'[a] = (IF job[a].tomb THEN "tomb" ELSE "drop")
       \/ PurgeFails(a) /\ pc'[a] = (IF job[a].tomb THEN "purge" ELSE "drop") /\ ~job'[a].tomb
       \/ Tombstone(a) /\ pc'[a] = "drop"
       \/ DropRow(a) /\ pc'[a] = "idle"

LEMMA DeleteMoves ==
  ASSUME MovesTyped, NEW a \in Admin, Delete(a)
  PROVE  DeleteFrame(a) /\ MovesTyped'
<1>1. /\ a \in Actor /\ job[a] \in Job
      /\ {"idle", "purge", "tomb", "drop"} \subseteq StepsOf(a)
  BY Kinds DEF MovesTyped, StepsOf
<1>2. pc[a] \in {"read", "purge", "tomb", "drop"} /\ UNCHANGED <<born, durable, queue, restarts>>
  BY DEF Delete, ReadRecord, Purge, PurgeFails, Tombstone, DropRow, db, rag
<1>3. pc[a] \notin Resting /\ job[a].doc \in Doc /\ job[a].doc # None
  BY <1>1, <1>2 DEF Resting, MovesTyped, Job
<1>4. \A t \in BOOLEAN : /\ [job[a] EXCEPT !.tomb = t] \in Job
                         /\ [job[a] EXCEPT !.tomb = t].doc = job[a].doc
                         /\ [job[a] EXCEPT !.tomb = t].tomb = t
  BY <1>1 DEF Job
<1>5. "purge" \notin Resting /\ "tomb" \notin Resting /\ "drop" \notin Resting
  BY DEF Resting
<1>6. CASE ReadRecord(a)
  <2> DEFINE j == [job[a] EXCEPT !.tomb = rec[job[a].doc] \notin {"absent", "deleted"}]
  <2>1. GoWith(a, "purge", j) /\ ~ DropRow(a)
    BY <1>6 DEF ReadRecord, DropRow
  <2>2. j \in Job /\ j.doc = job[a].doc /\ j.tomb = (rec[job[a].doc] \notin {"absent", "deleted"})
    BY <1>4
  <2>. HIDE DEF j
  <2>3. OthersStay(a) /\ MovesTyped' /\ pc'[a] = "purge" /\ job'[a] = j
    BY <1>1, <1>3, <1>5, <2>1, <2>2, Going
  <2>. QED  BY <1>2, <1>3, <1>6, <2>1, <2>2, <2>3 DEF DeleteFrame
<1>7. CASE Purge(a)
  <2>1. Went(a, IF job[a].tomb THEN "tomb" ELSE "drop") /\ MovesTyped'
    BY <1>1, <1>3, <1>5, <1>7, Going1 DEF Purge
  <2>2. ~ DropRow(a)
    BY <1>7 DEF Purge, DropRow
  <2>. QED  BY <1>2, <1>3, <1>7, <2>1, <2>2 DEF DeleteFrame, Went
<1>8. CASE PurgeFails(a)
  <2> DEFINE j == [job[a] EXCEPT !.tomb = FALSE]
             s == IF job[a].tomb THEN "purge" ELSE "drop"
  <2>1. GoWith(a, s, j) /\ ~ DropRow(a)
    BY <1>8 DEF PurgeFails, DropRow
  <2>2. j \in Job /\ j.doc = job[a].doc /\ j.tomb = FALSE /\ s \in StepsOf(a) /\ s \notin Resting
    BY <1>1, <1>4, <1>5
  <2>. HIDE DEF j
  <2>3. OthersStay(a) /\ MovesTyped' /\ pc'[a] = s /\ job'[a] = j
    BY <1>1, <1>3, <1>5, <2>1, <2>2, Going
  <2>. QED  BY <1>2, <1>3, <1>8, <2>1, <2>2, <2>3 DEF DeleteFrame
<1>9. CASE Tombstone(a)
  <2>1. Went(a, "drop") /\ MovesTyped'
    BY <1>1, <1>3, <1>5, <1>9, Going1 DEF Tombstone
  <2>2. ~ DropRow(a)
    BY <1>9 DEF Tombstone, DropRow
  <2>. QED  BY <1>2, <1>3, <1>9, <2>1, <2>2 DEF DeleteFrame, Went
<1>10. CASE DropRow(a)
  <2>1. Became(a, "idle", IdleJob) /\ MovesTyped'
    BY <1>1, <1>10, IdleMoves DEF DropRow
  <2>. QED  BY <1>2, <1>3, <1>10, <2>1, IdleJobTyped DEF DeleteFrame, Became
<1>. QED  BY <1>6, <1>7, <1>8, <1>9, <1>10 DEF Delete

LEMMA RestartMoves ==
  ASSUME Restart
  PROVE  /\ MovesTyped'
         /\ \A a \in Actor : job'[a].doc = None /\ job'[a].todo = {}
         /\ \A a \in Actor : pc'[a] = IF a = Rehydrator THEN "start" ELSE "idle"
<1>1. /\ pc' = [a \in Actor |-> IF a = Rehydrator THEN "start" ELSE "idle"]
      /\ job' = [a \in Actor |-> IdleJob]
  BY DEF Restart
<1>2. \A a \in Actor : pc'[a] \in StepsOf(a)
  BY <1>1, Kinds DEF StepsOf
<1>. QED  BY <1>1, <1>2, IdleJobTyped DEF MovesTyped, Steps, Resting

(* One case for every kind of step.                                        *)
LEMMA StepCases ==
  ASSUME [Next]_vars
  PROVE  \/ UNCHANGED vars
         \/ \E d \in Doc : Upload(d)
         \/ \E a \in Admin, d \in Doc : BeginDelete(a, d)
         \/ \E a \in Thread : TakeTask(a) \/ WriteRow(a)
         \/ \E a \in Worker : Ingest(a)
         \/ \E a \in Admin : Delete(a)
         \/ Snapshot \/ RowsDone \/ NextRow \/ CountFails \/ Restart
  BY DEF Next, Request, Task, Rehydrate, AllDone, Worker

-----------------------------------------------------------------------------
(* Type correctness.                                                       *)

LEMMA InitTypes == Init => TypeInv
<1>. SUFFICES ASSUME Init  PROVE TypeInv
  OBVIOUS
<1>1. MovesTyped
  <2>1. \A a \in Actor : pc[a] \in StepsOf(a)
    BY Kinds DEF Init, StepsOf
  <2>. QED  BY <2>1, IdleJobTyped DEF Init, MovesTyped, Steps, Resting
<1>2. StoresTyped
  BY AdminAssumption DEF Init, StoresTyped, RowStatus, RecStatus, VecStatus
<1>. QED  BY <1>1, <1>2 DEF TypeInv

LEMMA NextTypes == TypeInv /\ [Next]_vars => TypeInv'
<1>. SUFFICES ASSUME TypeInv, [Next]_vars  PROVE TypeInv'
  OBVIOUS
<1>1. /\ MovesTyped /\ StoresTyped /\ queue \in Seq(Doc) /\ text \in SUBSET Doc
      /\ blamed \in SUBSET Doc /\ restarts \in Nat /\ MaxRestarts \in Nat
      /\ unpurged \in SUBSET Doc
  BY AdminAssumption DEF TypeInv, StoresTyped
<1>2. CASE UNCHANGED vars
  BY <1>2 DEF vars, TypeInv, MovesTyped, StoresTyped
<1>3. ASSUME NEW d \in Doc, Upload(d)  PROVE TypeInv'
  <2>1. MovesTyped'
    BY <1>1, <1>3 DEF Upload, MovesTyped
  <2>2. queue' \in Seq(Doc) /\ text' \in SUBSET Doc
    BY <1>1, <1>3 DEF Upload
  <2>3. row' \in [Doc -> RowStatus] /\ born' \in [Doc -> 0..(restarts + 1)]
    BY <1>1, <1>3 DEF Upload, StoresTyped, RowStatus
  <2>. QED  BY <1>1, <1>3, <2>1, <2>2, <2>3 DEF Upload, TypeInv, StoresTyped, rag, history
<1>4. ASSUME NEW a \in Admin, NEW d \in Doc, BeginDelete(a, d)  PROVE TypeInv'
  BY <1>1, <1>4, BeginDeleteMoves DEF BeginDelete, TypeInv, StoresTyped, db, rag, history
<1>5. ASSUME NEW a \in Thread, TakeTask(a)  PROVE TypeInv'
  <2>1. MovesTyped' /\ queue' \in Seq(Doc)
    BY <1>1, <1>5, TakeTaskMoves DEF TakeTask
  <2>. QED  BY <1>1, <1>5, <2>1 DEF TakeTask, TypeInv, StoresTyped, db, rag, history
<1>6. ASSUME NEW a \in Thread, WriteRow(a)  PROVE TypeInv'
  <2>1. MovesTyped' /\ job[a].doc \in Doc
    BY <1>1, <1>6, WriteRowMoves
  <2>2. row' \in [Doc -> RowStatus] /\ text' \in SUBSET Doc
    BY <1>1, <1>6, <2>1 DEF WriteRow, StoresTyped, RowStatus
  <2>. QED  BY <1>1, <1>6, <2>1, <2>2 DEF WriteRow, TypeInv, StoresTyped, rag, history
<1>7. ASSUME NEW a \in Worker, Ingest(a)  PROVE TypeInv'
  <2>1. MovesTyped' /\ blamed' \in SUBSET Doc
    BY <1>1, <1>7, IngestCases
  <2>2. IngestFrame(a) /\ UNCHANGED <<row, text, born, durable, queue, restarts, unpurged>>
        /\ job[a].doc \in Doc
    BY <1>1, <1>7, IngestFrames, IngestPlace
  <2>3. rec' \in [Doc -> RecStatus]
    <3>1. rec'[job[a].doc] \in RecStatus
      BY <1>1, <2>2 DEF IngestFrame, StoresTyped, RecStatus
    <3>. QED  BY <1>1, <2>2, <3>1 DEF IngestFrame, StoresTyped
  <2>4. vec' \in [Doc -> VecStatus]
    BY <1>1, <2>2 DEF IngestFrame, StoresTyped
  <2>. QED  BY <1>1, <2>1, <2>2, <2>3, <2>4 DEF TypeInv, StoresTyped
<1>8. ASSUME NEW a \in Admin, Delete(a)  PROVE TypeInv'
  <2>1. DeleteFrame(a) /\ MovesTyped' /\ job[a].doc \in Doc
        /\ UNCHANGED <<born, durable, queue, restarts>>
    BY <1>1, <1>8, DeleteMoves DEF DeleteFrame
  <2>2. row' \in [Doc -> RowStatus] /\ text' \in SUBSET Doc
    BY <1>1, <1>8, <2>1
    DEF Delete, ReadRecord, Purge, PurgeFails, Tombstone, DropRow, db, StoresTyped, RowStatus
  <2>3. rec' \in [Doc -> RecStatus] /\ vec' \in [Doc -> VecStatus]
    BY <1>1, <1>8, <2>1
    DEF Delete, ReadRecord, Purge, PurgeFails, Tombstone, DropRow, rag, StoresTyped,
        RecStatus, VecStatus
  <2>4. blamed' \in SUBSET Doc /\ unpurged' \in SUBSET Doc
    BY <1>1, <1>8, <2>1
    DEF Delete, ReadRecord, Purge, PurgeFails, Tombstone, DropRow, history, Equal
  <2>. QED  BY <1>1, <2>1, <2>2, <2>3, <2>4 DEF TypeInv, StoresTyped
<1>9. CASE Snapshot
  BY <1>1, <1>9, SnapshotMoves DEF Snapshot, TypeInv, StoresTyped, db, rag, history
<1>10. CASE RowsDone
  BY <1>1, <1>10, RowsDoneMoves DEF RowsDone, TypeInv, StoresTyped, db, rag, history
<1>11. CASE NextRow \/ CountFails
  BY <1>1, <1>11, RehydrateMoves DEF TypeInv, StoresTyped, db, rag, history
<1>12. CASE Restart
  <2>1. MovesTyped'
    BY <1>12, RestartMoves
  <2>2. restarts' \in 0..MaxRestarts /\ born' \in [Doc -> 0..(restarts' + 1)]
    BY <1>1, <1>12 DEF Restart, db, StoresTyped
  <2>3. rec' \in [Doc -> RecStatus] /\ vec' \in [Doc -> VecStatus]
    BY <1>1, <1>12 DEF Restart, StoresTyped, RecStatus, VecStatus
  <2>4. blamed' \in SUBSET Doc /\ unpurged' \in SUBSET Doc /\ queue' \in Seq(Doc)
    BY <1>1, <1>12 DEF Restart
  <2>. QED  BY <1>1, <1>12, <2>1, <2>2, <2>3, <2>4 DEF Restart, db, TypeInv, StoresTyped
<1>. QED
  BY <1>2, <1>3, <1>4, <1>5, <1>6, <1>7, <1>8, <1>9, <1>10, <1>11, <1>12, StepCases

LEMMA TypesAlways == Spec => []TypeInv
  BY InitTypes, NextTypes, PTL DEF Spec

(* Every variable keeps its type, whatever overlaps, fails or restarts; a   *)
(* thread that rests holds no document.                                    *)
THEOREM AdminTyped == Spec => []TypeOK
<1>1. TypeInv => TypeOK
  BY AdminAssumption DEF TypeInv, MovesTyped, StoresTyped, TypeOK, Resting
<1>. QED  BY <1>1, TypesAlways, PTL

-----------------------------------------------------------------------------
(* Tasks are of the present run of the process; what the re-hydration has  *)
(* in hand was not searchable when it took it.                             *)

Queued(d) == \E i \in DOMAIN queue : queue[i] = d

Fresh(d) == born[d] = restarts + 1

FreshInv ==
    /\ \A d \in Doc : Queued(d) => Fresh(d)
    /\ \A a \in Thread, d \in Doc : job[a].doc = d => Fresh(d)
    /\ \A d \in Doc : job[Rehydrator].doc = d /\ ~job[Rehydrator].blind =>
          Fresh(d) \/ vec[d] # "shown"

LEMMA QueuedAfter ==
  ASSUME queue \in Seq(Doc)
  PROVE  /\ \A d, e \in Doc : queue' = Append(queue, d) =>
               (Queued(e)' <=> Queued(e) \/ e = d)
         /\ queue # <<>> /\ queue' = Tail(queue) =>
               \A e \in Doc : /\ Queued(e)' => Queued(e)
                              /\ Queued(e) => Queued(e)' \/ e = Head(queue)
         /\ queue # <<>> => Queued(Head(queue))
<1>1. ASSUME NEW d \in Doc, NEW e \in Doc, queue' = Append(queue, d)
      PROVE  Queued(e)' <=> Queued(e) \/ e = d
  BY <1>1 DEF Queued
<1>2. ASSUME queue # <<>>, queue' = Tail(queue), NEW e \in Doc
      PROVE  Queued(e)' => Queued(e)
  BY <1>2 DEF Queued
<1>3. ASSUME queue # <<>>, queue' = Tail(queue), NEW e \in Doc, Queued(e), e # Head(queue)
      PROVE  Queued(e)'
  <2>1. PICK i \in DOMAIN queue : queue[i] = e
    BY <1>3 DEF Queued
  <2>2. i # 1 /\ i \in 1..Len(queue)
    BY <1>3, <2>1
  <2>3. i - 1 \in DOMAIN queue' /\ queue'[i - 1] = e
    BY <1>3, <2>1, <2>2
  <2>. QED  BY <2>3 DEF Queued
<1>4. queue # <<>> => Queued(Head(queue))
  BY DEF Queued
<1>. QED  BY <1>1, <1>2, <1>3, <1>4

LEMMA InitFresh == Init => FreshInv
  BY IdleJobTyped, Kinds DEF Init, FreshInv, Queued

LEMMA NextFresh == TypeInv /\ FreshInv /\ [Next]_vars => FreshInv'
<1>. SUFFICES ASSUME TypeInv, FreshInv, [Next]_vars  PROVE FreshInv'
  OBVIOUS
<1>1. /\ MovesTyped /\ StoresTyped /\ queue \in Seq(Doc) /\ text \in SUBSET Doc
      /\ blamed \in SUBSET Doc /\ restarts \in Nat /\ born \in [Doc -> Nat]
      /\ vec \in [Doc -> VecStatus]
  BY DEF TypeInv, StoresTyped
<1>2. /\ \A a \in Thread : job[a].doc \in Doc \cup {None} /\ a # Rehydrator
      /\ job[Rehydrator].doc \in Doc \cup {None}
  BY <1>1, Kinds DEF MovesTyped, Job
<1>3. CASE UNCHANGED vars
  BY <1>3 DEF vars, FreshInv, Fresh, Queued
<1>4. ASSUME NEW d \in Doc, Upload(d)  PROVE FreshInv'
  <2>1. /\ ~ Fresh(d) /\ Fresh(d)' /\ \A e \in Doc : e # d => (Fresh(e)' <=> Fresh(e))
        /\ queue' = Append(queue, d) /\ UNCHANGED <<vec, pc, job>>
    BY <1>1, <1>4 DEF Upload, Fresh, rag
  <2>2. \A e \in Doc : Queued(e)' => Fresh(e)'
    BY <1>1, <2>1, QueuedAfter DEF FreshInv
  <2>. QED  BY <1>2, <2>1, <2>2 DEF FreshInv
<1>5. ASSUME NEW a \in Admin, NEW d \in Doc, BeginDelete(a, d)  PROVE FreshInv'
  <2>1. OthersStay(a) /\ UNCHANGED <<vec, queue, born, restarts>>
    BY <1>1, <1>5, BeginDeleteMoves DEF BeginDelete, Became, db, rag
  <2>. QED  BY <2>1, Kinds DEF FreshInv, Fresh, Queued, OthersStay
<1>6. ASSUME NEW a \in Thread, TakeTask(a)  PROVE FreshInv'
  <2>1. /\ OthersStay(a) /\ job'[a].doc = Head(queue) /\ Head(queue) \in Doc
        /\ queue # <<>> /\ queue' = Tail(queue)
        /\ UNCHANGED <<vec, born, restarts>>
    BY <1>1, <1>6, TakeTaskMoves, NewJobTyped DEF TakeTask, Became, db, rag
  <2>2. Fresh(Head(queue)) /\ \A e \in Doc : Queued(e)' => Queued(e)
    BY <1>1, <2>1, QueuedAfter DEF FreshInv
  <2>. QED  BY <2>1, <2>2, Kinds DEF FreshInv, Fresh, OthersStay
<1>7. ASSUME NEW a \in Thread, WriteRow(a)  PROVE FreshInv'
  <2>1. OthersStay(a) /\ job'[a].doc = None /\ UNCHANGED <<vec, queue, born, restarts>>
    BY <1>1, <1>7, WriteRowMoves, IdleJobTyped DEF WriteRow, Became, rag
  <2>. QED  BY <2>1, Kinds DEF FreshInv, Fresh, Queued, OthersStay
<1>8. ASSUME NEW a \in Worker, Ingest(a)  PROVE FreshInv'
  <2>1. IngestFrame(a) /\ UNCHANGED <<born, queue, restarts>> /\ job[a].doc \in Doc
    BY <1>1, <1>8, IngestFrames, IngestPlace
  <2>2. \A e \in Doc : Fresh(e)' <=> Fresh(e)
    BY <2>1 DEF Fresh
  <2>3. \A d \in Doc : Queued(d)' => Fresh(d)'
    BY <2>1, <2>2 DEF FreshInv, Queued
  <2>4. ASSUME NEW b \in Thread, NEW d \in Doc, job'[b].doc = d  PROVE Fresh(d)'
    <3>1. job[b].doc = d
      BY <1>2, <2>1, <2>4, Kinds DEF IngestFrame, OthersStay
    <3>. QED  BY <2>2, <3>1 DEF FreshInv
  <2>5. ASSUME NEW d \in Doc, job'[Rehydrator].doc = d, ~job'[Rehydrator].blind, ~Fresh(d)'
        PROVE  vec'[d] # "shown"
    <3>1. CASE a # Rehydrator
      <4>1. job'[Rehydrator] = job[Rehydrator] /\ job[Rehydrator].doc \in Doc /\ a \in Thread
        BY <1>2, <2>1, <2>5, <3>1, Kinds DEF IngestFrame, OthersStay, Worker
      <4>2. Fresh(job[a].doc) /\ ~Fresh(d)
        BY <2>1, <2>2, <2>5, <4>1, Kinds DEF FreshInv
      <4>3. vec'[d] = vec[d]
        BY <1>1, <2>1, <4>1, <4>2 DEF IngestFrame
      <4>. QED  BY <2>2, <2>5, <4>1, <4>2, <4>3 DEF FreshInv
    <3>2. CASE a = Rehydrator
      <4>1. job'[a].doc = d /\ job[a].doc = d /\ ~ job[a].blind /\ ~ Fresh(d)
        BY <2>1, <2>2, <2>5, <3>2, Kinds DEF IngestFrame
      <4>2. ~ Publish(a)
        <5>. SUFFICES ASSUME Publish(a)  PROVE FALSE
          OBVIOUS
        <5>1. pc[a] = "publish" /\ Leave(a, TRUE)
          BY DEF Publish, Returned
        <5>2. Ended(a, TRUE)
          BY <1>1, <5>1, Leaving DEF IngestSteps
        <5>. QED  BY <3>2, <4>1, <5>2, Kinds DEF Ended
      <4>3. vec[d] # "shown"
        BY <3>2, <4>1 DEF FreshInv
      <4>. QED  BY <2>1, <3>2, <4>1, <4>2, <4>3 DEF IngestFrame
    <3>. QED  BY <3>1, <3>2
  <2>. QED  BY <2>3, <2>4, <2>5 DEF FreshInv
<1>9. ASSUME NEW a \in Admin, Delete(a)  PROVE FreshInv'
  <2>1. OthersStay(a) /\ UNCHANGED <<born, queue, restarts>> /\ job[a].doc \in Doc
    BY <1>1, <1>9, DeleteMoves DEF DeleteFrame
  <2>2. \A e \in Doc : vec'[e] = vec[e] \/ vec'[e] = "none"
    BY <1>1, <1>9, <2>1 DEF Delete, ReadRecord, Purge, PurgeFails, Tombstone, DropRow, rag
  <2>3. \A b \in Worker : job'[b] = job[b]
    BY <2>1, Kinds DEF OthersStay
  <2>4. \A e \in Doc : (Fresh(e)' <=> Fresh(e)) /\ (Queued(e)' <=> Queued(e))
    BY <2>1 DEF Fresh, Queued
  <2>5. \A b \in Thread, d \in Doc : job'[b].doc = d => Fresh(d)'
    BY <2>3, <2>4, Kinds DEF FreshInv, Worker
  <2>6. \A d \in Doc : job'[Rehydrator].doc = d /\ ~job'[Rehydrator].blind =>
           Fresh(d)' \/ vec'[d] # "shown"
    BY <1>2, <2>2, <2>3, <2>4, Kinds DEF FreshInv
  <2>. QED  BY <2>4, <2>5, <2>6 DEF FreshInv
<1>10. CASE Snapshot \/ RowsDone
  <2>1. /\ OthersStay(Rehydrator) /\ job'[Rehydrator].doc = None
        /\ UNCHANGED <<vec, queue, born, restarts>>
    BY <1>1, <1>10, SnapshotMoves, RowsDoneMoves, IdleJobTyped
    DEF Snapshot, RowsDone, Became, IdleJob, db, rag
  <2>. QED  BY <2>1, Kinds DEF FreshInv, Fresh, Queued, OthersStay
<1>11. CASE NextRow \/ CountFails
  <2>1. UNCHANGED <<vec, queue, born, restarts>>
    BY <1>1, <1>11, RehydrateMoves DEF db, rag
  <2>2. PICK d \in Doc : \/ Took(d, "next", FALSE) /\ vec[d] # "none"
                         \/ Took(d, "ingest", FALSE) /\ vec[d] = "none"
                         \/ Took(d, "ingest", TRUE)
    BY <1>1, <1>11, RehydrateMoves
  <2>3. /\ OthersStay(Rehydrator)
        /\ job'[Rehydrator].doc # None /\ ~job'[Rehydrator].blind =>
              job'[Rehydrator].doc = d /\ vec[d] = "none"
    BY <2>2 DEF Took
  <2>. QED  BY <2>1, <2>3, Kinds DEF FreshInv, Fresh, Queued, OthersStay
<1>12. CASE Restart
  <2>1. /\ \A a \in Actor : job'[a].doc = None
        /\ queue' = <<>>
    BY <1>12, RestartMoves DEF Restart
  <2>. QED  BY <2>1, Kinds DEF FreshInv, Queued
<1>. QED
  BY <1>3, <1>4, <1>5, <1>6, <1>7, <1>8, <1>9, <1>10, <1>11, <1>12, StepCases

(* What an earlier run of the process made searchable stays so: only a     *)
(* delete, a failed count or, with the memory backend, the restart itself  *)
(* takes it out of the index; the re-hydration leaves it alone.            *)
THEOREM ServedLasts == Spec => StaysServed
<1> DEFINE Lost(d) == born[d] \in 1..restarts /\ vec[d] = "shown" /\ vec'[d] # "shown"
           Cause(d) == \/ restarts' # restarts /\ ~durable
                       \/ \E a \in Admin : job[a].doc = d /\ pc[a] = "purge"
                       \/ job[Rehydrator].doc = d /\ job[Rehydrator].blind
<1>1. ASSUME TypeInv, FreshInv, [Next]_vars, NEW d \in Doc, Lost(d)
      PROVE  Cause(d)
  <2>1. /\ MovesTyped /\ restarts \in Nat /\ vec \in [Doc -> VecStatus]
        /\ ~ Fresh(d)
    BY <1>1 DEF TypeInv, StoresTyped, Fresh
  <2>2. vec' # vec
    BY <1>1
  <2>3. ASSUME NEW a \in Worker, Ingest(a)  PROVE Cause(d)
    <3>1. job[a].doc = d
      BY <1>1, <2>1, <2>3, IngestFrames DEF IngestFrame
    <3>2. CASE a \in Thread
      BY <1>1, <2>1, <3>1, <3>2, Kinds DEF FreshInv
    <3>3. CASE a = Rehydrator
      BY <1>1, <2>1, <3>1, <3>3, Kinds DEF FreshInv
    <3>. QED  BY <3>2, <3>3 DEF Worker
  <2>4. ASSUME NEW a \in Admin, Delete(a)  PROVE Cause(d)
    <3>1. Purge(a) /\ job[a].doc = d
      BY <1>1, <2>1, <2>2, <2>4 DEF Delete, ReadRecord, Purge, PurgeFails, Tombstone, DropRow, rag
    <3>. QED  BY <2>4, <3>1 DEF Purge
  <2>5. CASE Restart
    BY <1>1, <2>1, <2>2, <2>5 DEF Restart
  <2>6. ASSUME NEW a \in Thread, TakeTask(a) \/ WriteRow(a)  PROVE FALSE
    BY <2>2, <2>6 DEF TakeTask, WriteRow, rag
  <2>7. ~ (\E e \in Doc : Upload(e)) /\ ~ (\E a \in Admin, e \in Doc : BeginDelete(a, e))
    BY <2>2 DEF Upload, BeginDelete, rag
  <2>8. ~ Snapshot /\ ~ RowsDone /\ ~ NextRow /\ ~ CountFails /\ ~ (UNCHANGED vars)
    BY <2>2 DEF Snapshot, RowsDone, NextRow, CountFails, rag, vars
  <2>. QED  BY <1>1, <2>3, <2>4, <2>5, <2>6, <2>7, <2>8, StepCases
<1>2. TypeInv /\ FreshInv /\ [Next]_vars =>
         [\A d \in Doc : born[d] \in 1..restarts /\ vec[d] = "shown" /\ vec'[d] # "shown" =>
             \/ restarts' # restarts /\ ~durable
             \/ \E a \in Admin : job[a].doc = d /\ pc[a] = "purge"
             \/ job[Rehydrator].doc = d /\ job[Rehydrator].blind]_vars
  BY <1>1
<1>3. Spec => [](TypeInv /\ FreshInv)
  <2>1. Init => TypeInv /\ FreshInv
    BY InitTypes, InitFresh
  <2>2. TypeInv /\ FreshInv /\ [Next]_vars => (TypeInv /\ FreshInv)'
    BY NextTypes, NextFresh
  <2>. QED  BY <2>1, <2>2, PTL DEF Spec
<1>. QED  BY <1>2, <1>3, PTL DEF Spec, StaysServed

-----------------------------------------------------------------------------
(* Who may make something of a document, and what its deletion leaves.     *)

Working(d) ==
    \/ Queued(d)
    \/ \E a \in Worker : job[a].doc = d
    \/ d \in job[Rehydrator].todo

Deleting(d) == \E a \in Admin : job[a].doc = d

Rowed == \A d \in Doc : Working(d) \/ Deleting(d) \/ d \in text => row[d] # "none"

Born ==
    \A d \in Doc : /\ row[d] # "none" => born[d] # 0
                   /\ born[d] = 0 => rec[d] = "absent" /\ vec[d] = "none"

Separate == \A d \in Doc : Deleting(d) => ~Working(d) /\ pc[Rehydrator] # "start"

OneDelete ==
    \A a, b \in Admin, d \in Doc : job[a].doc = d /\ job[b].doc = d => a = b

Gone ==
    \A a \in Admin, d \in Doc : job[a].doc = d =>
       /\ pc[a] = "tomb" => vec[d] = "none"
       /\ pc[a] = "drop" => vec[d] = "none" \/ d \in unpurged

Buried == \A d \in Doc : rec[d] = "deleted" => row[d] = "none" \/ Deleting(d)

ClaimInv == Rowed /\ Born /\ Separate /\ OneDelete /\ Gone /\ Buried /\ NoOrphan

(* Nobody deletes a document while it is ingested.                         *)
Apart == ~Overlap

LEMMA InitClaims == Init => ClaimInv
<1>. SUFFICES ASSUME Init  PROVE ClaimInv
  OBVIOUS
<1>1. \A d \in Doc : ~ Working(d) /\ ~ Deleting(d)
  BY IdleJobTyped, Kinds DEF Init, Working, Deleting, Queued
<1>. QED
  BY <1>1, Kinds, IdleJobTyped
  DEF Init, ClaimInv, Rowed, Born, Separate, OneDelete, Gone, Buried, NoOrphan, Deleting

(* Steps that delete nothing and take up no document that was free.        *)
WorkGoesOn ==
    /\ \A a \in Admin : pc'[a] = pc[a] /\ job'[a] = job[a]
    /\ pc'[Rehydrator] = "start" => pc[Rehydrator] = "start"
    /\ \A d \in Doc :
          /\ row'[d] = "none" <=> row[d] = "none"
          /\ d \in text' => d \in text \/ row[d] # "none"
          /\ \/ vec'[d] = vec[d] /\ rec'[d] = rec[d]
             \/ Working(d) /\ (rec'[d] = "deleted" => rec[d] = "deleted")
    /\ UNCHANGED <<born, unpurged>>

LEMMA WorkKeepsClaims ==
  ASSUME ClaimInv, WorkGoesOn,
         \A d \in Doc : Working(d)' => Working(d) \/ (d \in text /\ pc[Rehydrator] = "start")
  PROVE  ClaimInv'
<1>1. \A d \in Doc : Deleting(d)' <=> Deleting(d)
  BY DEF WorkGoesOn, Deleting
<1>2. \A d \in Doc : Working(d) => row[d] # "none" /\ ~Deleting(d) /\ born[d] # 0
  BY DEF ClaimInv, Rowed, Born, Separate
<1>3. Rowed'
  BY <1>1 DEF WorkGoesOn, ClaimInv, Rowed
<1>4. Born'
  BY <1>2 DEF WorkGoesOn, ClaimInv, Born
<1>5. Separate'
  BY <1>1 DEF WorkGoesOn, ClaimInv, Separate
<1>6. OneDelete'
  BY DEF WorkGoesOn, ClaimInv, OneDelete
<1>7. Gone'
  <2>. SUFFICES ASSUME NEW a \in Admin, NEW d \in Doc, job'[a].doc = d
                PROVE  /\ pc'[a] = "tomb" => vec'[d] = "none"
                       /\ pc'[a] = "drop" => vec'[d] = "none" \/ d \in unpurged'
    BY DEF Gone
  <2>1. job[a].doc = d /\ pc'[a] = pc[a] /\ unpurged' = unpurged
    BY DEF WorkGoesOn
  <2>2. ~ Working(d)
    BY <2>1 DEF ClaimInv, Separate, Deleting
  <2>. QED  BY <2>1, <2>2 DEF WorkGoesOn, ClaimInv, Gone
<1>8. Buried'
  BY <1>1, <1>2 DEF WorkGoesOn, ClaimInv, Buried
<1>9. NoOrphan'
  BY <1>2 DEF WorkGoesOn, ClaimInv, NoOrphan
<1>. QED  BY <1>3, <1>4, <1>5, <1>6, <1>7, <1>8, <1>9 DEF ClaimInv

LEMMA WorkClaims ==
  ASSUME TypeInv, ClaimInv,
         \/ \E a \in Thread : TakeTask(a) \/ WriteRow(a)
         \/ \E a \in Worker : Ingest(a)
         \/ Snapshot \/ RowsDone \/ NextRow \/ CountFails
  PROVE  /\ WorkGoesOn
         /\ \A d \in Doc : Working(d)' => Working(d) \/ (d \in text /\ pc[Rehydrator] = "start")
<1>1. /\ MovesTyped /\ queue \in Seq(Doc) /\ text \in SUBSET Doc
      /\ rec \in [Doc -> RecStatus] /\ vec \in [Doc -> VecStatus]
      /\ row \in [Doc -> RowStatus]
  BY DEF TypeInv, StoresTyped
<1>2. ASSUME NEW a \in Thread, TakeTask(a)
      PROVE  WorkGoesOn /\ \A d \in Doc : Working(d)' => Working(d)
  <2>1. /\ OthersStay(a) /\ job'[a] = NewJob(Head(queue)) /\ job'[a].doc = Head(queue)
        /\ Head(queue) \in Doc /\ queue # <<>> /\ queue' = Tail(queue)
        /\ UNCHANGED <<row, text, born, rec, vec, unpurged>>
    BY <1>1, <1>2, TakeTaskMoves, NewJobTyped DEF TakeTask, Became, db, rag, history
  <2>2. Queued(Head(queue)) /\ \A d \in Doc : Queued(d)' => Queued(d)
    BY <1>1, <2>1, QueuedAfter
  <2>3. WorkGoesOn
    BY <2>1, Kinds DEF WorkGoesOn, OthersStay
  <2>4. \A d \in Doc : Working(d)' => Working(d)
    BY <2>1, <2>2, Kinds DEF Working, OthersStay
  <2>. QED  BY <2>3, <2>4
<1>3. ASSUME NEW a \in Thread, WriteRow(a)
      PROVE  WorkGoesOn /\ \A d \in Doc : Working(d)' => Working(d)
  <2>1. /\ OthersStay(a) /\ job'[a].doc = None /\ job[a].doc \in Doc
        /\ UNCHANGED <<queue, born, rec, vec, unpurged>>
    BY <1>1, <1>3, WriteRowMoves, IdleJobTyped DEF WriteRow, Became, rag, history
  <2>2. \A d \in Doc : /\ row'[d] = "none" <=> row[d] = "none"
                       /\ d \in text' => d \in text \/ row[d] # "none"
    BY <1>1, <1>3, <2>1 DEF WriteRow
  <2>3. WorkGoesOn
    BY <2>1, <2>2, Kinds DEF WorkGoesOn, OthersStay
  <2>4. \A d \in Doc : Working(d)' => Working(d)
    BY <2>1, Kinds DEF Working, OthersStay, Queued
  <2>. QED  BY <2>3, <2>4
<1>4. ASSUME NEW a \in Worker, Ingest(a)
      PROVE  WorkGoesOn /\ \A d \in Doc : Working(d)' => Working(d)
  <2>1. /\ OthersStay(a) /\ job'[a].todo = job[a].todo
        /\ job'[a].doc \in {None, job[a].doc} /\ pc'[a] # "start"
        /\ UNCHANGED <<row, text, born, queue, unpurged>> /\ job[a].doc \in Doc
    BY <1>1, <1>4, IngestFrames, IngestPlace DEF IngestFrame
  <2>2. Working(job[a].doc)
    BY DEF Working
  <2>3. \A d \in Doc : d # job[a].doc => vec'[d] = vec[d] /\ rec'[d] = rec[d]
    BY <1>1, <1>4, IngestFrames DEF IngestFrame
  <2>4. rec'[job[a].doc] = "deleted" => rec[job[a].doc] = "deleted"
    BY <1>1, <1>4, IngestFrames DEF IngestFrame
  <2>5. WorkGoesOn
    BY <2>1, <2>2, <2>3, <2>4, Kinds DEF WorkGoesOn, OthersStay
  <2>6. \A d \in Doc : Working(d)' => Working(d)
    BY <2>1, Kinds DEF Working, OthersStay, Queued
  <2>. QED  BY <2>5, <2>6
<1>5. CASE Snapshot
  <2>1. /\ OthersStay(Rehydrator) /\ job'[Rehydrator].doc = None
        /\ job'[Rehydrator].todo = text /\ pc[Rehydrator] = "start"
        /\ UNCHANGED <<queue, row, text, born, rec, vec, unpurged>>
    BY <1>1, <1>5, SnapshotMoves DEF Snapshot, Became, IdleJob, db, rag, history
  <2>2. WorkGoesOn
    BY <2>1, Kinds DEF WorkGoesOn, OthersStay
  <2>3. \A d \in Doc : Working(d)' => Working(d) \/ (d \in text /\ pc[Rehydrator] = "start")
    BY <2>1, Kinds DEF Working, OthersStay, Queued
  <2>. QED  BY <2>2, <2>3
<1>6. CASE RowsDone
  <2>1. /\ OthersStay(Rehydrator) /\ job'[Rehydrator].doc = None
        /\ job'[Rehydrator].todo = {} /\ pc[Rehydrator] = "next"
        /\ pc'[Rehydrator] = "idle"
        /\ UNCHANGED <<queue, row, text, born, rec, vec, unpurged>>
    BY <1>1, <1>6, RowsDoneMoves, IdleJobTyped DEF RowsDone, Became, db, rag, history
  <2>2. WorkGoesOn
    BY <2>1, Kinds DEF WorkGoesOn, OthersStay
  <2>3. \A d \in Doc : Working(d)' => Working(d)
    BY <2>1, Kinds DEF Working, OthersStay, Queued
  <2>. QED  BY <2>2, <2>3
<1>7. CASE NextRow \/ CountFails
  <2>1. UNCHANGED <<queue, row, text, born, rec, vec, unpurged>>
    BY <1>1, <1>7, RehydrateMoves DEF db, rag, history
  <2>2. PICK d \in Doc, step \in {"next", "ingest"}, blind \in BOOLEAN : Took(d, step, blind)
    BY <1>1, <1>7, RehydrateMoves
  <2>3. WorkGoesOn
    BY <2>1, <2>2, Kinds DEF WorkGoesOn, OthersStay, Took
  <2>4. \A e \in Doc : Working(e)' => Working(e)
    BY <2>1, <2>2, Kinds DEF Working, OthersStay, Queued, Took
  <2>. QED  BY <2>3, <2>4
<1>. QED  BY <1>2, <1>3, <1>4, <1>5, <1>6, <1>7

LEMMA UploadClaims ==
  ASSUME TypeInv, ClaimInv, NEW d \in Doc, Upload(d)
  PROVE  ClaimInv'
<1>1. /\ queue \in Seq(Doc) /\ row \in [Doc -> RowStatus] /\ born \in [Doc -> Nat]
      /\ restarts \in Nat
  BY DEF TypeInv, StoresTyped
<1>2. /\ born[d] = 0 /\ row' = [row EXCEPT ![d] = "processing"]
      /\ born' = [born EXCEPT ![d] = restarts + 1]
      /\ queue' = Append(queue, d) /\ text' \in {text, text \cup {d}}
      /\ UNCHANGED <<pc, job, rec, vec, unpurged>>
  BY DEF Upload, rag, history
<1>3. \A e \in Doc : (Deleting(e)' <=> Deleting(e)) /\ (Working(e)' => Working(e) \/ e = d)
  BY <1>1, <1>2, QueuedAfter DEF Deleting, Working
<1>4. row[d] = "none" /\ ~ Deleting(d) /\ ~ Working(d) /\ rec[d] = "absent" /\ vec[d] = "none"
  BY <1>2 DEF ClaimInv, Born, Rowed
<1>5. Rowed' /\ Born' /\ Separate'
  BY <1>1, <1>2, <1>3, <1>4 DEF ClaimInv, Rowed, Born, Separate
<1>6. OneDelete' /\ Gone'
  BY <1>2 DEF ClaimInv, OneDelete, Gone
<1>7. Buried' /\ NoOrphan'
  BY <1>1, <1>2, <1>3, <1>4 DEF ClaimInv, Buried, NoOrphan
<1>. QED  BY <1>5, <1>6, <1>7 DEF ClaimInv

LEMMA BeginDeleteClaims ==
  ASSUME Apart, TypeInv, ClaimInv, NEW a \in Admin, NEW d \in Doc, BeginDelete(a, d)
  PROVE  ClaimInv'
<1>1. /\ OthersStay(a) /\ job'[a].doc = d /\ pc'[a] = "read" /\ job[a].doc = None
      /\ UNCHANGED <<row, text, born, rec, vec, queue, unpurged>>
  BY BeginDeleteMoves, NewJobTyped DEF TypeInv, BeginDelete, Became, db, rag, history
<1>2. row[d] # "none" /\ ~ Busy(d)
  BY DEF BeginDelete, Apart
<1>3. ~ Working(d) /\ ~ Deleting(d) /\ pc[Rehydrator] # "start"
  BY <1>2, Kinds DEF Busy, Working, Deleting, Queued
<1>4. \A e \in Doc : (Deleting(e)' <=> Deleting(e) \/ e = d) /\ (Working(e)' => Working(e))
  BY <1>1, Kinds DEF Deleting, Working, OthersStay, Queued
<1>5. Rowed' /\ Born'
  BY <1>1, <1>2, <1>4 DEF ClaimInv, Rowed, Born
<1>6. Separate'
  BY <1>1, <1>3, <1>4, Kinds DEF ClaimInv, Separate, OthersStay
<1>7. OneDelete'
  BY <1>1, <1>3, Kinds DEF ClaimInv, OneDelete, OthersStay, Deleting
<1>8. Gone'
  BY <1>1, Kinds DEF ClaimInv, Gone, OthersStay
<1>9. Buried' /\ NoOrphan'
  BY <1>1, <1>4 DEF ClaimInv, Buried, NoOrphan
<1>. QED  BY <1>5, <1>6, <1>7, <1>8, <1>9 DEF ClaimInv

LEMMA DeleteClaims ==
  ASSUME TypeInv, ClaimInv, NEW a \in Admin, Delete(a)
  PROVE  ClaimInv'
<1> DEFINE d == job[a].doc
<1>1. /\ MovesTyped /\ row \in [Doc -> RowStatus] /\ rec \in [Doc -> RecStatus]
      /\ vec \in [Doc -> VecStatus] /\ text \in SUBSET Doc
  BY DEF TypeInv, StoresTyped
<1>2. /\ DeleteFrame(a) /\ d \in Doc /\ OthersStay(a) /\ a \in Actor
      /\ d # None
      /\ UNCHANGED <<born, queue>>
  BY <1>1, DeleteMoves, Kinds DEF DeleteFrame
<1>3. pc'[Rehydrator] = pc[Rehydrator] /\ \A b \in Worker : job'[b] = job[b]
  BY <1>2, Kinds DEF OthersStay
<1>4. \A e \in Doc : Working(e)' <=> Working(e)
  BY <1>2, <1>3, Kinds DEF Working, Queued
<1>5. ~ Working(d) /\ row[d] # "none" /\ Deleting(d)
      /\ born[d] # 0 /\ \A b \in Admin : job[b].doc = d => b = a
  BY <1>2 DEF ClaimInv, Separate, Rowed, Born, OneDelete, Deleting
<1>6. \A b \in Admin, e \in Doc : job'[b].doc = e => job[b].doc = e
  BY <1>2, Kinds DEF DeleteFrame, OthersStay
<1>7. OneDelete'
  BY <1>6 DEF ClaimInv, OneDelete
<1>8. \A b \in Admin : b # a => pc'[b] = pc[b] /\ job'[b] = job[b] /\ job[b].doc # d
  BY <1>2, <1>5, Kinds DEF OthersStay
<1>9. CASE ~ DropRow(a)
  <2>1. row' = row /\ text' = text /\ job'[a].doc = d
    BY <1>2, <1>9 DEF Delete, ReadRecord, Purge, PurgeFails, Tombstone, DeleteFrame, db
  <2>2. \A e \in Doc : Deleting(e)' <=> Deleting(e)
    BY <1>2, <1>8, <2>1 DEF Deleting
  <2>3. Rowed' /\ Separate'
    BY <1>3, <1>4, <2>1, <2>2 DEF ClaimInv, Rowed, Separate
  <2>4. \A e \in Doc : /\ vec'[e] = vec[e] \/ vec'[e] = "none"
                       /\ rec'[e] = rec[e] \/ e = d
                       /\ e # d => vec'[e] = vec[e] /\ (e \in unpurged' <=> e \in unpurged)
    BY <1>1, <1>2, <1>9 DEF Delete, ReadRecord, Purge, PurgeFails, Tombstone, rag, history
  <2>5. /\ pc'[a] = "tomb" => vec'[d] = "none"
        /\ pc'[a] = "drop" => vec'[d] = "none" \/ d \in unpurged'
    <3>1. CASE ReadRecord(a) /\ pc'[a] = "purge"
      BY <3>1
    <3>2. CASE Purge(a)
      BY <1>1, <1>2, <3>2 DEF Purge
    <3>3. CASE PurgeFails(a) /\ pc'[a] = (IF job[a].tomb THEN "purge" ELSE "drop")
      BY <1>1, <1>2, <3>3 DEF PurgeFails, rag
    <3>4. CASE Tombstone(a) /\ pc'[a] = "drop"
      BY <1>2, <3>4 DEF Tombstone, ClaimInv, Gone
    <3>. QED  BY <1>2, <1>9, <3>1, <3>2, <3>3, <3>4 DEF DeleteFrame
  <2>6. Gone'
    BY <1>6, <1>8, <2>1, <2>4, <2>5 DEF ClaimInv, Gone
  <2>7. Born'
    BY <1>2, <1>5, <2>1, <2>4 DEF ClaimInv, Born
  <2>8. Buried'
    BY <1>5, <2>1, <2>2, <2>4 DEF ClaimInv, Buried
  <2>9. NoOrphan'
    BY <1>5, <2>1, <2>4 DEF ClaimInv, NoOrphan
  <2>. QED  BY <1>7, <2>3, <2>6, <2>7, <2>8, <2>9 DEF ClaimInv
<1>10. CASE DropRow(a)
  <2>1. /\ row' = [row EXCEPT ![d] = "none"] /\ text' = text \ {d}
        /\ UNCHANGED <<rec, vec, unpurged>> /\ job'[a].doc = None /\ pc[a] = "drop"
    BY <1>2, <1>10 DEF DropRow, DeleteFrame, rag, history
  <2>2. \A e \in Doc : Deleting(e)' <=> Deleting(e) /\ e # d
    BY <1>2, <1>8, <2>1, Kinds DEF Deleting
  <2>3. Rowed' /\ Separate' /\ Born'
    BY <1>1, <1>2, <1>3, <1>4, <1>5, <2>1, <2>2 DEF ClaimInv, Rowed, Separate, Born
  <2>4. Gone'
    BY <1>2, <1>8, <2>1, Kinds DEF ClaimInv, Gone
  <2>5. Buried'
    BY <1>1, <1>2, <2>1, <2>2 DEF ClaimInv, Buried
  <2>6. vec[d] = "none" \/ d \in unpurged
    BY <1>2, <2>1 DEF ClaimInv, Gone
  <2>7. NoOrphan'
    BY <1>1, <2>1, <2>6 DEF ClaimInv, NoOrphan
  <2>. QED  BY <1>7, <2>3, <2>4, <2>5, <2>7 DEF ClaimInv
<1>. QED  BY <1>9, <1>10

LEMMA RestartClaims ==
  ASSUME TypeInv, ClaimInv, Restart
  PROVE  ClaimInv'
<1>1. /\ \A e \in Doc : ~ Working(e)' /\ ~ Deleting(e)'
      /\ \A b \in Actor : job'[b].doc = None
  BY RestartMoves, Kinds DEF Restart, Working, Deleting, Queued
<1>2. /\ \A e \in Doc : /\ vec'[e] = vec[e] \/ vec'[e] = "none"
                        /\ rec'[e] = "absent"
      /\ unpurged' = {e \in unpurged : vec'[e] # "none"}
      /\ UNCHANGED <<row, text, born>>
  BY DEF Restart, TypeInv, StoresTyped, db
<1>3. Rowed' /\ Born' /\ Separate' /\ Buried' /\ NoOrphan'
  BY <1>1, <1>2 DEF ClaimInv, Rowed, Born, Separate, Buried, NoOrphan
<1>4. OneDelete' /\ Gone'
  BY <1>1, Kinds DEF OneDelete, Gone
<1>. QED  BY <1>3, <1>4 DEF ClaimInv

LEMMA NextClaims ==
  ASSUME Apart
  PROVE  TypeInv /\ ClaimInv /\ [Next]_vars => ClaimInv'
<1>. SUFFICES ASSUME TypeInv, ClaimInv, [Next]_vars  PROVE ClaimInv'
  OBVIOUS
<1>1. CASE UNCHANGED vars
  <2>1. \A d \in Doc : (Working(d)' <=> Working(d)) /\ (Deleting(d)' <=> Deleting(d))
    BY <1>1 DEF vars, Working, Deleting, Queued
  <2>. QED
    BY <1>1, <2>1 DEF vars, ClaimInv, Rowed, Born, Separate, OneDelete, Gone, Buried, NoOrphan
<1>2. CASE \/ \E a \in Thread : TakeTask(a) \/ WriteRow(a)
           \/ \E a \in Worker : Ingest(a)
           \/ Snapshot \/ RowsDone \/ NextRow \/ CountFails
  BY <1>2, WorkClaims, WorkKeepsClaims
<1>. QED
  BY <1>1, <1>2, UploadClaims, BeginDeleteClaims, DeleteClaims, RestartClaims, StepCases

(* Chunks never outlive their row, also when the delete came after a        *)
(* restart that forgot the record, unless the store refused every deletion  *)
(* of them; provided no document is deleted while it is ingested.           *)
THEOREM NothingOrphaned == ASSUME Apart  PROVE Spec => []NoOrphan
<1>1. Init => TypeInv /\ ClaimInv
  BY InitTypes, InitClaims
<1>2. TypeInv /\ ClaimInv /\ [Next]_vars => (TypeInv /\ ClaimInv)'
  BY NextTypes, NextClaims
<1>3. TypeInv /\ ClaimInv => NoOrphan
  BY DEF ClaimInv
<1>. QED  BY <1>1, <1>2, <1>3, PTL DEF Spec

-----------------------------------------------------------------------------
(* One upload is one task, and the row says "processing" until it is over. *)

OneTask ==
    /\ \A i, j \in DOMAIN queue : queue[i] = queue[j] => i = j
    /\ \A d \in Doc : Queued(d) => row[d] = "processing"
    /\ \A a \in Thread, d \in Doc : job[a].doc = d => row[d] = "processing" /\ ~Queued(d)
    /\ \A a, b \in Thread, d \in Doc : job[a].doc = d /\ job[b].doc = d => a = b
    /\ \A d \in Doc : row[d] = "indexed" => d \in text
    /\ job[Rehydrator].doc \notin job[Rehydrator].todo

LEMMA InitTask == Init => OneTask
  BY IdleJobTyped, Kinds DEF Init, OneTask, Queued

LEMMA NextTask == TypeInv /\ ClaimInv /\ OneTask /\ [Next]_vars => OneTask'
<1>. SUFFICES ASSUME TypeInv, ClaimInv, OneTask, [Next]_vars  PROVE OneTask'
  OBVIOUS
<1>1. /\ MovesTyped /\ StoresTyped /\ queue \in Seq(Doc) /\ text \in SUBSET Doc
      /\ blamed \in SUBSET Doc /\ row \in [Doc -> RowStatus] /\ job[Rehydrator].todo \subseteq Doc
      /\ None \notin Doc
  BY Kinds DEF TypeInv, StoresTyped, MovesTyped, Job
<1>2. CASE UNCHANGED vars
  BY <1>2 DEF vars, OneTask, Queued
<1>3. ASSUME NEW d \in Doc, Upload(d)  PROVE OneTask'
  <2>1. /\ row' = [row EXCEPT ![d] = "processing"] /\ queue' = Append(queue, d)
        /\ text \subseteq text' /\ UNCHANGED job /\ born[d] = 0
    BY <1>3 DEF Upload
  <2>2. ~ Working(d)
    BY <2>1 DEF ClaimInv, Born, Rowed
  <2>3. ~ Queued(d) /\ \A a \in Worker : job[a].doc # d
    BY <2>2 DEF Working
  <2>4. \A e \in Doc : Queued(e)' <=> Queued(e) \/ e = d
    BY <1>1, <2>1, QueuedAfter
  <2>5. \A i, j \in DOMAIN queue' : queue'[i] = queue'[j] => i = j
    BY <1>1, <2>1, <2>3 DEF OneTask, Queued
  <2>. QED  BY <1>1, <2>1, <2>3, <2>4, <2>5 DEF OneTask, Worker
<1>4. ASSUME NEW a \in Admin, NEW d \in Doc, BeginDelete(a, d)  PROVE OneTask'
  <2>1. OthersStay(a) /\ UNCHANGED <<row, text, queue>>
    BY <1>1, <1>4, BeginDeleteMoves DEF BeginDelete, Became, db
  <2>. QED  BY <2>1, Kinds DEF OneTask, Queued, OthersStay
<1>5. ASSUME NEW a \in Thread, TakeTask(a)  PROVE OneTask'
  <2>1. /\ OthersStay(a) /\ job'[a].doc = Head(queue) /\ Head(queue) \in Doc
        /\ queue # <<>> /\ queue' = Tail(queue)
        /\ UNCHANGED <<row, text>>
    BY <1>1, <1>5, TakeTaskMoves, NewJobTyped DEF TakeTask, Became, db
  <2>2. Queued(Head(queue)) /\ \A e \in Doc : Queued(e)' => Queued(e)
    BY <1>1, <2>1, QueuedAfter
  <2>3. \A i \in DOMAIN queue' : i + 1 \in DOMAIN queue /\ queue'[i] = queue[i + 1]
    BY <1>1, <2>1
  <2>4. \A i, j \in DOMAIN queue' : queue'[i] = queue'[j] => i = j
    BY <1>1, <2>1, <2>3 DEF OneTask
  <2>5. ASSUME NEW d \in Doc, d = Head(queue)  PROVE ~ Queued(d)'
    <3>. SUFFICES ASSUME NEW i \in DOMAIN queue', queue'[i] = Head(queue)  PROVE FALSE
      BY <2>5 DEF Queued
    <3>1. 1 \in DOMAIN queue /\ queue[1] = Head(queue) /\ i + 1 # 1
      BY <1>1, <2>1
    <3>. QED  BY <2>3, <3>1 DEF OneTask
  <2>6. \A b \in Thread, d \in Doc : job'[b].doc = d => row[d] = "processing" /\ ~Queued(d)'
    BY <2>1, <2>2, <2>5, Kinds DEF OneTask, OthersStay
  <2>7. \A b, c \in Thread, d \in Doc : job'[b].doc = d /\ job'[c].doc = d => b = c
    BY <2>1, <2>2, Kinds DEF OneTask, OthersStay
  <2>8. job'[Rehydrator] = job[Rehydrator]
    BY <2>1, Kinds DEF OthersStay
  <2>. QED  BY <2>1, <2>2, <2>4, <2>6, <2>7, <2>8 DEF OneTask
<1>6. ASSUME NEW a \in Thread, WriteRow(a)  PROVE OneTask'
  <2>1. /\ OthersStay(a) /\ job'[a].doc = None /\ job[a].doc \in Doc /\ UNCHANGED queue
    BY <1>1, <1>6, WriteRowMoves, IdleJobTyped DEF WriteRow, Became
  <2>2. /\ \A d \in Doc : d # job[a].doc => row'[d] = row[d]
        /\ \A d \in Doc : row'[d] = "indexed" => d \in text'
    BY <1>1, <1>6, <2>1 DEF WriteRow, OneTask
  <2>3. ~ Queued(job[a].doc) /\ \A b \in Thread : b # a => job[b].doc # job[a].doc
    BY <2>1 DEF OneTask
  <2>4. \A d \in Doc : Queued(d)' <=> Queued(d)
    BY <2>1 DEF Queued
  <2>5. \A b \in Thread : b # a => job'[b] = job[b]
    BY <2>1, Kinds DEF OthersStay
  <2>6. \A b \in Thread, d \in Doc : job'[b].doc = d => row'[d] = "processing" /\ ~Queued(d)'
    BY <1>1, <2>1, <2>2, <2>3, <2>4, <2>5 DEF OneTask
  <2>7. \A b, c \in Thread, d \in Doc : job'[b].doc = d /\ job'[c].doc = d => b = c
    <3>1. \A b \in Thread, d \in Doc : job'[b].doc = d => job[b].doc = d
      BY <1>1, <2>1, <2>5
    <3>. QED  BY <3>1 DEF OneTask
  <2>8. job'[Rehydrator] = job[Rehydrator]
    BY <2>1, Kinds DEF OthersStay
  <2>. QED  BY <2>1, <2>2, <2>3, <2>4, <2>6, <2>7, <2>8 DEF OneTask
<1>7. ASSUME NEW a \in Worker, Ingest(a)  PROVE OneTask'
  <2>1. /\ OthersStay(a) /\ job'[a].todo = job[a].todo /\ job'[a].doc \in {None, job[a].doc}
        /\ UNCHANGED <<row, text, queue>>
    BY <1>1, <1>7, IngestFrames, IngestPlace DEF IngestFrame
  <2>2. \A b \in Worker : job'[b].todo = job[b].todo /\ job'[b].doc \in {None, job[b].doc}
    BY <2>1, Kinds DEF OthersStay
  <2>. QED  BY <1>1, <2>1, <2>2, Kinds DEF OneTask, Queued, Worker
<1>8. ASSUME NEW a \in Admin, Delete(a)  PROVE OneTask'
  <2>1. OthersStay(a) /\ UNCHANGED queue /\ job[a].doc \in Doc
    BY <1>1, <1>8, DeleteMoves DEF DeleteFrame
  <2>2. \A b \in Worker : job'[b] = job[b]
    BY <2>1, Kinds DEF OthersStay
  <2>3. ~ Working(job[a].doc)
    BY <2>1 DEF ClaimInv, Separate, Deleting
  <2>4. /\ \A d \in Doc : d # job[a].doc => row'[d] = row[d] /\ (d \in text' <=> d \in text)
        /\ row'[job[a].doc] \in {row[job[a].doc], "none"}
        /\ row'[job[a].doc] = row[job[a].doc] => text' = text \/ row'[job[a].doc] = "none"
    BY <1>1, <1>8, <2>1 DEF Delete, ReadRecord, Purge, PurgeFails, Tombstone, DropRow, db
  <2>5. \A d \in Doc : row'[d] = "indexed" => d \in text'
    BY <2>1, <2>4 DEF OneTask
  <2>6. \A d \in Doc : Queued(d)' <=> Queued(d)
    BY <2>1 DEF Queued
  <2>7. \A b \in Thread, d \in Doc : job'[b].doc = d => row'[d] = "processing" /\ ~Queued(d)'
    BY <2>2, <2>3, <2>4, <2>6, Kinds DEF OneTask, Working, Worker
  <2>8. \A d \in Doc : Queued(d)' => row'[d] = "processing"
    BY <2>3, <2>4, <2>6 DEF OneTask, Working
  <2>. QED  BY <2>1, <2>2, <2>5, <2>7, <2>8, Kinds DEF OneTask, Worker
<1>9. CASE Snapshot \/ RowsDone
  <2>1. /\ OthersStay(Rehydrator) /\ job'[Rehydrator].doc = None
        /\ job'[Rehydrator].todo \in {text, {}}
        /\ UNCHANGED <<queue, row, text>>
    BY <1>1, <1>9, SnapshotMoves, RowsDoneMoves DEF Snapshot, RowsDone, Became, IdleJob, db
  <2>2. \A b \in Thread : job'[b] = job[b]
    BY <2>1, Kinds DEF OthersStay
  <2>. QED  BY <1>1, <2>1, <2>2 DEF OneTask, Queued
<1>10. CASE NextRow \/ CountFails
  <2>1. UNCHANGED <<queue, row, text>>
    BY <1>1, <1>10, RehydrateMoves DEF db
  <2>2. PICK d \in Doc, step \in {"next", "ingest"}, blind \in BOOLEAN : Took(d, step, blind)
    BY <1>1, <1>10, RehydrateMoves
  <2>3. \A b \in Thread : job'[b] = job[b]
    BY <2>2, Kinds DEF Took, OthersStay
  <2>4. job'[Rehydrator].doc \notin job'[Rehydrator].todo
    BY <1>1, <2>2 DEF Took
  <2>. QED  BY <2>1, <2>3, <2>4 DEF OneTask, Queued
<1>11. CASE Restart
  <2>1. /\ \A a \in Actor : job'[a].doc = None /\ job'[a].todo = {}
        /\ queue' = <<>> /\ UNCHANGED <<row, text>>
    BY <1>11, RestartMoves DEF Restart, db
  <2>. QED  BY <1>1, <2>1, Kinds DEF OneTask, Queued
<1>. QED
  BY <1>2, <1>3, <1>4, <1>5, <1>6, <1>7, <1>8, <1>9, <1>10, <1>11, StepCases

-----------------------------------------------------------------------------
(* What a step of an ingest has reached, for the documents the history     *)
(* does not excuse and those equal to one: nobody else works on them past  *)
(* the insert, and the record and the chunks are what the step left.       *)

Pure(e) == \E d \in Equal(e) : d \notin blamed

Inserted == {"store", "fail", "scrub", "mark", "publish"}

Alone ==
    \A a, b \in Worker, d \in Doc :
       job[a].doc = d /\ pc[a] \in Inserted /\ job[b].doc = d /\ pc[b] \in Inserted =>
          a = b \/ ~Pure(d)

Fits(a, d) ==
    /\ pc[a] = "insert" => rec[d] \in {"absent", "deleted"}
    /\ pc[a] \in {"store", "fail", "mark"} => rec[d] = "processing"
    /\ pc[a] = "scrub" => rec[d] = "failed"
    /\ pc[a] = "publish" => rec[d] = "indexed"
    /\ pc[a] \in {"mark", "publish"} => vec[d] = "hidden"
    /\ pc[a] = "purge" /\ ~job[a].tomb => rec[d] \in {"absent", "deleted"}

InStep == \A a \in Actor, d \in Doc : job[a].doc = d /\ Pure(d) => Fits(a, d)

ShownIndexed == \A d \in Doc : Pure(d) /\ Fresh(d) /\ vec[d] = "shown" => rec[d] = "indexed"

StepInv == Alone /\ InStep /\ ShownIndexed

LEMMA Equals ==
  ASSUME NEW d \in Doc
  PROVE  d \in Equal(d) /\ \A e \in Equal(d) : e \in Doc /\ d \in Equal(e) /\ Equal(e) = Equal(d)
  BY DEF Equal

LEMMA InitStep == Init => StepInv
  BY IdleJobTyped, Kinds DEF Init, StepInv, Alone, InStep, ShownIndexed, Fits, Inserted

LEMMA PureBefore ==
  ASSUME blamed \subseteq blamed'
  PROVE  \A e \in Doc : Pure(e)' => Pure(e)
  BY DEF Pure

(* Steps beside the records, the chunks and the ingests.                   *)
Aside ==
    /\ UNCHANGED <<rec, vec, blamed>>
    /\ \A a \in Worker :
          \/ pc'[a] = pc[a] /\ job'[a] = job[a]
          \/ pc'[a] \notin Inserted \cup {"insert", "purge"} /\ pc[a] \notin Inserted
    /\ \A a \in Admin :
          \/ pc'[a] = pc[a] /\ job'[a] = job[a]
          \/ pc'[a] = "read" /\ pc[a] = "idle" /\ job[a].doc = None
    /\ \A d \in Doc : Fresh(d)' => Fresh(d) \/ vec[d] = "none"

LEMMA AsideSteps ==
  ASSUME TypeInv, ClaimInv,
         \/ UNCHANGED vars \/ \E d \in Doc : Upload(d)
         \/ \E a \in Admin, d \in Doc : BeginDelete(a, d)
         \/ \E a \in Thread : TakeTask(a) \/ WriteRow(a)
         \/ Snapshot \/ RowsDone \/ NextRow \/ CountFails
  PROVE  Aside
<1>1. /\ MovesTyped /\ queue \in Seq(Doc) /\ text \in SUBSET Doc /\ born \in [Doc -> Nat]
      /\ restarts \in Nat
  BY DEF TypeInv, StoresTyped
<1>2. CASE UNCHANGED vars
  BY <1>2 DEF vars, Aside, Fresh
<1>3. ASSUME NEW d \in Doc, Upload(d)  PROVE Aside
  <2>1. UNCHANGED <<rec, vec, blamed, pc, job, restarts>> /\ born[d] = 0
        /\ born' = [born EXCEPT ![d] = restarts + 1]
    BY <1>3 DEF Upload, rag, history
  <2>2. vec[d] = "none"
    BY <2>1 DEF ClaimInv, Born
  <2>. QED  BY <1>1, <2>1, <2>2 DEF Aside, Fresh
<1>4. ASSUME NEW a \in Admin, NEW d \in Doc, BeginDelete(a, d)  PROVE Aside
  <2>1. /\ OthersStay(a) /\ pc'[a] = "read" /\ pc[a] = "idle" /\ job[a].doc = None
        /\ UNCHANGED <<rec, vec, blamed, born, restarts>>
    BY <1>1, <1>4, BeginDeleteMoves DEF BeginDelete, Became, db, rag, history
  <2>. QED  BY <2>1, Kinds DEF Aside, Fresh, OthersStay
<1>5. ASSUME NEW a \in Thread, TakeTask(a) \/ WriteRow(a)  PROVE Aside
  <2>1. /\ OthersStay(a) /\ pc'[a] \in {"ingest", "idle"} /\ pc[a] \in {"idle", "finish"}
        /\ UNCHANGED <<rec, vec, blamed, born, restarts>>
    BY <1>1, <1>5, TakeTaskMoves, WriteRowMoves
    DEF TakeTask, WriteRow, Became, db, rag, history
  <2>. QED  BY <2>1, Kinds DEF Aside, Fresh, OthersStay, Inserted
<1>6. CASE Snapshot \/ RowsDone
  <2>1. /\ OthersStay(Rehydrator) /\ pc'[Rehydrator] \in {"next", "idle"}
        /\ pc[Rehydrator] \in {"start", "next"}
        /\ UNCHANGED <<rec, vec, blamed, born, restarts>>
    BY <1>1, <1>6, SnapshotMoves, RowsDoneMoves DEF Snapshot, RowsDone, Became, db, rag, history
  <2>. QED  BY <2>1, Kinds DEF Aside, Fresh, OthersStay, Inserted
<1>7. CASE NextRow \/ CountFails
  <2>1. UNCHANGED <<rec, vec, blamed, born, restarts>> /\ pc[Rehydrator] = "next"
    BY <1>1, <1>7, RehydrateMoves DEF db, rag, history
  <2>2. PICK d \in Doc, step \in {"next", "ingest"}, blind \in BOOLEAN : Took(d, step, blind)
    BY <1>1, <1>7, RehydrateMoves
  <2>3. OthersStay(Rehydrator) /\ pc'[Rehydrator] \in {"next", "ingest"}
    BY <2>2 DEF Took
  <2>. QED  BY <2>1, <2>3, Kinds DEF Aside, Fresh, OthersStay, Inserted
<1>. QED  BY <1>2, <1>3, <1>4, <1>5, <1>6, <1>7

LEMMA AsideStepInv ==
  ASSUME Aside, StepInv
  PROVE  StepInv'
<1>1. \A d \in Doc : Pure(d)' <=> Pure(d)
  BY DEF Aside, Pure
<1>2. \A a \in Worker : pc'[a] \in Inserted => pc'[a] = pc[a] /\ job'[a] = job[a]
  BY DEF Aside
<1>3. Alone'
  BY <1>1, <1>2 DEF StepInv, Alone
<1>4. ASSUME NEW a \in Actor, NEW d \in Doc, job'[a].doc = d, Pure(d)'
      PROVE  Fits(a, d)'
  <2>1. CASE pc'[a] = pc[a] /\ job'[a] = job[a]
    BY <1>1, <1>4, <2>1 DEF StepInv, InStep, Fits, Aside
  <2>2. CASE pc'[a] \notin Inserted \cup {"insert", "purge"}
    BY <2>2 DEF Fits, Inserted
  <2>3. CASE pc'[a] = "read"
    BY <2>3 DEF Fits
  <2>. QED  BY <2>1, <2>2, <2>3, Kinds DEF Aside
<1>5. ShownIndexed'
  BY <1>1 DEF StepInv, ShownIndexed, Aside
<1>. QED  BY <1>3, <1>4, <1>5 DEF StepInv, InStep

(* Whoever changes the record or the chunks of such a document has it to   *)
(* itself.                                                                 *)
Sole(a) ==
    \A b \in Actor : b # a /\ job[b].doc = job[a].doc => b \in Worker /\ pc[b] \notin Inserted \cup {"insert"}

Writes(a) ==
    \/ Insert(a) \/ Store(a) \/ StoreFails(a) \/ MarkFailed(a)
    \/ Scrub(a) \/ MarkIndexed(a) \/ Publish(a)

LEMMA Alones ==
  ASSUME TypeInv, ClaimInv, StepInv, NEW a \in Worker, Ingest(a),
         NEW d \in Doc, job[a].doc = d, Pure(d)', Writes(a)
  PROVE  Sole(a)
<1>1. /\ blamed \subseteq blamed' /\ a \in Actor
  BY IngestCases, Kinds DEF TypeInv, StoresTyped
<1>2. Pure(d) /\ Fits(a, d)
  BY <1>1, PureBefore DEF StepInv, InStep
<1>3. \A b \in Admin : job[b].doc # d
  BY DEF ClaimInv, Separate, Deleting, Working
<1>4. ASSUME NEW b \in Worker, b # a, job[b].doc = d, pc[b] \in Inserted \cup {"insert"}
      PROVE  FALSE
  <2>1. b \in Actor /\ Fits(b, d)
    BY <1>2, <1>4, Kinds DEF StepInv, InStep
  <2>2. CASE Insert(a)
    <3>1. b \in {c \in Actor \ {a} : job[c].doc = job[a].doc /\
                pc[c] \in {"insert", "store", "fail", "scrub", "mark", "publish"}}
      BY <1>4, <2>1 DEF Inserted
    <3>2. Equal(job[b].doc) \subseteq blamed'
      BY <2>2, <3>1 DEF Insert
    <3>. QED  BY <1>4, <3>2 DEF Pure
  <2>3. CASE ~ Insert(a)
    <3>1. pc[a] \in Inserted
      BY <2>3 DEF Writes, Store, StoreFails, MarkFailed, Scrub, MarkIndexed, Publish, Inserted
    <3>2. pc[b] \notin Inserted
      BY <1>2, <1>4, <3>1 DEF StepInv, Alone
    <3>. QED  BY <1>2, <1>4, <2>1, <3>1, <3>2 DEF Fits, Inserted
  <2>. QED  BY <2>2, <2>3
<1>. QED  BY <1>3, <1>4, Kinds DEF Sole

LEMMA IngestFits ==
  ASSUME TypeInv, FreshInv, ClaimInv, StepInv, NEW a \in Worker, Ingest(a),
         NEW d \in Doc, job[a].doc = d, Pure(d)'
  PROVE  /\ job'[a].doc = d => Fits(a, d)'
         /\ pc'[a] \in Inserted => Insert(a) \/ pc[a] \in Inserted
         /\ Fresh(d) /\ vec'[d] = "shown" => rec'[d] = "indexed"
         /\ ~ Writes(a) => UNCHANGED <<rec, vec>>
<1>1. /\ blamed \subseteq blamed' /\ a \in Actor /\ Ingested(a) /\ a \notin Admin
      /\ vec \in [Doc -> VecStatus] /\ rec \in [Doc -> RecStatus]
  BY IngestCases, Kinds DEF TypeInv, StoresTyped
<1>2. Pure(d) /\ Fits(a, d)
  BY <1>1, PureBefore DEF StepInv, InStep
<1>3. Fresh(d) /\ vec[d] = "shown" => rec[d] = "indexed"
  BY <1>2 DEF StepInv, ShownIndexed
<1>4. pc[a] # "purge"
  BY IngestPlace DEF TypeInv, IngestSteps
<1>5. ASSUME NEW served \in BOOLEAN, Ended(a, served)
      PROVE  (job'[a].doc = d => Fits(a, d)') /\ pc'[a] \notin Inserted
  <2>1. pc'[a] \in {"next", "finish", "ingest"}
    BY <1>5 DEF Ended
  <2>. QED  BY <2>1 DEF Fits, Inserted
<1>6. CASE Refused(a) \/ Hit(a) \/ Missed(a)
  BY <1>3, <1>5, <1>6 DEF Refused, Hit, Missed, Went, Fits, Inserted
<1>7. CASE Passed(a)
  BY <1>3, <1>7 DEF Passed, Went, Fits, Inserted
<1>8. CASE Insert(a) /\ Went(a, "store")
  BY <1>1, <1>2, <1>3, <1>8 DEF Insert, Went, Fits, Inserted, Writes
<1>9. CASE Store(a) /\ Went(a, "mark")
  BY <1>1, <1>2, <1>3, <1>9 DEF Store, Went, Fits, Inserted, Writes
<1>10. CASE StoreFails(a) /\ Went(a, "fail")
  <2>1. vec'[d] \in {vec[d], "hidden"} /\ rec' = rec /\ pc[a] = "store"
    BY <1>1, <1>10 DEF StoreFails
  <2>. QED  BY <1>1, <1>2, <1>3, <1>10, <2>1 DEF Went, Fits, Inserted, Writes
<1>11. CASE MarkFailed(a) /\ Went(a, "scrub")
  BY <1>1, <1>2, <1>3, <1>11 DEF MarkFailed, Went, Fits, Inserted, Writes
<1>12. CASE Scrubbed(a)
  BY <1>1, <1>2, <1>3, <1>5, <1>12 DEF Scrubbed, Scrub, Inserted, Writes
<1>13. CASE MarkIndexed(a) /\ Went(a, "publish")
  BY <1>1, <1>2, <1>3, <1>13 DEF MarkIndexed, Went, Fits, Inserted, Writes
<1>14. CASE Publish(a) /\ Ended(a, TRUE)
  BY <1>1, <1>2, <1>3, <1>5, <1>14 DEF Publish, Fits, Inserted, Writes
<1>15. CASE PublishFails(a)
  <2>1. blamed' = Doc
    BY <1>15 DEF PublishFails
  <2>. QED  BY <2>1 DEF Pure, Equal
<1>. QED
  BY <1>1, <1>6, <1>7, <1>8, <1>9, <1>10, <1>11, <1>12, <1>13, <1>14, <1>15 DEF Ingested

LEMMA IngestStepInv ==
  ASSUME TypeInv, FreshInv, ClaimInv, StepInv, NEW a \in Worker, Ingest(a)
  PROVE  StepInv'
<1>1. /\ a \in Actor /\ job[a].doc \in Doc /\ blamed \subseteq blamed'
      /\ UNCHANGED <<born, restarts>> /\ IngestFrame(a) /\ OthersStay(a)
      /\ vec \in [Doc -> VecStatus] /\ rec \in [Doc -> RecStatus]
      /\ job'[a].doc \in {None, job[a].doc}
  BY IngestCases, IngestPlace, IngestFrames DEF TypeInv, StoresTyped, IngestFrame
<1>2. \A d \in Doc : (Pure(d)' => Pure(d)) /\ (Fresh(d)' <=> Fresh(d))
  BY <1>1, PureBefore DEF Fresh
<1>3. \A d \in Doc : d # job[a].doc => rec'[d] = rec[d] /\ vec'[d] = vec[d]
  BY <1>1 DEF IngestFrame
<1>4. ASSUME NEW b \in Actor, NEW d \in Doc, job'[b].doc = d, Pure(d)'
      PROVE  Fits(b, d)'
  <2>1. CASE b = a
    <3>1. job[a].doc = d
      BY <1>1, <1>4, <2>1, Kinds
    <3>. QED  BY <1>4, <2>1, <3>1, IngestFits
  <2>2. CASE b # a /\ (d # job[a].doc \/ UNCHANGED <<rec, vec>>)
    <3>1. pc'[b] = pc[b] /\ job'[b] = job[b] /\ job[b].doc = d
      BY <1>1, <1>4, <2>2 DEF OthersStay
    <3>2. Fits(b, d) /\ rec'[d] = rec[d] /\ vec'[d] = vec[d]
      BY <1>2, <1>3, <1>4, <2>2, <3>1 DEF StepInv, InStep
    <3>. QED  BY <3>1, <3>2 DEF Fits
  <2>3. CASE b # a /\ d = job[a].doc /\ Writes(a)
    <3>1. pc'[b] = pc[b] /\ job'[b] = job[b] /\ job[b].doc = d
      BY <1>1, <1>4, <2>3 DEF OthersStay
    <3>2. b \in Worker /\ pc[b] \notin Inserted \cup {"insert"}
      BY <1>4, <2>3, <3>1, Alones DEF Sole
    <3>3. pc[b] # "purge"
      <4>1. pc[b] \in StepsOf(b) /\ b \notin Admin
        BY <3>2, Kinds DEF TypeInv, MovesTyped
      <4>. QED  BY <4>1 DEF StepsOf, IngestSteps
    <3>. QED  BY <3>1, <3>2, <3>3 DEF Fits, Inserted
  <2>4. d = job[a].doc => Writes(a) \/ UNCHANGED <<rec, vec>>
    BY <1>4, IngestFits
  <2>. QED  BY <2>1, <2>2, <2>3, <2>4
<1>5. ShownIndexed'
  <2>. SUFFICES ASSUME NEW d \in Doc, Pure(d)', Fresh(d)', vec'[d] = "shown"
                PROVE  rec'[d] = "indexed"
    BY DEF ShownIndexed
  <2>1. CASE d = job[a].doc
    BY <1>2, <2>1, IngestFits
  <2>2. CASE d # job[a].doc
    BY <1>2, <1>3, <2>2 DEF StepInv, ShownIndexed
  <2>. QED  BY <2>1, <2>2
<1>6. Alone'
  <2>. SUFFICES ASSUME NEW b \in Worker, NEW c \in Worker, NEW d \in Doc, b # c, Pure(d)',
                       job'[b].doc = d, pc'[b] \in Inserted, job'[c].doc = d, pc'[c] \in Inserted
                PROVE  FALSE
    BY DEF Alone
  <2>1. ASSUME NEW x \in Worker, x # a
        PROVE  pc'[x] = pc[x] /\ job'[x] = job[x]
    BY <1>1, <2>1, Kinds DEF OthersStay
  <2>2. ASSUME NEW x \in Worker, NEW y \in Worker, x = a, y # a,
               job'[x].doc = d, pc'[x] \in Inserted, job'[y].doc = d, pc'[y] \in Inserted
        PROVE  FALSE
    <3>1. job[a].doc = d /\ job[y].doc = d /\ pc[y] \in Inserted
      BY <1>1, <2>1, <2>2, Kinds
    <3>2. Insert(a) \/ pc[a] \in Inserted
      BY <2>2, <3>1, IngestFits
    <3>3. CASE Insert(a)
      <4>1. Sole(a)
        BY <3>1, <3>3, Alones DEF Writes
      <4>. QED  BY <2>2, <3>1, <4>1, Kinds DEF Sole
    <3>4. CASE pc[a] \in Inserted
      BY <1>2, <2>2, <3>1, <3>4 DEF StepInv, Alone
    <3>. QED  BY <3>2, <3>3, <3>4
  <2>3. CASE b # a /\ c # a
    BY <1>2, <2>1, <2>3 DEF StepInv, Alone
  <2>. QED  BY <2>2, <2>3
<1>. QED  BY <1>4, <1>5, <1>6 DEF StepInv, InStep

LEMMA DeleteStepInv ==
  ASSUME TypeInv, ClaimInv, StepInv, NEW a \in Admin, Delete(a)
  PROVE  StepInv'
<1>1. /\ a \in Actor /\ job[a].doc \in Doc /\ DeleteFrame(a) /\ OthersStay(a)
      /\ vec \in [Doc -> VecStatus] /\ rec \in [Doc -> RecStatus] /\ blamed \in SUBSET Doc
      /\ UNCHANGED <<born, restarts>>
  BY DeleteMoves, Kinds DEF TypeInv, StoresTyped, DeleteFrame
<1>2. blamed \subseteq blamed'
  BY <1>1 DEF Delete, ReadRecord, Purge, PurgeFails, Tombstone, DropRow, history
<1>3. \A d \in Doc : (Pure(d)' => Pure(d)) /\ (Fresh(d)' <=> Fresh(d))
  BY <1>1, <1>2, PureBefore DEF Fresh
<1>4. \A d \in Doc : d # job[a].doc => rec'[d] = rec[d] /\ vec'[d] = vec[d]
  BY <1>1 DEF Delete, ReadRecord, Purge, PurgeFails, Tombstone, DropRow, rag
<1>5. \A b \in Worker : pc'[b] = pc[b] /\ job'[b] = job[b] /\ job[b].doc # job[a].doc
  <2>1. ~ Working(job[a].doc)
    BY <1>1 DEF ClaimInv, Separate, Deleting
  <2>. QED  BY <1>1, <2>1, Kinds DEF OthersStay, Working
<1>6. \A b \in Admin : b # a => pc'[b] = pc[b] /\ job'[b] = job[b] /\ job[b].doc # job[a].doc
  BY <1>1, Kinds DEF OthersStay, ClaimInv, OneDelete
<1>7. Alone'
  BY <1>3, <1>5 DEF StepInv, Alone
<1>8. ASSUME NEW b \in Actor, NEW d \in Doc, job'[b].doc = d, Pure(d)'
      PROVE  Fits(b, d)'
  <2>1. CASE b # a
    BY <1>3, <1>4, <1>5, <1>6, <1>8, <2>1, Kinds DEF StepInv, InStep, Fits
  <2>2. CASE b = a
    <3>1. CASE PurgeFails(a)
      BY <1>8, <3>1 DEF PurgeFails, Pure, Equal
    <3>2. CASE ReadRecord(a) /\ pc'[a] = "purge"
               /\ job'[a].tomb = (rec[job[a].doc] \notin {"absent", "deleted"})
      <4>1. job[a].doc = d /\ rec' = rec
        BY <1>1, <1>8, <2>2, <3>2, Kinds DEF DeleteFrame, ReadRecord, rag
      <4>. QED  BY <2>2, <3>2, <4>1 DEF Fits
    <3>3. CASE pc'[a] \in {"tomb", "drop", "idle"}
      BY <2>2, <3>3 DEF Fits
    <3>. QED  BY <1>1, <3>1, <3>2, <3>3 DEF DeleteFrame
  <2>. QED  BY <2>1, <2>2
<1>9. ShownIndexed'
  <2>. SUFFICES ASSUME NEW d \in Doc, Pure(d)', Fresh(d)', vec'[d] = "shown"
                PROVE  rec'[d] = "indexed"
    BY DEF ShownIndexed
  <2>1. rec[d] = "indexed" /\ vec[d] = "shown"
    <3>1. vec[d] = "shown"
      BY <1>1 DEF Delete, ReadRecord, Purge, PurgeFails, Tombstone, DropRow, rag
    <3>. QED  BY <1>3, <3>1 DEF StepInv, ShownIndexed
  <2>2. CASE Tombstone(a) /\ d = job[a].doc
    <3>1. vec[d] = "none"
      BY <2>2 DEF Tombstone, ClaimInv, Gone
    <3>. QED  BY <2>1, <3>1
  <2>3. CASE ~ (Tombstone(a) /\ d = job[a].doc)
    BY <1>1, <2>1, <2>3 DEF Delete, ReadRecord, Purge, PurgeFails, Tombstone, DropRow, rag
  <2>. QED  BY <2>2, <2>3
<1>. QED  BY <1>7, <1>8, <1>9 DEF StepInv, InStep

LEMMA RestartStepInv ==
  ASSUME TypeInv, Restart
  PROVE  StepInv'
<1>1. /\ \A b \in Actor : job'[b].doc = None
      /\ \A d \in Doc : ~ Fresh(d)'
  <2>1. /\ restarts \in Nat /\ born \in [Doc -> 0..(restarts + 1)]
        /\ restarts' = restarts + 1 /\ born' = born
    BY DEF TypeInv, StoresTyped, Restart, db
  <2>2. \A d \in Doc : born[d] <= restarts + 1
    BY <2>1
  <2>. QED  BY <2>1, <2>2, RestartMoves DEF Fresh
<1>. QED  BY <1>1, Kinds DEF StepInv, Alone, InStep, ShownIndexed

LEMMA NextStep ==
  TypeInv /\ FreshInv /\ ClaimInv /\ StepInv /\ [Next]_vars => StepInv'
  BY AsideSteps, AsideStepInv, IngestStepInv, DeleteStepInv, RestartStepInv, StepCases

-----------------------------------------------------------------------------
(* Why a row that says "indexed" tells the truth.                          *)

(* Its publication is the next step, or the one after it.                  *)
Coming(d) == \E a \in Worker : job[a].doc = d /\ pc[a] \in {"mark", "publish"}

Kept(d) == (rec[d] = "indexed" /\ vec[d] = "shown") \/ Coming(d)

Tombing(d) == \E a \in Admin : job[a].doc = d /\ pc[a] = "tomb"

Emptied(d) == \E a \in Admin : job[a].doc = d /\ pc[a] \in {"tomb", "drop"}

(* Who may still be answered with e although its chunks are gone: nobody   *)
(* who would rely on it.                                                   *)
Excused(d, e) ==
    \/ d = e \/ vec[d] = "shown" \/ Coming(d) \/ Emptied(d)
    \/ born[d] # 0 /\ row[d] = "none"

Backs ==
    \A d \in Doc \ blamed : \A e \in Equal(d) :
       rec[e] = "indexed" => Kept(e) \/ (Tombing(e) /\ Excused(d, e))

Answered(d) == \E e \in Equal(d) : Kept(e)

DoneTrue ==
    \A a \in Thread, d \in Doc \ blamed :
       pc[a] = "finish" /\ job[a].served /\ job[a].doc = d => Answered(d)

(* The re-hydration will ingest it.                                        *)
Pending(d) ==
    /\ pc[Rehydrator] = "start" \/ d \in job[Rehydrator].todo
    /\ vec[d] = "none"

Vouched(d) ==
    \/ vec[d] = "shown" \/ Answered(d) \/ Emptied(d)
    \/ Pending(d) \/ job[Rehydrator].doc = d

RowsTrue == \A d \in Doc \ blamed : row[d] = "indexed" => Vouched(d)

TruthInv == OneTask /\ StepInv /\ Backs /\ DoneTrue /\ RowsTrue

AllInv == TypeInv /\ FreshInv /\ ClaimInv /\ TruthInv

LEMMA InitTruth == Init => Backs /\ DoneTrue /\ RowsTrue
  BY Kinds, IdleJobTyped DEF Init, Backs, DoneTrue, RowsTrue, Equal

LEMMA ExcuseStays ==
  ASSUME NEW d \in Doc, NEW e \in Doc, Excused(d, e),
         vec'[d] = vec[d], Coming(d) => Coming(d)', Emptied(d) => Emptied(d)',
         born'[d] = born[d] \/ born[d] = 0, row[d] = "none" /\ born[d] # 0 => row'[d] = "none"
  PROVE  Excused(d, e)'
  BY DEF Excused

(* Steps beside the ingests and the deletions.                             *)
LEMMA AsideTruth ==
  ASSUME AllInv, Aside,
         \/ UNCHANGED vars \/ \E d \in Doc : Upload(d)
         \/ \E a \in Admin, d \in Doc : BeginDelete(a, d)
         \/ \E a \in Thread : TakeTask(a) \/ WriteRow(a)
         \/ Snapshot \/ RowsDone \/ NextRow \/ CountFails
  PROVE  Backs' /\ DoneTrue' /\ RowsTrue'
<1>1. /\ MovesTyped /\ StoresTyped /\ text \in SUBSET Doc /\ queue \in Seq(Doc)
      /\ UNCHANGED <<rec, vec, blamed>> /\ ClaimInv /\ TruthInv
      /\ row \in [Doc -> RowStatus] /\ born \in [Doc -> Nat]
  BY DEF AllInv, TypeInv, StoresTyped, Aside
<1>2. \A d \in Doc : Coming(d) => Coming(d)'
  BY DEF Aside, Coming, Inserted
<1>3. \A d \in Doc : (Tombing(d) => Tombing(d)') /\ (Emptied(d) => Emptied(d)')
  BY Kinds DEF Aside, Tombing, Emptied
<1>4. \A d \in Doc : Kept(d) => Kept(d)'
  BY <1>1, <1>2 DEF Kept
<1>5. \A d \in Doc : Answered(d) => Answered(d)'
  BY <1>4 DEF Answered, Equal
<1>6. \A d \in Doc : (born'[d] = born[d] \/ born[d] = 0)
                     /\ (row[d] = "none" /\ born[d] # 0 => row'[d] = "none")
  BY <1>1 DEF Upload, BeginDelete, TakeTask, WriteRow, Snapshot, RowsDone, NextRow, CountFails,
              db, vars
<1>7. Backs'
  <2>. SUFFICES ASSUME NEW d \in Doc \ blamed', NEW e \in Equal(d), rec'[e] = "indexed"
                PROVE  Kept(e)' \/ (Tombing(e)' /\ Excused(d, e)')
    BY DEF Backs, Equal
  <2>1. Kept(e) \/ (Tombing(e) /\ Excused(d, e))
    BY <1>1 DEF TruthInv, Backs
  <2>2. e \in Doc
    BY Equals
  <2>3. Excused(d, e) => Excused(d, e)'
    BY <1>1, <1>2, <1>3, <1>6, <2>2, ExcuseStays
  <2>. QED  BY <1>3, <1>4, <2>1, <2>2, <2>3
<1>8. DoneTrue'
  <2>. SUFFICES ASSUME NEW a \in Thread, NEW d \in Doc \ blamed',
                       pc'[a] = "finish", job'[a].served, job'[a].doc = d
                PROVE  Answered(d)'
    BY DEF DoneTrue
  <2>1. pc'[a] = pc[a] /\ job'[a] = job[a]
    <3>1. ~ (\E b \in Thread : TakeTask(b) \/ WriteRow(b))
           => pc'[a] = pc[a] /\ job'[a] = job[a]
      <4>1. CASE UNCHANGED vars \/ \E e \in Doc : Upload(e)
        BY <4>1 DEF vars, Upload
      <4>2. ASSUME NEW b \in Admin, NEW e \in Doc, BeginDelete(b, e)
            PROVE  pc'[a] = pc[a] /\ job'[a] = job[a]
        BY <1>1, <4>2, BeginDeleteMoves, Kinds DEF Became, OthersStay
      <4>3. CASE Snapshot \/ RowsDone
        BY <1>1, <4>3, SnapshotMoves, RowsDoneMoves, Kinds DEF Became, OthersStay
      <4>4. CASE NextRow \/ CountFails
        <5>1. OthersStay(Rehydrator)
          BY <1>1, <4>4, RehydrateMoves DEF Took
        <5>. QED  BY <5>1, Kinds DEF OthersStay
      <4>. QED  BY <4>1, <4>2, <4>3, <4>4
    <3>2. ASSUME NEW b \in Thread, TakeTask(b) \/ WriteRow(b)
          PROVE  pc'[a] = pc[a] /\ job'[a] = job[a]
      <4>1. OthersStay(b) /\ pc'[b] \in {"ingest", "idle"}
        BY <1>1, <3>2, TakeTaskMoves, WriteRowMoves DEF Became
      <4>. QED  BY <4>1, Kinds DEF OthersStay
    <3>. QED  BY <3>1, <3>2
  <2>. QED  BY <1>1, <1>5, <2>1 DEF TruthInv, DoneTrue
<1>9. RowsTrue'
  <2>. SUFFICES ASSUME NEW d \in Doc \ blamed', row'[d] = "indexed"
                PROVE  Vouched(d)'
    BY DEF RowsTrue
  <2>1. ASSUME row[d] = "indexed", Pending(d)' \/ job'[Rehydrator].doc = d
               \/ ~ (Pending(d) \/ job[Rehydrator].doc = d)
        PROVE  Vouched(d)'
    <3>1. Vouched(d)
      BY <1>1, <2>1 DEF TruthInv, RowsTrue
    <3>. QED  BY <1>1, <1>3, <1>5, <2>1, <3>1 DEF Vouched
  <2>2. ASSUME UNCHANGED row, pc'[Rehydrator] = pc[Rehydrator],
               job'[Rehydrator] = job[Rehydrator]
        PROVE  Vouched(d)'
    BY <1>1, <2>1, <2>2 DEF Pending
  <2>3. CASE UNCHANGED vars
    BY <2>2, <2>3 DEF vars
  <2>4. ASSUME NEW e \in Doc, Upload(e)  PROVE Vouched(d)'
    <3>1. row[d] = "indexed" /\ UNCHANGED <<pc, job>>
      BY <1>1, <2>4 DEF Upload
    <3>. QED  BY <1>1, <2>1, <3>1 DEF Pending
  <2>5. ASSUME NEW a \in Admin, NEW e \in Doc, BeginDelete(a, e)  PROVE Vouched(d)'
    <3>1. OthersStay(a) /\ UNCHANGED row
      BY <1>1, <2>5, BeginDeleteMoves DEF Became, BeginDelete, db
    <3>. QED  BY <2>2, <3>1, Kinds DEF OthersStay
  <2>6. ASSUME NEW a \in Thread, TakeTask(a)  PROVE Vouched(d)'
    <3>1. OthersStay(a) /\ UNCHANGED row
      BY <1>1, <2>6, TakeTaskMoves DEF Became, TakeTask, db
    <3>. QED  BY <2>2, <3>1, Kinds DEF OthersStay
  <2>7. ASSUME NEW a \in Thread, WriteRow(a)  PROVE Vouched(d)'
    <3>1. OthersStay(a) /\ pc[a] = "finish" /\ job[a].doc \in Doc
      BY <1>1, <2>7, WriteRowMoves DEF Became, WriteRow
    <3>2. pc'[Rehydrator] = pc[Rehydrator] /\ job'[Rehydrator] = job[Rehydrator]
      BY <3>1, Kinds DEF OthersStay
    <3>3. CASE d = job[a].doc
      <4>1. job[a].served
        BY <1>1, <2>7, <3>1, <3>3 DEF WriteRow, TruthInv, OneTask
      <4>. QED  BY <1>1, <1>5, <3>1, <3>3, <4>1 DEF TruthInv, DoneTrue, Vouched
    <3>4. CASE d # job[a].doc
      <4>1. row[d] = "indexed"
        BY <1>1, <2>7, <3>1, <3>4 DEF WriteRow
      <4>. QED  BY <1>1, <2>1, <3>2, <4>1 DEF Pending
    <3>. QED  BY <3>3, <3>4
  <2>8. CASE Snapshot
    <3>1. /\ pc[Rehydrator] = "start" /\ UNCHANGED row /\ job'[Rehydrator].todo = text
          /\ job[Rehydrator].doc = None
      BY <1>1, <2>8, SnapshotMoves, Kinds
      DEF Became, Snapshot, db, IdleJob, MovesTyped, Resting
    <3>2. d \in text
      BY <1>1, <3>1 DEF TruthInv, OneTask
    <3>. QED  BY <1>1, <2>1, <3>1, <3>2, Kinds DEF Pending
  <2>9. CASE RowsDone
    <3>1. /\ pc[Rehydrator] = "next" /\ UNCHANGED row /\ job[Rehydrator].todo = {}
          /\ job[Rehydrator].doc = None
      BY <1>1, <2>9, Kinds DEF RowsDone, db, MovesTyped, Resting
    <3>. QED  BY <1>1, <2>1, <3>1, Kinds DEF Pending
  <2>10. CASE NextRow \/ CountFails
    <3>1. UNCHANGED row /\ pc[Rehydrator] = "next" /\ job[Rehydrator].doc = None
      BY <1>1, <2>10, RehydrateMoves DEF db
    <3>2. PICK e \in Doc : \/ Took(e, "next", FALSE) /\ vec[e] # "none"
                           \/ Took(e, "ingest", FALSE) /\ vec[e] = "none"
                           \/ Took(e, "ingest", TRUE)
      BY <1>1, <2>10, RehydrateMoves
    <3>3. Pending(d) => Pending(d)' \/ job'[Rehydrator].doc = d
      BY <1>1, <3>1, <3>2 DEF Pending, Took
    <3>. QED  BY <1>1, <2>1, <3>1, <3>3, Kinds
  <2>. QED  BY <2>3, <2>4, <2>5, <2>6, <2>7, <2>8, <2>9, <2>10
<1>. QED  BY <1>7, <1>8, <1>9

(* What an ingest leaves of what others rely on.                           *)
LEMMA IngestKeeps ==
  ASSUME AllInv, NEW a \in Worker, Ingest(a), NEW d \in Doc, Kept(d), Pure(d)'
  PROVE  Kept(d)'
<1>1. /\ TypeInv /\ FreshInv /\ ClaimInv /\ StepInv /\ a \in Actor /\ job[a].doc \in Doc
      /\ Ingested(a) /\ blamed \subseteq blamed' /\ OthersStay(a)
      /\ rec \in [Doc -> RecStatus] /\ vec \in [Doc -> VecStatus]
  BY IngestCases, IngestPlace, IngestFrames
  DEF AllInv, TruthInv, TypeInv, StoresTyped, IngestFrame
<1>2. Pure(d)
  BY <1>1, PureBefore
<1>3. \A b \in Worker : b # a => pc'[b] = pc[b] /\ job'[b] = job[b]
  BY <1>1, Kinds DEF OthersStay
<1>4. CASE d # job[a].doc
  <2>1. rec'[d] = rec[d] /\ vec'[d] = vec[d]
    BY <1>1, <1>4, IngestFrames DEF IngestFrame
  <2>2. Coming(d) => Coming(d)'
    BY <1>3, <1>4 DEF Coming
  <2>. QED  BY <2>1, <2>2 DEF Kept
<1>5. CASE d = job[a].doc /\ ~ Writes(a)
  <2>1. UNCHANGED <<rec, vec>>
    BY <1>1, <1>5, IngestFits
  <2>2. ~ PublishFails(a)
    <3>. SUFFICES ASSUME PublishFails(a)  PROVE FALSE
      OBVIOUS
    <3>1. blamed' = Doc
      BY DEF PublishFails
    <3>. QED  BY <3>1 DEF Pure, Equal
  <2>3. pc[a] \notin {"mark", "publish"}
    BY <1>1, <1>5, <2>2 DEF Ingested, Refused, Hit, Missed, Passed, Scrubbed, Writes
  <2>4. Coming(d) => Coming(d)'
    BY <1>3, <2>3 DEF Coming
  <2>. QED  BY <2>1, <2>4 DEF Kept
<1>6. CASE d = job[a].doc /\ Writes(a)
  <2>1. Fits(a, d)
    BY <1>1, <1>2, <1>6 DEF StepInv, InStep
  <2>2. \A b \in Worker : b # a /\ job[b].doc = d => pc[b] \notin Inserted
    BY <1>1, <1>6, Alones, Kinds DEF Sole
  <2>3. Coming(d) => pc[a] \in {"mark", "publish"}
    BY <2>2 DEF Coming, Inserted
  <2>4. CASE MarkIndexed(a) /\ Went(a, "publish")
    BY <1>6, <2>4 DEF Went, Kept, Coming
  <2>5. CASE Publish(a)
    <3>1. rec[d] = "indexed" /\ vec[d] = "hidden" /\ rec' = rec /\ vec'[d] = "shown"
      BY <1>1, <1>6, <2>1, <2>5 DEF Publish, Fits
    <3>. QED  BY <3>1 DEF Kept
  <2>6. ~ (Insert(a) \/ Store(a) \/ StoreFails(a) \/ MarkFailed(a) \/ Scrub(a))
    BY <2>1, <2>3 DEF Insert, Store, StoreFails, MarkFailed, Scrub, Fits, Kept
  <2>7. MarkIndexed(a) => Went(a, "publish")
    BY <1>1
    DEF Ingested, Refused, Hit, Missed, Passed, Scrubbed, Insert, Store, StoreFails,
        MarkFailed, Scrub, MarkIndexed, Publish, PublishFails
  <2>. QED  BY <1>6, <2>4, <2>5, <2>6, <2>7 DEF Writes
<1>. QED  BY <1>4, <1>5, <1>6

(* An ingest that is answered with an equal document can rely on it.       *)
LEMMA HitAnswered ==
  ASSUME AllInv, NEW a \in Worker, NEW d \in Doc \ blamed, job[a].doc = d,
         \E e \in Equal(d) : rec[e] = "indexed"
  PROVE  /\ Answered(d) \/ (a = Rehydrator /\ vec[d] = "shown")
<1>1. PICK e \in Equal(d) : rec[e] = "indexed"
  OBVIOUS
<1>2. Kept(e) \/ (Tombing(e) /\ Excused(d, e))
  BY <1>1 DEF AllInv, TruthInv, Backs
<1>3. Working(d) /\ row[d] # "none" /\ ~ Deleting(d)
  BY DEF AllInv, ClaimInv, Rowed, Separate, Working
<1>4. ~ Emptied(d) /\ ~ Tombing(d)
  BY <1>3 DEF Emptied, Tombing, Deleting
<1>5. d \in Equal(d) /\ Pure(d)
  BY Equals DEF Pure
<1>6. CASE a \in Thread /\ vec[d] = "shown"
  <2>1. Fresh(d)
    BY <1>6 DEF AllInv, FreshInv
  <2>2. rec[d] = "indexed"
    BY <1>5, <1>6, <2>1 DEF AllInv, TruthInv, StepInv, ShownIndexed
  <2>. QED  BY <1>5, <1>6, <2>2 DEF Answered, Kept
<1>7. CASE Kept(e)
  BY <1>7 DEF Answered
<1>8. CASE Coming(d)
  BY <1>5, <1>8 DEF Answered, Kept
<1>. QED  BY <1>2, <1>3, <1>4, <1>6, <1>7, <1>8 DEF Excused, Worker

LEMMA IngestTruth ==
  ASSUME AllInv, NEW a \in Worker, Ingest(a)
  PROVE  Backs' /\ DoneTrue' /\ RowsTrue'
<1>1. /\ TypeInv /\ FreshInv /\ ClaimInv /\ StepInv /\ OneTask /\ a \in Actor
      /\ job[a].doc \in Doc /\ job[a].doc # None
      /\ Ingested(a) /\ blamed \subseteq blamed' /\ OthersStay(a) /\ IngestFrame(a)
      /\ rec \in [Doc -> RecStatus] /\ vec \in [Doc -> VecStatus]
      /\ UNCHANGED <<row, text, born, queue, restarts>>
      /\ Backs /\ DoneTrue /\ RowsTrue /\ None \notin Doc
  BY IngestCases, IngestPlace, IngestFrames, Kinds
  DEF AllInv, TruthInv, TypeInv, StoresTyped, IngestFrame
<1>2. \A b \in Actor : b # a => pc'[b] = pc[b] /\ job'[b] = job[b]
  BY <1>1 DEF OthersStay
<1>3. \A d \in Doc : (Tombing(d)' <=> Tombing(d)) /\ (Emptied(d)' <=> Emptied(d))
  BY <1>2, Kinds DEF Tombing, Emptied
<1>4. \A d \in Doc \ blamed' : d \in Doc \ blamed /\ \A e \in Equal(d) :
         e \in Doc /\ Pure(e)' /\ Pure(e) /\ Pure(d) /\ Pure(d)'
  BY <1>1, Equals DEF Pure
<1>5. \A d \in Doc \ blamed' : \A e \in Equal(d) : Kept(e) => Kept(e)'
  BY <1>4, IngestKeeps
<1>6. \A d \in Doc \ blamed' : Answered(d) => Answered(d)'
  BY <1>5 DEF Answered, Equal
<1>7. ASSUME NEW d \in Doc \ blamed', vec[d] = "shown"
      PROVE  vec'[d] = "shown" \/ Coming(d)'
  <2>1. CASE Store(a) /\ job[a].doc = d
    <3>1. Went(a, "mark")
      BY <1>1, <2>1, IngestPlace, Going1 DEF TypeInv, Store, IngestSteps
    <3>. QED  BY <2>1, <3>1 DEF Went, Coming
  <2>2. CASE Scrub(a) /\ job[a].doc = d
    <3>1. Scrubbed(a) \/ Refused(a)
      BY <1>1, <2>2 DEF Ingested, Hit, Missed, Passed, Insert, Store,
            StoreFails, MarkFailed, Scrub, MarkIndexed, Publish, PublishFails
    <3>2. a # Rehydrator
      BY <2>2, <3>1 DEF Scrubbed, Refused
    <3>3. a \in Thread /\ Pure(d) /\ Fits(a, d)
      BY <1>1, <1>4, <2>2, <3>2, Equals DEF Worker, StepInv, InStep
    <3>4. Fresh(d) /\ rec[d] = "failed"
      BY <1>1, <2>2, <3>3 DEF FreshInv, Fits, Scrub
    <3>. QED  BY <1>1, <1>7, <3>3, <3>4 DEF StepInv, ShownIndexed
  <2>. QED  BY <1>1, <1>7, <2>1, <2>2 DEF IngestFrame
<1>8. Backs'
  <2>. SUFFICES ASSUME NEW d \in Doc \ blamed', NEW e \in Equal(d), rec'[e] = "indexed"
                PROVE  Kept(e)' \/ (Tombing(e)' /\ Excused(d, e)')
    BY DEF Backs, Equal
  <2>1. e \in Doc /\ d \in Doc \ blamed /\ d \in Equal(d)
    BY <1>4, Equals
  <2>2. CASE rec[e] = "indexed"
    <3>1. Kept(e) \/ (Tombing(e) /\ Excused(d, e))
      BY <1>1, <2>1, <2>2 DEF Backs
    <3>2. CASE Kept(e)
      BY <1>5, <3>2
    <3>3. CASE Tombing(e) /\ Excused(d, e)
      <4>1. Coming(d) => Coming(d)' \/ vec'[d] = "shown"
        BY <1>5, <2>1 DEF Kept
      <4>. QED  BY <1>1, <1>3, <1>7, <2>1, <3>3, <4>1 DEF Excused
    <3>. QED  BY <3>1, <3>2, <3>3
  <2>3. CASE rec[e] # "indexed"
    <3>1. MarkIndexed(a) /\ e = job[a].doc
      BY <1>1, <2>1, <2>3
      DEF Ingested, Refused, Hit, Missed, Passed, Scrubbed, Insert, Store, StoreFails,
          MarkFailed, Scrub, MarkIndexed, Publish, PublishFails, rag
    <3>2. Went(a, "publish")
      BY <1>1, <3>1 DEF Ingested, Refused, Hit, Missed, Passed, Scrubbed, Insert, Store,
            StoreFails, MarkFailed, Scrub, MarkIndexed, Publish, PublishFails
    <3>. QED  BY <3>1, <3>2 DEF Went, Kept, Coming
  <2>. QED  BY <2>2, <2>3
<1>9. ASSUME NEW d \in Doc \ blamed', job[a].doc = d, Hit(a) \/ (Publish(a) /\ Ended(a, TRUE))
      PROVE  Answered(d)' \/ (a = Rehydrator /\ vec'[d] = "shown")
  <2>1. CASE Hit(a)
    <3>1. Answered(d) \/ (a = Rehydrator /\ vec[d] = "shown")
      BY <1>4, <1>9, <2>1, Equals, HitAnswered DEF Hit
    <3>. QED  BY <1>6, <2>1, <3>1 DEF Hit
  <2>2. CASE Publish(a)
    <3>1. Pure(d) /\ d \in Equal(d) /\ Fits(a, d)
      BY <1>1, <1>4, <1>9, Equals DEF StepInv, InStep
    <3>2. rec'[d] = "indexed" /\ vec'[d] = "shown"
      BY <1>1, <1>9, <2>2, <3>1 DEF Publish, Fits
    <3>. QED  BY <3>1, <3>2 DEF Answered, Kept, Equal
  <2>. QED  BY <1>9, <2>1, <2>2
<1>10. DoneTrue'
  <2>. SUFFICES ASSUME NEW b \in Thread, NEW d \in Doc \ blamed',
                       pc'[b] = "finish", job'[b].served, job'[b].doc = d
                PROVE  Answered(d)'
    BY DEF DoneTrue
  <2>1. CASE b # a
    <3>1. Answered(d)
      BY <1>1, <1>2, <1>4, <2>1, Kinds DEF DoneTrue
    <3>. QED  BY <1>6, <3>1
  <2>2. CASE b = a
    <3>1. job[a].doc = d /\ a # Rehydrator
      BY <1>1, <2>2, Kinds DEF IngestFrame
    <3>2. ~ Ended(a, FALSE) /\ \A s \in IngestSteps : ~ Went(a, s)
      BY <2>2, <3>1 DEF Ended, Went, IngestSteps
    <3>3. Hit(a) \/ (Publish(a) /\ Ended(a, TRUE))
      BY <1>1, <3>2 DEF Ingested, Refused, Missed, Passed, Scrubbed, IngestSteps
    <3>. QED  BY <1>9, <3>1, <3>3
  <2>. QED  BY <2>1, <2>2
<1>11. RowsTrue'
  <2>. SUFFICES ASSUME NEW d \in Doc \ blamed', row'[d] = "indexed"
                PROVE  Vouched(d)'
    BY DEF RowsTrue
  <2>1. row[d] = "indexed" /\ Vouched(d) /\ d \in Equal(d)
    BY <1>1, <1>4, Equals DEF RowsTrue
  <2>2. job[a].doc = d => a = Rehydrator
    BY <1>1, <2>1 DEF OneTask, Worker
  <2>3. CASE job[Rehydrator].doc = d /\ a = Rehydrator
    <3>1. CASE Hit(a) \/ (Publish(a) /\ Ended(a, TRUE))
      BY <1>9, <2>3, <3>1 DEF Vouched
    <3>2. CASE Refused(a) \/ Scrubbed(a)
      BY <2>3, <3>2 DEF Refused, Scrubbed
    <3>3. CASE PublishFails(a)
      BY <3>3 DEF PublishFails
    <3>4. CASE \E s \in IngestSteps : Went(a, s)
      BY <2>3, <3>4 DEF Went, Vouched
    <3>. QED
      BY <1>1, <3>1, <3>2, <3>3, <3>4 DEF Ingested, Missed, Passed, IngestSteps
  <2>4. CASE job[a].doc # d
    <3>1. vec'[d] = vec[d]
      BY <1>1, <2>4 DEF IngestFrame
    <3>2. Pending(d) => Pending(d)'
      <4>1. pc[Rehydrator] = "start" => a # Rehydrator
        BY <1>1, IngestPlace DEF TypeInv, IngestSteps
      <4>2. job'[Rehydrator].todo = job[Rehydrator].todo
        BY <1>1, <1>2, Kinds DEF IngestFrame
      <4>. QED  BY <1>2, <3>1, <4>1, <4>2, Kinds DEF Pending
    <3>3. job[Rehydrator].doc = d => job'[Rehydrator].doc = d
      BY <1>2, <2>4, Kinds
    <3>. QED  BY <1>3, <1>6, <2>1, <3>1, <3>2, <3>3 DEF Vouched
  <2>. QED  BY <2>2, <2>3, <2>4
<1>. QED  BY <1>8, <1>10, <1>11

LEMMA DeleteTruth ==
  ASSUME AllInv, NEW a \in Admin, Delete(a)
  PROVE  Backs' /\ DoneTrue' /\ RowsTrue'
<1> DEFINE x == job[a].doc
<1>1. /\ TypeInv /\ FreshInv /\ ClaimInv /\ StepInv /\ OneTask /\ a \in Actor
      /\ x \in Doc /\ x # None /\ OthersStay(a) /\ DeleteFrame(a)
      /\ rec \in [Doc -> RecStatus] /\ vec \in [Doc -> VecStatus]
      /\ row \in [Doc -> RowStatus] /\ blamed \in SUBSET Doc
      /\ UNCHANGED <<born, queue, restarts>>
      /\ Backs /\ DoneTrue /\ RowsTrue /\ None \notin Doc
  BY DeleteMoves, Kinds DEF AllInv, TruthInv, TypeInv, StoresTyped, DeleteFrame
<1>2. /\ \A b \in Worker : pc'[b] = pc[b] /\ job'[b] = job[b] /\ job[b].doc # x
      /\ \A b \in Admin : b # a => pc'[b] = pc[b] /\ job'[b] = job[b] /\ job[b].doc # x
      /\ row[x] # "none" /\ born[x] # 0
  <2>1. ~ Working(x) /\ row[x] # "none" /\ born[x] # 0
    BY <1>1 DEF ClaimInv, Separate, Deleting, Rowed, Born
  <2>. QED  BY <1>1, <2>1, Kinds DEF OthersStay, Working, ClaimInv, OneDelete
<1>3. /\ \A d \in Doc : d # x => rec'[d] = rec[d] /\ vec'[d] = vec[d] /\ row'[d] = row[d]
      /\ \A d \in Doc : vec'[d] = vec[d] \/ vec'[d] = "none"
      /\ \A d \in Doc : row'[d] = row[d] \/ row'[d] = "none"
      /\ \A d \in Doc : rec'[d] = "indexed" => rec[d] = "indexed"
      /\ blamed \subseteq blamed'
  BY <1>1 DEF Delete, ReadRecord, Purge, PurgeFails, Tombstone, DropRow, rag, db, history
<1>4. CASE PurgeFails(a)
  BY <1>4 DEF PurgeFails, Backs, DoneTrue, RowsTrue
<1>5. CASE ~ PurgeFails(a)
  <2>1. \A d \in Doc : Coming(d)' <=> Coming(d)
    BY <1>2 DEF Coming
  <2>2. ~ Coming(x)
    BY <1>2 DEF Coming
  <2>3. Tombstone(a) => vec[x] = "none"
    BY <1>1 DEF Tombstone, ClaimInv, Gone
  <2>4. \A d \in Doc : Kept(d) => Kept(d)' \/ (Purge(a) /\ d = x)
    <3>. SUFFICES ASSUME NEW d \in Doc, Kept(d), ~ (Purge(a) /\ d = x)  PROVE Kept(d)'
      OBVIOUS
    <3>1. CASE d # x
      BY <1>3, <2>1, <3>1 DEF Kept
    <3>2. CASE d = x
      <4>1. ~ Purge(a) /\ ~ Tombstone(a)
        BY <2>2, <2>3, <3>2 DEF Kept
      <4>2. UNCHANGED <<rec, vec>>
        BY <1>1, <1>5, <4>1 DEF Delete, ReadRecord, DropRow, rag
      <4>. QED  BY <2>1, <4>2 DEF Kept
    <3>. QED  BY <3>1, <3>2
  <2>5. \A d \in Doc \ blamed' : Purge(a) /\ x \in Equal(d) => vec[d] = "shown"
    BY <1>1 DEF Purge, Equal
  <2>6. /\ Purge(a) => pc'[a] \in {"tomb", "drop"} /\ job'[a].doc = x
        /\ Tombstone(a) => pc'[a] = "drop" /\ job'[a].doc = x
        /\ DropRow(a) => row'[x] = "none"
        /\ pc[a] \in {"tomb", "drop"} => Tombstone(a) \/ DropRow(a)
    BY <1>1, <1>5 DEF DeleteFrame, Delete, ReadRecord, Purge, PurgeFails, Tombstone, DropRow
  <2>7. ASSUME NEW d \in Doc, Purge(a), d = x  PROVE Emptied(d)'
    BY <2>6, <2>7 DEF Emptied
  <2>8. \A d \in Doc : Emptied(d) => Emptied(d)' \/ row'[d] = "none"
    <3>. SUFFICES ASSUME NEW d \in Doc, NEW b \in Admin, job[b].doc = d, pc[b] \in {"tomb", "drop"}
                  PROVE  Emptied(d)' \/ row'[d] = "none"
      BY DEF Emptied
    <3>1. CASE b # a
      BY <1>2, <3>1 DEF Emptied
    <3>2. CASE b = a
      BY <2>6, <3>2 DEF Emptied
    <3>. QED  BY <3>1, <3>2
  <2>9. Backs'
    <3>. SUFFICES ASSUME NEW d \in Doc \ blamed', NEW e \in Equal(d), rec'[e] = "indexed"
                  PROVE  Kept(e)' \/ (Tombing(e)' /\ Excused(d, e)')
      BY DEF Backs, Equal
    <3>1. e \in Doc /\ d \in Doc \ blamed /\ d \in Equal(e)
      BY <1>3, Equals
    <3>2. rec[e] = "indexed" /\ (Kept(e) \/ (Tombing(e) /\ Excused(d, e)))
      BY <1>1, <1>3, <3>1 DEF Backs
    <3>3. CASE Kept(e) /\ ~ (Purge(a) /\ e = x)
      BY <2>4, <3>1, <3>3
    <3>4. CASE Purge(a) /\ e = x
      <4>1. Pure(x) /\ job[a].doc = x
        BY <3>1, <3>4 DEF Pure
      <4>2. Fits(a, x) /\ pc[a] = "purge"
        BY <1>1, <3>4, <4>1 DEF StepInv, InStep, Purge
      <4>3. job[a].tomb
        BY <3>2, <3>4, <4>2 DEF Fits
      <4>4. pc'[a] = "tomb" /\ job'[a].doc = x
        <5>1. ~ ReadRecord(a) /\ ~ Tombstone(a) /\ ~ DropRow(a)
          BY <4>2 DEF ReadRecord, Tombstone, DropRow
        <5>. QED  BY <1>1, <1>5, <4>3, <5>1 DEF DeleteFrame
      <4>5. Tombing(e)'
        BY <3>4, <4>4 DEF Tombing
      <4>6. vec[d] = "shown"
        BY <2>5, <3>4
      <4>7. d = e \/ vec'[d] = "shown"
        BY <1>3, <3>4, <4>6
      <4>. QED  BY <4>5, <4>7 DEF Excused
    <3>5. CASE Tombing(e) /\ Excused(d, e) /\ ~ (Purge(a) /\ e = x)
      <4>1. Tombing(e)'
        <5>1. PICK b \in Admin : job[b].doc = e /\ pc[b] = "tomb"
          BY <3>5 DEF Tombing
        <5>2. b # a
          <6>. SUFFICES ASSUME b = a  PROVE FALSE
            OBVIOUS
          <6>1. Tombstone(a) \/ DropRow(a)
            BY <2>6, <5>1
          <6>2. Tombstone(a)
            BY <5>1, <6>1 DEF DropRow
          <6>. QED  BY <1>1, <3>1, <5>1, <6>2 DEF Tombstone
        <5>. QED  BY <1>2, <5>1, <5>2 DEF Tombing
      <4>2. vec[d] = "shown" => vec'[d] = "shown" \/ Emptied(d)'
        <5>1. CASE Purge(a) /\ d = x
          BY <2>7, <5>1
        <5>2. CASE ~ (Purge(a) /\ d = x)
          BY <1>1, <1>3, <1>5, <5>2 DEF Delete, ReadRecord, Purge, Tombstone, DropRow, rag
        <5>. QED  BY <5>1, <5>2
      <4>3. Emptied(d) => Emptied(d)' \/ (born'[d] # 0 /\ row'[d] = "none")
        <5>1. Emptied(d) => born[d] # 0
          BY <3>1 DEF Emptied, AllInv, ClaimInv, Rowed, Born, Deleting
        <5>. QED  BY <1>1, <2>8, <3>1, <5>1
      <4>4. row[d] = "none" => row'[d] = "none"
        BY <1>3, <3>1
      <4>. QED  BY <1>1, <2>1, <3>1, <3>5, <4>1, <4>2, <4>3, <4>4 DEF Excused
    <3>. QED  BY <3>2, <3>3, <3>4, <3>5
  <2>10. ASSUME NEW d \in Doc \ blamed', Answered(d)
         PROVE  Answered(d)' \/ (Purge(a) /\ vec[d] = "shown" /\ x \in Equal(d))
    <3>1. PICK e \in Equal(d) : Kept(e)
      BY <2>10 DEF Answered
    <3>2. e \in Doc
      BY Equals
    <3>. QED  BY <2>4, <2>5, <3>1, <3>2 DEF Answered, Equal
  <2>11. DoneTrue'
    <3>. SUFFICES ASSUME NEW b \in Thread, NEW d \in Doc \ blamed',
                         pc'[b] = "finish", job'[b].served, job'[b].doc = d
                  PROVE  Answered(d)'
      BY DEF DoneTrue
    <3>1. /\ pc[b] = "finish" /\ job[b].served /\ job[b].doc = d /\ d # x
          /\ d \in Doc \ blamed /\ d \in Equal(d)
      BY <1>2, <1>3, Kinds, Equals DEF Worker
    <3>2. Answered(d)
      BY <1>1, <3>1 DEF DoneTrue
    <3>3. CASE vec[d] = "shown"
      <4>1. Fresh(d) /\ Pure(d)
        BY <1>1, <3>1 DEF FreshInv, Pure
      <4>2. rec[d] = "indexed"
        BY <1>1, <3>1, <3>3, <4>1 DEF StepInv, ShownIndexed
      <4>3. Kept(d)'
        BY <1>3, <3>1, <3>3, <4>2 DEF Kept
      <4>. QED  BY <3>1, <4>3 DEF Answered, Equal
    <3>. QED  BY <2>10, <3>2, <3>3
  <2>12. RowsTrue'
    <3>. SUFFICES ASSUME NEW d \in Doc \ blamed', row'[d] = "indexed"
                  PROVE  Vouched(d)'
      BY DEF RowsTrue
    <3>1. row[d] = "indexed" /\ Vouched(d) /\ d \in Doc \ blamed
      BY <1>1, <1>3 DEF RowsTrue
    <3>2. vec[d] = "shown" => vec'[d] = "shown" \/ Emptied(d)'
      <4>1. CASE Purge(a) /\ d = x
        BY <2>7, <4>1
      <4>2. CASE ~ (Purge(a) /\ d = x)
        BY <1>1, <1>3, <1>5, <4>2 DEF Delete, ReadRecord, Purge, Tombstone, DropRow, rag
      <4>. QED  BY <4>1, <4>2
    <3>3. Pending(d) => Pending(d)'
      BY <1>2, <1>3, Kinds DEF Pending
    <3>4. job'[Rehydrator] = job[Rehydrator]
      BY <1>2, Kinds
    <3>. QED  BY <2>8, <2>10, <3>1, <3>2, <3>3, <3>4 DEF Vouched
  <2>. QED  BY <2>9, <2>11, <2>12
<1>. QED  BY <1>4, <1>5

LEMMA RestartTruth ==
  ASSUME AllInv, Restart
  PROVE  Backs' /\ DoneTrue' /\ RowsTrue'
<1>1. /\ \A d \in Doc : rec'[d] = "absent"
      /\ \A b \in Actor : pc'[b] \in {"start", "idle"}
      /\ pc'[Rehydrator] = "start"
  BY RestartMoves, Kinds DEF Restart
<1>2. Backs' /\ DoneTrue'
  BY <1>1, Kinds, Equals DEF Backs, DoneTrue, Equal
<1>3. RowsTrue'
  <2>. SUFFICES ASSUME NEW d \in Doc \ blamed', row'[d] = "indexed"
                PROVE  Vouched(d)'
    BY DEF RowsTrue
  <2>1. d \in Equal(d) /\ vec'[d] # "hidden"
    BY Equals DEF Restart
  <2>2. vec'[d] \in VecStatus
    BY DEF AllInv, TypeInv, StoresTyped, Restart, VecStatus
  <2>. QED  BY <1>1, <2>1, <2>2 DEF VecStatus, Vouched, Pending
<1>. QED  BY <1>2, <1>3

LEMMA NextTruth == AllInv /\ [Next]_vars => Backs' /\ DoneTrue' /\ RowsTrue'
<1>. SUFFICES ASSUME AllInv, [Next]_vars  PROVE Backs' /\ DoneTrue' /\ RowsTrue'
  OBVIOUS
<1>1. CASE \/ UNCHANGED vars \/ \E d \in Doc : Upload(d)
           \/ \E a \in Admin, d \in Doc : BeginDelete(a, d)
           \/ \E a \in Thread : TakeTask(a) \/ WriteRow(a)
           \/ Snapshot \/ RowsDone \/ NextRow \/ CountFails
  <2>1. Aside
    BY <1>1, AsideSteps DEF AllInv
  <2>. QED  BY <1>1, <2>1, AsideTruth
<1>. QED  BY <1>1, IngestTruth, DeleteTruth, RestartTruth, StepCases

LEMMA AllAlways == ASSUME Apart  PROVE Spec => []AllInv
<1>1. Init => AllInv
  BY InitTypes, InitFresh, InitClaims, InitTask, InitStep, InitTruth DEF AllInv, TruthInv
<1>2. AllInv /\ [Next]_vars => AllInv'
  <2>. SUFFICES ASSUME AllInv, [Next]_vars  PROVE AllInv'
    OBVIOUS
  <2>1. TypeInv' /\ FreshInv' /\ ClaimInv'
    BY NextTypes, NextFresh, NextClaims DEF AllInv
  <2>2. OneTask' /\ StepInv'
    BY NextTask, NextStep DEF AllInv, TruthInv
  <2>3. Backs' /\ DoneTrue' /\ RowsTrue'
    BY NextTruth
  <2>. QED  BY <2>1, <2>2, <2>3 DEF AllInv, TruthInv
<1>. QED  BY <1>1, <1>2, PTL DEF Spec

(* What the rows promise: once nobody works on it or an equal one, a       *)
(* document whose row says "indexed" is searchable, under its own id or    *)
(* under that of an equal one, also after a restart; but for the failures  *)
(* and crashes that RowTruth names, and provided no document is deleted    *)
(* while it is ingested.                                                   *)
THEOREM RowsTellTheTruth == ASSUME Apart  PROVE Spec => []RowTruth
<1>1. ASSUME AllInv, NEW d \in Doc \ blamed, row[d] = "indexed", Quiet(d)
      PROVE  Served(d)
  <2>1. Vouched(d) /\ d \in Equal(d)
    BY <1>1, Equals DEF AllInv, TruthInv, RowsTrue
  <2>2. \A e \in Equal(d) : ~ Busy(e)
    BY <1>1 DEF Quiet
  <2>3. \A e \in Equal(d) : ~ Coming(e) /\ ~ Emptied(e) /\ ~ Pending(e) /\ job[Rehydrator].doc # e
    BY <2>2, Kinds DEF Busy, Coming, Emptied, Pending
  <2>. QED  BY <2>1, <2>3 DEF Vouched, Answered, Kept, Served
<1>2. AllInv => RowTruth
  BY <1>1 DEF RowTruth
<1>. QED  BY <1>2, AllAlways, PTL

================================================================================
