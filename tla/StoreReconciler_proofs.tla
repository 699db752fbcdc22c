------------------------ MODULE StoreReconciler_proofs ------------------------
(***************************************************************************)
(* Proofs about StoreReconciler beside a running IngestLifecycle, for any  *)
(* documents, workers, faults, crashes and number of sweeps.  On top of    *)
(* StampedInv of IngestLifecycle_proofs:                                   *)
(*   SweepTyped  the locals of the operator's call                         *)
(*   CalmInv     what the call has seen and done, if nothing came between  *)
(*   HoldInv     what it may rely on about the document it puts right, if  *)
(*               no operation runs on that one (Exclusive)                 *)
(***************************************************************************)
EXTENDS StoreReconciler, IngestLifecycle_proofs

USE DEF Active

-----------------------------------------------------------------------------
(* The stores.                                                             *)

LEMMA SweepStores ==
  ASSUME StampedInv, Sweep
  PROVE  /\ StampedInv'
         /\ UNCHANGED <<rec, batch, pc, job, issued>>
         /\ held' \subseteq held
         /\ held' # held => DeleteOrphan \/ DeleteOrphanFails
         /\ visible' # visible => SetOne \/ DeleteOrphan \/ DeleteOrphanFails
<1>1. TypeInv /\ Numbered /\ StampInv /\ visible \subseteq held /\ known \subseteq Doc
  BY DEF StampedInv, TypeInv, TypeOK
<1>2. /\ UNCHANGED <<rec, batch, pc, job, issued>>
      /\ held' \subseteq held /\ visible' \subseteq held' /\ known' \subseteq known
      /\ held' # held => DeleteOrphan \/ DeleteOrphanFails
      /\ visible' # visible => SetOne \/ DeleteOrphan \/ DeleteOrphanFails
  <2>1. CASE UNCHANGED vars
    BY <1>1, <2>1 DEF vars
  <2>2. CASE SetOne
    BY <1>1, <2>2 DEF SetOne
  <2>3. CASE DeleteOrphan
    BY <1>1, <2>3 DEF DeleteOrphan, DeleteObjects
  <2>4. CASE DeleteOrphanFails
    BY <1>1, <2>4 DEF DeleteOrphanFails, DeleteSome, DeleteObjects
  <2>. QED
    BY <2>1, <2>2, <2>3, <2>4
    DEF Sweep, BeginCheck, Report, Inspect, InspectBlind, NextDrift, NextOrphan,
        ListObjects, ListBlind, SetFails, Repaired, Finish
<1>3. TypeInv'
  BY <1>1, <1>2 DEF TypeInv, TypeOK, Engaged
<1>4. Numbered' /\ StampInv'
  BY <1>1, <1>2 DEF Numbered, StampInv
<1>. QED  BY <1>2, <1>3, <1>4 DEF StampedInv

LEMMA ServeStamped ==
  ASSUME StampedInv, Serve
  PROVE  StampedInv'
  BY NextStamped DEF Serve, Next

LEMMA DieStamped ==
  ASSUME StampedInv, Die
  PROVE  StampedInv'
<1>1. CASE Crash
  BY <1>1, NextStamped DEF Next
<1>2. CASE known' = {} /\ UNCHANGED <<rec, held, visible, batch, pc, job, issued>>
  BY <1>2 DEF StampedInv, Numbered, StampInv, TypeInv, TypeOK, Engaged
<1>. QED  BY <1>1, <1>2 DEF Die

(* The chunks that an earlier life may have left are stamped like others. *)
LEMMA LegacyStamped ==
  ASSUME Legacy
  PROVE  StampedInv
<1>1. MaxOps \in Nat /\ MaxOps > 0 /\ 1 \in OpId /\ None \notin Doc
  BY LifecycleAssumption, SweepAssumption DEF OpId
<1>2. PICK d \in Doc, c \in Content :
        batch = [o \in OpId |-> IF o = 1 THEN [doc |-> d, content |-> c, version |-> 1]
                                ELSE NoStamp]
  BY DEF Legacy
<1>3. /\ batch \in [OpId -> Stamp] /\ batch[1].doc = d
      /\ \A o \in OpId : o > 1 => batch[o].doc = None
  BY <1>1, <1>2 DEF Stamp, NoStamp, OpId
<1>4. /\ held \subseteq ChunkId /\ visible = held /\ known = {}
      /\ \A i \in held : i[1] = 1
  BY <1>1 DEF Legacy, ChunkId
<1>5. rec \in [Doc -> Record] /\ pc \in [Worker -> Steps] /\ job \in [Worker -> Job]
      /\ issued = 1 /\ \A w \in Worker : pc[w] = "idle"
  BY IdleJobType, LifecycleAssumption DEF Legacy, NoRecord, Record, Status, Steps
<1>6. TypeInv
  BY <1>1, <1>3, <1>4, <1>5 DEF TypeInv, TypeOK, Engaged
<1>7. Numbered /\ StampInv
  BY <1>1, <1>3, <1>4, <1>5 DEF Numbered, StampInv, Unbuilt
<1>. QED  BY <1>6, <1>7 DEF StampedInv

-----------------------------------------------------------------------------
(* The locals of the operator's call.                                      *)

SweepState ==
    [pc : SweepSteps, listed : [Doc -> Status], todo : SUBSET Doc, drifted : SUBSET Doc,
     orphans : SUBSET Doc, doc : Doc \cup {None}, want : BOOLEAN, ids : SUBSET ChunkId,
     count : 0..MaxSweeps]

SweepTyped ==
    /\ sweep \in SweepState
    /\ sweep.todo \cap sweep.orphans = {} /\ sweep.todo \cap sweep.drifted = {}
    /\ (sweep.doc # None) <=> sweep.pc \in {"list", "set", "delete"}
    /\ calm \in BOOLEAN

LEMMA OverTyped ==
  ASSUME SweepTyped
  PROVE  /\ Over \in SweepState /\ Over.pc = "idle" /\ Over.doc = None
         /\ Over.todo = {} /\ Over.drifted = {}
  BY DEF SweepTyped, Over, NoSweep, SweepState, SweepSteps, Status

LEMMA OverKeeps ==
  ASSUME SweepTyped, sweep' = Over, calm' \in BOOLEAN
  PROVE  SweepTyped'
  BY OverTyped DEF SweepTyped

LEMMA SettleTyped ==
  ASSUME SweepTyped, NEW ids \in SUBSET ChunkId, sweep.pc \in {"list", "set"}
  PROVE  /\ Settle(ids) \in SweepState
         /\ Settle(ids).todo = sweep.todo /\ Settle(ids).drifted = sweep.drifted
         /\ Settle(ids).orphans = sweep.orphans /\ Settle(ids).want = sweep.want
         /\ Settle(ids).listed = sweep.listed /\ Settle(ids).ids = ids
         /\ ids = {} => Settle(ids).pc = "repair" /\ Settle(ids).doc = None
         /\ ids # {} => Settle(ids).pc = "set" /\ Settle(ids).doc = sweep.doc
<1>1. sweep \in SweepState /\ None \in Doc \cup {None}
  BY DEF SweepTyped
<1>2. CASE ids = {}
  BY <1>1, <1>2 DEF Settle, SweepState, SweepSteps
<1>3. CASE ids # {}
  BY <1>1, <1>3 DEF Settle, SweepState, SweepSteps
<1>. QED  BY <1>2, <1>3

LEMMA SettleKeeps ==
  ASSUME SweepTyped, NEW ids \in SUBSET ChunkId, sweep.pc \in {"list", "set"},
         sweep' = Settle(ids), calm' \in BOOLEAN
  PROVE  SweepTyped'
  BY SettleTyped DEF SweepTyped

LEMMA SweepTypes ==
  ASSUME StampedInv, SweepTyped, Sweep
  PROVE  SweepTyped'
<1>1. /\ sweep \in SweepState /\ sweep.todo \subseteq Doc /\ sweep.orphans \subseteq Doc
      /\ sweep.pc \in SweepSteps /\ sweep.count \in 0 .. MaxSweeps
      /\ sweep.ids \subseteq ChunkId
      /\ rec \in [Doc -> Record] /\ None \notin Doc /\ MaxSweeps \in Nat
  BY LifecycleAssumption, SweepAssumption
  DEF SweepTyped, SweepState, StampedInv, TypeInv, TypeOK
<1>2. CASE BeginCheck
  <2>. DEFINE rows == [d \in Doc |-> rec[d].status]
              rest == {d \in Doc : rec[d].status # "absent"}
              stray == {d \in Doc : ChunksOf(d) # {}} \ rest
  <2>1. rows \in [Doc -> Status]
    BY <1>1 DEF Record
  <2>2. sweep.count + 1 \in 0 .. MaxSweeps
    BY <1>1, <1>2 DEF BeginCheck
  <2>3. rest \subseteq Doc /\ stray \subseteq Doc /\ rest \cap stray = {}
    OBVIOUS
  <2>4. sweep' = [pc |-> "inspect", listed |-> rows, todo |-> rest, drifted |-> {},
                  orphans |-> stray, doc |-> None, want |-> FALSE, ids |-> {},
                  count |-> sweep.count + 1]
    BY <1>2 DEF BeginCheck, NoSweep
  <2>5. calm' \in BOOLEAN
    BY <1>2 DEF BeginCheck
  <2>. HIDE DEF rows, rest, stray
  <2>. QED  BY <2>1, <2>2, <2>3, <2>4, <2>5 DEF SweepTyped, SweepState, SweepSteps
<1>3. ASSUME NEW d \in Doc, NEW found \in BOOLEAN, d \in sweep.todo,
             sweep.pc = "inspect", Reported(d, found), calm' \in BOOLEAN
      PROVE  SweepTyped'
  BY <1>1, <1>3 DEF Reported, SweepTyped, SweepState
<1>4. ASSUME NEW d \in Doc, Inspect(d)
      PROVE  SweepTyped'
  <2>1. Drifts(d) \in BOOLEAN
    BY DEF Drifts
  <2>. QED  BY <1>3, <1>4, <2>1 DEF Inspect, SweepTyped
<1>5. ASSUME NEW d \in Doc, InspectBlind(d)
      PROVE  SweepTyped'
  BY <1>3, <1>5 DEF InspectBlind
<1>6. CASE sweep' = Over /\ calm' \in BOOLEAN
  BY <1>6, OverKeeps
<1>7. ASSUME NEW step \in {"repair", "purge", "repaired"}, sweep' = Now(step),
             sweep.pc \in {"inspect", "repair"}, calm' = calm
      PROVE  SweepTyped'
  BY <1>1, <1>7 DEF Now, SweepTyped, SweepState, SweepSteps
<1>8. CASE Report
  BY <1>6, <1>7, <1>8 DEF Report, SweepTyped
<1>9. ASSUME NEW d \in Doc, NextDrift(d)
      PROVE  SweepTyped'
  <2>1. CASE rec[d].status = "absent"
    BY <1>1, <1>9, <2>1 DEF NextDrift, SweepTyped, SweepState
  <2>2. CASE rec[d].status # "absent"
    BY <1>1, <1>9, <2>2 DEF NextDrift, SweepTyped, SweepState, SweepSteps
  <2>. QED  BY <2>1, <2>2
<1>10. ASSUME NEW d \in Doc, NextOrphan(d)
       PROVE  SweepTyped'
  <2>1. CASE rec[d].status # "absent"
    BY <1>1, <1>10, <2>1 DEF NextOrphan, SweepTyped, SweepState
  <2>2. CASE rec[d].status = "absent"
    BY <1>1, <1>10, <2>2 DEF NextOrphan, SweepTyped, SweepState, SweepSteps
  <2>. QED  BY <2>1, <2>2
<1>11. CASE ListObjects \/ ListBlind
  <2>1. ChunksOf(sweep.doc) \in SUBSET ChunkId /\ {} \in SUBSET ChunkId
    BY ChunksOfType DEF StampedInv
  <2>. QED  BY <1>11, <2>1, SettleKeeps DEF ListObjects, ListBlind, SweepTyped
<1>12. CASE SetOne
  <2>1. PICK i \in sweep.ids :
           sweep' = IF i \in held THEN Settle(sweep.ids \ {i}) ELSE Over
    BY <1>12 DEF SetOne
  <2>2. sweep.ids \ {i} \in SUBSET ChunkId /\ sweep.pc = "set" /\ calm' \in BOOLEAN
    BY <1>1, <1>12 DEF SetOne, SweepTyped
  <2>. QED  BY <2>1, <2>2, <1>6, SettleKeeps
<1>13. CASE DeleteOrphan
  BY <1>1, <1>13 DEF DeleteOrphan, SweepTyped, SweepState, SweepSteps
<1>14. CASE Repaired
  BY <1>7, <1>14 DEF Repaired
<1>15. CASE SetFails \/ DeleteOrphanFails \/ Finish
  BY <1>6, <1>15 DEF SetFails, DeleteOrphanFails, Finish, SweepTyped
<1>. QED
  BY <1>2, <1>4, <1>5, <1>8, <1>9, <1>10, <1>11, <1>12, <1>13, <1>14, <1>15 DEF Sweep

-----------------------------------------------------------------------------
(* A check and a repair beside which nothing happens.                      *)

Mended(d) ==
    rec[d].status # "absent" =>
        Searchable(d) = IF rec[d].status = "indexed" THEN ChunksOf(d) ELSE {}

(* What repair sets is what the record wants. *)
Wanted ==
    /\ rec[sweep.doc].status # "absent"
    /\ sweep.want <=> rec[sweep.doc].status = "indexed"

(* Whatever is neither left to inspect nor drifted nor being set is mended; *)
(* of what is being set, the objects that are not left to set.             *)
CalmInv ==
    calm =>
        /\ sweep.pc = "inspect" =>
              /\ \A d \in Doc : sweep.listed[d] = rec[d].status
              /\ \A d \in Doc \ (sweep.todo \cup sweep.drifted) : Mended(d)
        /\ sweep.pc \in {"repair", "list", "set"} =>
              \A d \in Doc \ (sweep.drifted \cup {sweep.doc}) : Mended(d)
        /\ sweep.pc \in {"list", "set"} => Wanted
        /\ sweep.pc = "set" =>
              /\ sweep.ids \subseteq ChunksOf(sweep.doc)
              /\ \A i \in ChunksOf(sweep.doc) \ sweep.ids : i \in visible <=> sweep.want
        /\ sweep.pc = "repaired" => \A d \in Doc : Mended(d)

LEMMA Unmixed ==
  ASSUME StampedInv, NEW d
  PROVE  Searchable(d) = {i \in ChunksOf(d) : i \in visible}
  BY DEF StampedInv, TypeInv, TypeOK, Searchable, ChunksOf

LEMMA MendedStays ==
  ASSUME UNCHANGED <<rec, held, visible, batch>>, NEW d
  PROVE  Mended(d)' <=> Mended(d)
  BY DEF Mended, Searchable, ChunksOf

LEMMA SetOneCalm ==
  ASSUME StampedInv, SweepTyped, CalmInv, SetOne
  PROVE  CalmInv'
<1>. SUFFICES ASSUME calm
              PROVE  CalmInv'
  BY DEF CalmInv, SetOne
<1>0. PICK e \in Doc : e = sweep.doc
  BY DEF SetOne, SweepTyped, SweepState
<1>1. PICK i \in sweep.ids :
         /\ visible' = IF sweep.want THEN visible \cup ({i} \cap held) ELSE visible \ {i}
         /\ sweep' = IF i \in held THEN Settle(sweep.ids \ {i}) ELSE Over
  BY DEF SetOne
<1>2. /\ sweep.pc = "set" /\ sweep.ids \in SUBSET ChunkId
      /\ sweep.want \in BOOLEAN /\ None \notin Doc
      /\ UNCHANGED <<rec, held, batch>>
  BY LifecycleAssumption DEF SetOne, SweepTyped, SweepState
<1>3. /\ \A d \in Doc \ (sweep.drifted \cup {e}) : Mended(d)
      /\ Wanted /\ sweep.ids \subseteq ChunksOf(e)
      /\ \A j \in ChunksOf(e) \ sweep.ids : j \in visible <=> sweep.want
  BY <1>0, <1>2 DEF CalmInv
<1>4. i \in held /\ batch[i[1]].doc = e
  BY <1>3 DEF ChunksOf
<1>. DEFINE left == sweep.ids \ {i}
<1>5. /\ sweep'.drifted = sweep.drifted /\ sweep'.want = sweep.want /\ sweep'.ids = left
      /\ left = {} => sweep'.pc = "repair" /\ sweep'.doc = None
      /\ left # {} => sweep'.pc = "set" /\ sweep'.doc = e
  BY <1>0, <1>1, <1>2, <1>4, SettleTyped
<1>6. \A d \in Doc : ChunksOf(d)' = ChunksOf(d)
  BY <1>2 DEF ChunksOf
<1>7. \A j \in ChunksOf(e) \ left : j \in visible' <=> sweep.want
  BY <1>1, <1>2, <1>3, <1>4
<1>8. \A d \in Doc \ {e} : Searchable(d)' = Searchable(d)
  BY <1>1, <1>2, <1>4 DEF Searchable
<1>9. \A d \in Doc \ (sweep.drifted \cup {e}) : Mended(d)'
  BY <1>2, <1>3, <1>6, <1>8 DEF Mended
<1>10. CASE left # {}
  <2>1. Wanted'
    BY <1>0, <1>2, <1>3, <1>5, <1>10 DEF Wanted
  <2>2. left \subseteq ChunksOf(e)
    BY <1>3
  <2>. QED  BY <1>2, <1>5, <1>6, <1>7, <1>9, <1>10, <2>1, <2>2 DEF CalmInv
<1>11. CASE left = {}
  <2>1. StampedInv'
    BY SweepStores DEF Sweep
  <2>2. Searchable(e)' = {j \in ChunksOf(e) : j \in visible'}
    <3>1. visible' \subseteq held'
      BY <2>1 DEF StampedInv, TypeInv, TypeOK
    <3>. QED  BY <1>2, <3>1 DEF Searchable, ChunksOf
  <2>3. Mended(e)'
    BY <1>0, <1>2, <1>3, <1>6, <1>7, <1>11, <2>2 DEF Mended, Wanted
  <2>. QED  BY <1>2, <1>5, <1>9, <1>11, <2>3 DEF CalmInv
<1>. QED  BY <1>10, <1>11

LEMMA SweepCalm ==
  ASSUME StampedInv, SweepTyped, CalmInv, Sweep
  PROVE  CalmInv'
<1>. SUFFICES ASSUME calm'
              PROVE  CalmInv'
  BY DEF CalmInv
<1>1. /\ sweep \in SweepState /\ rec \in [Doc -> Record] /\ None \notin Doc
      /\ sweep.doc # None <=> sweep.pc \in {"list", "set", "delete"}
      /\ sweep.pc \in SweepSteps /\ sweep.doc \in Doc \cup {None}
  BY LifecycleAssumption DEF SweepTyped, SweepState, StampedInv, TypeInv, TypeOK
<1>2. CASE sweep'.pc \in {"idle", "purge", "delete"}
  BY <1>2 DEF CalmInv
<1>3. CASE BeginCheck
  <2>1. /\ sweep'.pc = "inspect" /\ sweep'.listed = [d \in Doc |-> rec[d].status]
        /\ sweep'.todo = {d \in Doc : rec[d].status # "absent"}
        /\ rec' = rec
    BY <1>3 DEF BeginCheck, NoSweep, vars
  <2>. QED  BY <2>1 DEF CalmInv, Mended
<1>4. ASSUME NEW d \in Doc, Inspect(d)
      PROVE  CalmInv'
  <2>1. /\ calm /\ sweep.pc = "inspect" /\ UNCHANGED <<rec, held, visible, batch>>
    BY <1>4 DEF Inspect, vars
  <2>2. /\ \A e \in Doc : sweep.listed[e] = rec[e].status
        /\ \A e \in Doc \ (sweep.todo \cup sweep.drifted) : Mended(e)
    BY <2>1 DEF CalmInv
  <2>3. /\ sweep'.pc = "inspect" /\ sweep'.listed = sweep.listed
        /\ sweep'.todo = sweep.todo \ {d}
        /\ sweep'.drifted = IF Drifts(d) THEN sweep.drifted \cup {d} ELSE sweep.drifted
    BY <1>1, <1>4, <2>1 DEF Inspect, Reported, SweepState
  <2>4. ~ Drifts(d) => Mended(d)
    BY <2>2, Unmixed DEF Drifts, Mended
  <2>5. \A e \in Doc \ (sweep'.todo \cup sweep'.drifted) : Mended(e)
    BY <2>2, <2>3, <2>4
  <2>. QED  BY <2>1, <2>2, <2>3, <2>5, MendedStays DEF CalmInv
<1>5. ASSUME NEW d \in Doc, InspectBlind(d)
      PROVE  CalmInv'
  BY <1>5 DEF InspectBlind
<1>6. CASE Report
  <2>1. /\ calm /\ sweep.pc = "inspect" /\ sweep.todo = {}
        /\ UNCHANGED <<rec, held, visible, batch>>
    BY <1>6 DEF Report, vars
  <2>2. \A d \in Doc \ sweep.drifted : Mended(d)
    BY <2>1 DEF CalmInv
  <2>3. \/ sweep'.pc = "repair" /\ sweep'.drifted = sweep.drifted /\ sweep'.doc = sweep.doc
        \/ sweep'.pc \in {"idle", "purge"}
    BY <1>1, <1>6, OverTyped DEF Report, Now, SweepState
  <2>4. CASE sweep'.pc = "repair" /\ sweep'.drifted = sweep.drifted
    BY <2>1, <2>2, <2>4, MendedStays DEF CalmInv
  <2>. QED  BY <1>2, <2>3, <2>4
<1>7. ASSUME NEW d \in Doc, NextDrift(d)
      PROVE  CalmInv'
  <2>1. /\ calm /\ sweep.pc = "repair" /\ sweep.doc = None
        /\ UNCHANGED <<rec, held, visible, batch>>
    BY <1>1, <1>7 DEF NextDrift, vars
  <2>2. \A e \in Doc \ sweep.drifted : Mended(e)
    BY <1>1, <2>1 DEF CalmInv
  <2>3. CASE rec[d].status = "absent"
    <3>1. sweep'.pc = "repair" /\ sweep'.drifted = sweep.drifted \ {d} /\ Mended(d)
      BY <1>1, <1>7, <2>1, <2>3 DEF NextDrift, SweepState, Mended
    <3>. QED  BY <2>1, <2>2, <3>1, MendedStays DEF CalmInv
  <2>4. CASE rec[d].status # "absent"
    <3>1. /\ sweep'.pc = "list" /\ sweep'.drifted = sweep.drifted \ {d} /\ sweep'.doc = d
          /\ sweep'.want = (rec[d].status = "indexed")
      BY <1>1, <1>7, <2>4 DEF NextDrift, SweepState
    <3>2. Wanted'
      BY <2>1, <2>4, <3>1 DEF Wanted
    <3>. QED  BY <2>1, <2>2, <3>1, <3>2, MendedStays DEF CalmInv
  <2>. QED  BY <2>3, <2>4
<1>8. CASE ListObjects
  <2>0. PICK e \in Doc : e = sweep.doc
    BY <1>1, <1>8 DEF ListObjects
  <2>. DEFINE all == ChunksOf(e)
  <2>1. /\ calm /\ sweep.pc = "list" /\ sweep' = Settle(all)
        /\ UNCHANGED <<rec, held, visible, batch>> /\ all \in SUBSET ChunkId
    BY <1>1, <1>8, <2>0, ChunksOfType DEF ListObjects, vars, StampedInv
  <2>2. (\A d \in Doc \ (sweep.drifted \cup {e}) : Mended(d)) /\ Wanted
    BY <2>0, <2>1 DEF CalmInv
  <2>3. /\ sweep'.drifted = sweep.drifted /\ sweep'.want = sweep.want /\ sweep'.ids = all
        /\ all = {} => sweep'.pc = "repair" /\ sweep'.doc = None
        /\ all # {} => sweep'.pc = "set" /\ sweep'.doc = e
    BY <2>0, <2>1, SettleTyped
  <2>4. CASE all = {}
    <3>1. Mended(e)
      BY <2>4, Unmixed DEF Mended
    <3>. QED  BY <2>1, <2>2, <2>3, <2>4, <3>1, MendedStays DEF CalmInv
  <2>5. CASE all # {}
    <3>1. Wanted' /\ ChunksOf(e)' = all
      BY <2>0, <2>1, <2>2, <2>3, <2>5 DEF Wanted, ChunksOf
    <3>. QED  BY <2>1, <2>2, <2>3, <2>5, <3>1, MendedStays DEF CalmInv
  <2>. QED  BY <2>4, <2>5
<1>9. CASE ListBlind
  BY <1>9 DEF ListBlind
<1>10. CASE SetOne
  BY <1>10, SetOneCalm
<1>11. CASE Repaired
  <2>1. /\ calm /\ sweep.pc = "repair" /\ sweep.drifted = {} /\ sweep.doc = None
        /\ UNCHANGED <<rec, held, visible, batch>> /\ sweep'.pc = "repaired"
    BY <1>1, <1>11 DEF Repaired, vars, Now, SweepState
  <2>2. \A d \in Doc : Mended(d)
    BY <1>1, <2>1 DEF CalmInv
  <2>. QED  BY <2>1, <2>2, MendedStays DEF CalmInv
<1>12. ASSUME NEW d \in Doc, NextOrphan(d)
       PROVE  CalmInv'
  <2>1. sweep'.pc \in {"purge", "delete"}
    BY <1>1, <1>12 DEF NextOrphan, SweepState
  <2>. QED  BY <1>2, <2>1
<1>13. CASE DeleteOrphan
  <2>1. sweep'.pc = "purge"
    BY <1>1, <1>13 DEF DeleteOrphan, SweepState
  <2>. QED  BY <1>2, <2>1
<1>14. CASE SetFails \/ DeleteOrphanFails \/ Finish
  BY <1>2, <1>14, OverTyped DEF SetFails, DeleteOrphanFails, Finish
<1>. QED
  BY <1>3, <1>4, <1>5, <1>6, <1>7, <1>8, <1>9, <1>10, <1>11, <1>12, <1>13, <1>14 DEF Sweep

-----------------------------------------------------------------------------
(* The document that is put right.                                         *)

(* No operation runs on it, so its record stays what the call found.       *)
HoldInv ==
    sweep.doc # None =>
        /\ AtRest(sweep.doc)
        /\ sweep.pc = "delete" => rec[sweep.doc].status = "absent"
        /\ sweep.pc \in {"list", "set"} => Wanted
        /\ sweep.pc = "set" => \A i \in sweep.ids : batch[i[1]].doc = sweep.doc

LEMMA SweepHold ==
  ASSUME Exclusive, StampedInv, SweepTyped, HoldInv, Sweep
  PROVE  HoldInv'
<1>1. /\ sweep \in SweepState /\ None \notin Doc
      /\ sweep.doc # None <=> sweep.pc \in {"list", "set", "delete"}
      /\ sweep.doc \in Doc \cup {None} /\ SweepTyped'
  BY LifecycleAssumption, SweepTypes DEF SweepTyped, SweepState
<1>2. UNCHANGED <<rec, batch, pc, job>>
  BY SweepStores
<1>3. CASE sweep'.doc = None
  BY <1>3 DEF HoldInv
<1>4. ASSUME NEW d \in Doc, NextDrift(d)
      PROVE  HoldInv'
  <2>1. CASE rec[d].status = "absent"
    <3>1. sweep'.doc = sweep.doc /\ sweep.doc = None
      BY <1>1, <1>4, <2>1 DEF NextDrift, SweepState
    <3>. QED  BY <1>3, <3>1
  <2>2. CASE rec[d].status # "absent"
    <3>1. /\ sweep'.pc = "list" /\ sweep'.doc = d /\ AtRest(d)
          /\ sweep'.want = (rec[d].status = "indexed")
      BY <1>1, <1>4, <2>2 DEF NextDrift, May, SweepState
    <3>. QED  BY <1>2, <2>2, <3>1 DEF HoldInv, Wanted, AtRest
  <2>. QED  BY <2>1, <2>2
<1>5. ASSUME NEW d \in Doc, NextOrphan(d)
      PROVE  HoldInv'
  <2>1. CASE rec[d].status # "absent"
    <3>1. sweep'.doc = sweep.doc /\ sweep.doc = None
      BY <1>1, <1>5, <2>1 DEF NextOrphan, SweepState
    <3>. QED  BY <1>3, <3>1
  <2>2. CASE rec[d].status = "absent"
    <3>1. sweep'.pc = "delete" /\ sweep'.doc = d /\ AtRest(d)
      BY <1>1, <1>5, <2>2 DEF NextOrphan, May, SweepState
    <3>. QED  BY <1>2, <2>2, <3>1 DEF HoldInv, AtRest
  <2>. QED  BY <2>1, <2>2
<1>6. ASSUME NEW ids \in SUBSET ChunkId, sweep.pc \in {"list", "set"}, sweep' = Settle(ids),
             \A i \in ids : batch[i[1]].doc = sweep.doc
      PROVE  HoldInv'
  <2>1. CASE ids = {}
    BY <1>3, <1>6, <2>1, SettleTyped
  <2>2. CASE ids # {}
    <3>1. /\ sweep'.pc = "set" /\ sweep'.doc = sweep.doc /\ sweep'.want = sweep.want
          /\ sweep'.ids = ids
      BY <1>6, <2>2, SettleTyped
    <3>. QED  BY <1>1, <1>2, <1>6, <3>1 DEF HoldInv, Wanted, AtRest
  <2>. QED  BY <2>1, <2>2
<1>7. CASE ListObjects
  <2>1. ChunksOf(sweep.doc) \in SUBSET ChunkId
    BY ChunksOfType DEF StampedInv
  <2>. QED  BY <1>6, <1>7, <2>1 DEF ListObjects, ChunksOf
<1>8. CASE ListBlind
  BY <1>6, <1>8, {} \in SUBSET ChunkId DEF ListBlind
<1>9. CASE SetOne
  <2>1. PICK i \in sweep.ids :
           sweep' = IF i \in held THEN Settle(sweep.ids \ {i}) ELSE Over
    BY <1>9 DEF SetOne
  <2>2. /\ sweep.pc = "set" /\ sweep.ids \ {i} \in SUBSET ChunkId
        /\ \A j \in sweep.ids : batch[j[1]].doc = sweep.doc
    BY <1>1, <1>9 DEF SetOne, SweepState, HoldInv
  <2>. QED  BY <1>3, <1>6, <2>1, <2>2, OverTyped
<1>10. CASE BeginCheck \/ Report \/ (\E d \in Doc : Inspect(d) \/ InspectBlind(d))
            \/ SetFails \/ Repaired \/ DeleteOrphan \/ DeleteOrphanFails \/ Finish
  <2>1. sweep'.doc = None
    <3>1. CASE BeginCheck
      BY <3>1 DEF BeginCheck, NoSweep
    <3>2. CASE Report
      BY <1>1, <3>2, OverTyped DEF Report, Now, SweepState
    <3>3. CASE \E d \in Doc : Inspect(d) \/ InspectBlind(d)
      BY <1>1, <3>3 DEF Inspect, InspectBlind, Reported, SweepState
    <3>4. CASE Repaired \/ DeleteOrphan
      BY <1>1, <3>4 DEF Repaired, DeleteOrphan, Now, SweepState
    <3>5. CASE SetFails \/ DeleteOrphanFails \/ Finish
      BY <3>5, OverTyped DEF SetFails, DeleteOrphanFails, Finish
    <3>. QED  BY <1>10, <3>1, <3>2, <3>3, <3>4, <3>5
  <2>. QED  BY <1>3, <2>1
<1>. QED  BY <1>4, <1>5, <1>7, <1>8, <1>9, <1>10 DEF Sweep

LEMMA ServeHold ==
  ASSUME Exclusive, StampedInv, SweepTyped, HoldInv, Serve
  PROVE  HoldInv'
<1>1. sweep' = sweep
  BY DEF Serve
<1>. SUFFICES ASSUME sweep.doc # None
              PROVE  HoldInv'
  BY <1>1 DEF HoldInv
<1>2. PICK e \in Doc : e = sweep.doc
  BY DEF SweepTyped, SweepState
<1>3. AtRest(e) /\ TypeInv /\ None \notin Doc
  BY <1>2, LifecycleAssumption DEF HoldInv, StampedInv
<1>4. ASSUME NEW w \in Worker, Work(w)
      PROVE  HoldInv'
  <2>1. rec'[e] = rec[e]
    BY <1>3, <1>4, OwnRecordOnly DEF AtRest
  <2>2. AtRest(e)'
    <3>1. PICK step \in Steps, j \in Job : GoWith(w, step, j) /\ SameTask(j, job[w])
      BY <1>3, <1>4, WorkMoves DEF Moves
    <3>. QED  BY <1>3, <3>1 DEF GoWith, SameTask, AtRest, IdleJob, NewJob, TypeInv, TypeOK
  <2>3. ASSUME sweep.pc = "set", NEW i \in sweep.ids
        PROVE  batch'[i[1]].doc = e
    <3>1. batch[i[1]].doc = e /\ i[1] \in OpId
      BY <1>2, <2>3 DEF HoldInv, SweepTyped, SweepState, ChunkId
    <3>. QED  BY <1>2, <1>3, <1>4, <3>1, StampsKept
  <2>. QED  BY <1>1, <1>2, <2>1, <2>2, <2>3 DEF HoldInv, Wanted
<1>5. ASSUME NEW w \in Worker, Call(w), job'[w].doc # e
      PROVE  HoldInv'
  <2>1. PICK d \in Doc, c \in Content \cup {None}, step \in {"lookup", "read"},
             kind \in Kinds : Enter(w, kind, d, c, step)
    BY <1>3, <1>5, CallMoves
  <2>2. UNCHANGED <<rec, batch>> /\ \A u \in Worker \ {w} : job'[u] = job[u]
    BY <1>3, <2>1 DEF Enter, GoWith, stores, TypeInv, TypeOK
  <2>. QED  BY <1>1, <1>2, <1>5, <2>2 DEF HoldInv, Wanted, AtRest
<1>. QED  BY <1>2, <1>4, <1>5 DEF Serve

-----------------------------------------------------------------------------
(* The invariants, and what they show.                                     *)

SweepInv == StampedInv /\ SweepTyped /\ CalmInv /\ (Exclusive => HoldInv)

LEMMA SweepInitInv == SweepInit => SweepInv
<1>. SUFFICES ASSUME SweepInit PROVE SweepInv
  OBVIOUS
<1>1. StampedInv
  BY InitStamped, LegacyStamped DEF SweepInit
<1>2. /\ sweep = NoSweep /\ calm = FALSE /\ MaxSweeps \in Nat
      /\ [d \in Doc |-> "absent"] \in [Doc -> Status]
  BY SweepAssumption DEF SweepInit, Status
<1>3. NoSweep \in SweepState
  BY <1>2 DEF NoSweep, SweepState, SweepSteps
<1>4. NoSweep.pc = "idle" /\ NoSweep.doc = None /\ NoSweep.todo = {}
  BY DEF NoSweep
<1>5. SweepTyped /\ CalmInv /\ HoldInv
  BY <1>2, <1>3, <1>4 DEF SweepTyped, CalmInv, HoldInv
<1>. QED  BY <1>1, <1>5 DEF SweepInv

LEMMA SweepNextInv == SweepInv /\ [SweepNext]_allVars => SweepInv'
<1>. SUFFICES ASSUME SweepInv, [SweepNext]_allVars PROVE SweepInv'
  OBVIOUS
<1>1. CASE Sweep
  BY <1>1, SweepStores, SweepTypes, SweepCalm, SweepHold DEF SweepInv
<1>2. CASE Serve
  <2>1. sweep' = sweep /\ calm' = FALSE
    BY <1>2 DEF Serve
  <2>2. SweepTyped' /\ CalmInv'
    BY <2>1 DEF SweepInv, SweepTyped, CalmInv
  <2>. QED  BY <1>2, <2>2, ServeStamped, ServeHold DEF SweepInv
<1>3. CASE Die
  <2>1. sweep' = Over /\ calm' = FALSE
    BY <1>3 DEF Die
  <2>2. SweepTyped' /\ CalmInv' /\ HoldInv'
    BY <2>1, OverKeeps, OverTyped DEF SweepInv, CalmInv, HoldInv
  <2>. QED  BY <1>3, <2>2, DieStamped DEF SweepInv
<1>4. CASE UNCHANGED allVars
  BY <1>4
  DEF allVars, vars, SweepInv, StampedInv, TypeInv, TypeOK, Engaged, Numbered, StampInv,
      SweepTyped, CalmInv, HoldInv, Mended, Wanted, Searchable, ChunksOf, AtRest
<1>5. CASE AllOver
  BY <1>4, <1>5 DEF AllOver, CallersDone, allVars
<1>. QED  BY <1>1, <1>2, <1>3, <1>4, <1>5 DEF SweepNext

LEMMA SweepInductive == SweepSpec => []SweepInv
  BY SweepInitInv, SweepNextInv, PTL DEF SweepSpec

(* The locals of the operator's call keep their types: what is left to      *)
(* inspect is neither drifted nor an orphan, and a document is held exactly *)
(* while something is done to it.                                          *)
THEOREM SweepTypeCorrect == SweepSpec => []SweepTypeOK
<1>1. SweepInv => SweepTypeOK
  BY DEF SweepInv, SweepTyped, SweepState, SweepTypeOK
<1>. QED  BY <1>1, SweepInductive, PTL

(* After a repair beside which nothing happened, the chunks of every        *)
(* document with a record are what its record says, whatever overlapped,    *)
(* failed or crashed before the check.                                      *)
THEOREM RepairRealigns == SweepSpec => []Realigned
<1>1. SweepInv => Realigned
  BY DEF SweepInv, CalmInv, Mended, Realigned
<1>. QED  BY <1>1, SweepInductive, PTL

(* However old its report, repair makes nothing searchable that the record  *)
(* does not, provided no operation runs on the document meanwhile.          *)
THEOREM RepairSafe == ASSUME Exclusive  PROVE SweepSpec => NeverExposes
<1>. DEFINE Exposed(d) == {i \in visible' : batch[i[1]].doc = d} \subseteq Searchable(d)
<1>1. ASSUME SweepInv, SetOne, NEW d \in Doc, rec[d].status # "indexed"
      PROVE  Exposed(d)
  <2>1. PICK i \in sweep.ids :
           visible' = IF sweep.want THEN visible \cup ({i} \cap held) ELSE visible \ {i}
    BY <1>1 DEF SetOne
  <2>2. sweep.pc = "set" /\ sweep.doc # None /\ SweepTyped /\ HoldInv
    BY <1>1 DEF SetOne, SweepInv, SweepTyped
  <2>3. batch[i[1]].doc = sweep.doc /\ Wanted
    BY <2>2 DEF HoldInv
  <2>4. sweep.want => sweep.doc # d
    BY <1>1, <2>3 DEF Wanted
  <2>. QED  BY <2>1, <2>3, <2>4 DEF Searchable
<1>2. SweepInv /\ [SweepNext]_allVars =>
        [SetOne => \A d \in Doc : rec[d].status # "indexed" =>
           {i \in visible' : batch[i[1]].doc = d} \subseteq Searchable(d)]_allVars
  BY <1>1
<1>. QED  BY <1>2, SweepInductive, PTL DEF SweepSpec, NeverExposes

(* However old its report, purge_orphans takes no chunk from a document     *)
(* that has a record, provided no operation runs on it meanwhile.           *)
THEOREM PurgeSafe == ASSUME Exclusive  PROVE SweepSpec => SparesTheLiving
<1>1. ASSUME SweepInv, SweepNext, sweep' # sweep, held' # held, NEW i \in held \ held'
      PROVE  rec[batch[i[1]].doc].status = "absent"
  <2>1. StampedInv /\ SweepTyped /\ HoldInv
    BY <1>1 DEF SweepInv
  <2>2. Sweep
    BY <1>1 DEF SweepNext, Serve, Die, Crash, AllOver
  <2>3. DeleteOrphan \/ DeleteOrphanFails
    BY <1>1, <2>1, <2>2, SweepStores
  <2>4. sweep.pc = "delete" /\ i \in ChunksOf(sweep.doc)
    BY <2>3 DEF DeleteOrphan, DeleteOrphanFails, DeleteSome, DeleteObjects
  <2>5. sweep.doc # None /\ rec[sweep.doc].status = "absent"
    BY <2>1, <2>4 DEF SweepTyped, HoldInv
  <2>. QED  BY <2>4, <2>5 DEF ChunksOf
<1>2. SweepInv /\ [SweepNext]_allVars =>
        [sweep.pc = "delete" /\ sweep' # sweep /\ held' # held =>
           \A i \in held \ held' : rec[batch[i[1]].doc].status = "absent"]_allVars
  BY <1>1
<1>. QED  BY <1>2, SweepInductive, PTL DEF SweepSpec, SparesTheLiving
===============================================================================
