-------------------------- MODULE RequestGate_proofs --------------------------
(***************************************************************************)
(* Proofs about RequestGate, for any threads, users, departments, bursts   *)
(* and bounds.                                                             *)
(***************************************************************************)
EXTENDS RequestGate, FiniteSetTheorems, SequenceTheorems, TLAPS

-----------------------------------------------------------------------------
(* The state of one request and of one bucket.                             *)

Everything == Depts \cup {Foreign}

Job == [kind : Kinds, user : Users \cup {Anonymous}, dept : Depts, asks : SUBSET Depts,
        read : Nat, scope : SUBSET Depts, chunks : SUBSET Everything,
        context : SUBSET Everything]

(* What a bucket may be at a time: it was updated no later, holds no more   *)
(* than its burst, and has given out what its burst and the time up to its *)
(* last update allow, with what late readings were credited twice.         *)
Bucket(now) ==
    {b \in [key : Keys, tokens : Nat, updated : 0 .. now, born : 0 .. now,
            issued : Nat, lag : Nat] :
        /\ b.tokens <= Burst[b.key[2]]
        /\ b.issued + b.tokens <= Burst[b.key[2]]
                                    + Refill * (b.updated - b.born + b.lag)}

LEMMA Monotone ==
  ASSUME NEW r \in Nat, NEW m \in Int, NEW n \in Int, m <= n
  PROVE  r * m <= r * n
<1>1. r * n = r * m + r * (n - m)
  OBVIOUS
<1>2. r * (n - m) >= 0
  OBVIOUS
<1>. QED  BY <1>1, <1>2

LEMMA BucketAges ==
  ASSUME NEW now \in Nat
  PROVE  Bucket(now) \subseteq Bucket(now + 1)
  BY DEF Bucket

(* TokenBucket.consume keeps the account, whenever the clock was read. *)
LEMMA ConsumedBucket ==
  ASSUME NEW now \in Nat, NEW b \in Bucket(now), NEW read \in 0 .. now
  PROVE  Consumed(b, read) \in Bucket(now)
<1>. DEFINE burst == Burst[b.key[2]]
            gain == Positive(read - b.updated) * Refill
            earned == Least(burst, b.tokens + gain)
            taken == IF earned >= 1 THEN 1 ELSE 0
            behind == Positive(b.updated - read)
            old == b.updated - b.born + b.lag
            new == read - b.born + (b.lag + behind)
<1>1. burst \in Nat /\ Refill \in Nat /\ b.key \in Keys
  BY RequestAssumption DEF Bucket, Keys
<1>2. /\ b.tokens \in Nat /\ b.updated \in 0 .. now /\ b.born \in 0 .. now
      /\ b.issued \in Nat /\ b.lag \in Nat /\ b.tokens <= burst
      /\ b.issued + b.tokens <= burst + Refill * old
  BY DEF Bucket
<1>3. /\ Positive(read - b.updated) \in Nat /\ behind \in Nat
      /\ new = old + Positive(read - b.updated)
  BY <1>2 DEF Positive
<1>4. Refill * new = Refill * old + gain /\ gain \in Nat
  <2>. DEFINE ahead == Positive(read - b.updated)
  <2>1. old \in Int /\ ahead \in Nat
    BY <1>2, <1>3
  <2>2. Refill * (old + ahead) = Refill * old + ahead * Refill
    BY <2>1, <1>1
  <2>. QED  BY <2>1, <2>2, <1>1, <1>3
<1>5. earned \in Nat /\ earned <= burst /\ earned <= b.tokens + gain
  BY <1>1, <1>2, <1>4 DEF Least
<1>6. earned - taken \in Nat /\ taken \in Nat
  BY <1>5
<1>7. b.issued + taken + (earned - taken) <= burst + Refill * new
  <2>1. Refill * old \in Int
    BY <1>1, <1>2
  <2>. HIDE DEF old, new, gain, earned, taken, burst
  <2>. QED  BY <2>1, <1>1, <1>2, <1>4, <1>5, <1>6
<1>8. Consumed(b, read) = [b EXCEPT !.tokens = earned - taken, !.updated = read,
                             !.issued = @ + taken, !.lag = @ + behind]
  BY DEF Consumed
<1>. DEFINE c == [b EXCEPT !.tokens = earned - taken, !.updated = read,
                           !.issued = @ + taken, !.lag = @ + behind]
<1>9. /\ c \in [key : Keys, tokens : Nat, updated : 0 .. now, born : 0 .. now,
                issued : Nat, lag : Nat]
      /\ c.key = b.key /\ c.tokens = earned - taken
      /\ c.issued + c.tokens = b.issued + taken + (earned - taken)
      /\ c.updated - c.born + c.lag = new
  <2>. HIDE DEF earned, taken, behind
  <2>1. b \in [key : Keys, tokens : Nat, updated : 0 .. now, born : 0 .. now,
               issued : Nat, lag : Nat]
    BY DEF Bucket
  <2>2. b.lag + behind \in Nat /\ b.issued + taken \in Nat
    BY <1>2, <1>3, <1>6
  <2>3. /\ c.key = b.key /\ c.tokens = earned - taken /\ c.updated = read
        /\ c.born = b.born /\ c.issued = b.issued + taken /\ c.lag = b.lag + behind
    BY <2>1
  <2>4. c \in [key : Keys, tokens : Nat, updated : 0 .. now, born : 0 .. now,
               issued : Nat, lag : Nat]
    BY <2>1, <2>2, <1>6
  <2>. HIDE DEF c
  <2>. QED  BY <2>3, <2>4
<1>10. c.tokens <= burst
  <2>. HIDE DEF c, earned, taken, burst
  <2>. QED  BY <1>1, <1>5, <1>6, <1>9
<1>. HIDE DEF c
<1>. QED  BY <1>7, <1>8, <1>9, <1>10 DEF Bucket, c

LEMMA FreshBucket ==
  ASSUME NEW now \in Nat, NEW j \in Job, j.read \in 0 .. now
  PROVE  Fresh(j) \in Bucket(now)
<1>1. Scope(j.kind) \in {"ingest", "read"} /\ Key(j) \in Keys
  BY RequestAssumption DEF Job, Scope, Key, Keys
<1>2. Burst[Scope(j.kind)] \in Nat /\ Key(j)[2] = Scope(j.kind)
  BY <1>1, RequestAssumption DEF Key
<1>3. Refill * (j.read - j.read + 0) = 0
  BY RequestAssumption
<1>. QED  BY <1>1, <1>2, <1>3 DEF Fresh, Bucket

-----------------------------------------------------------------------------
(* The OrderedDict of buckets.                                             *)

LEMMA SlotTracks ==
  ASSUME NEW key, Tracks(key)
  PROVE  Slot(key) \in DOMAIN buckets /\ buckets[Slot(key)].key = key
  BY DEF Tracks, Slot

LEMMA RemoveAtSeq ==
  ASSUME NEW S, NEW s \in Seq(S), NEW i \in 1 .. Len(s)
  PROVE  RemoveAt(s, i) \in Seq(S) /\ Len(RemoveAt(s, i)) = Len(s) - 1
<1>. DEFINE front == SubSeq(s, 1, i - 1)
            back == SubSeq(s, i + 1, Len(s))
<1>1. Len(s) \in Nat /\ \A k \in 1 .. Len(s) : s[k] \in S
  BY LenProperties, ElementOfSeq
<1>2. front \in Seq(S) /\ Len(front) = i - 1
  BY <1>1, SubSeqProperties
<1>3. back \in Seq(S) /\ Len(back) = Len(s) - i
  BY <1>1, SubSeqProperties
<1>4. RemoveAt(s, i) = front \o back
  BY DEF RemoveAt
<1>. HIDE DEF front, back
<1>5. front \o back \in Seq(S) /\ Len(front \o back) = Len(front) + Len(back)
  BY <1>2, <1>3, ConcatProperties
<1>. QED  BY <1>1, <1>2, <1>3, <1>4, <1>5

(* A used bucket replaces its predecessor and the limit on keys holds. *)
LEMMA TrackedSeq ==
  ASSUME NEW S, buckets \in Seq(S), Len(buckets) <= MaxTracked, NEW b \in S
  PROVE  Tracked(b) \in Seq(S) /\ Len(Tracked(b)) <= MaxTracked
<1>. DEFINE moved == Append(Others(b.key), b)
<1>1. Others(b.key) \in Seq(S) /\ Len(Others(b.key)) <= Len(buckets)
  <2>1. CASE Tracks(b.key)
    <3>. DEFINE i == Slot(b.key)
    <3>1. i \in 1 .. Len(buckets)
      BY <2>1, SlotTracks, LenProperties
    <3>. HIDE DEF i
    <3>2. RemoveAt(buckets, i) \in Seq(S) /\ Len(RemoveAt(buckets, i)) = Len(buckets) - 1
      BY <3>1, RemoveAtSeq
    <3>. QED  BY <2>1, <3>2, LenProperties DEF Others, i
  <2>. QED  BY <2>1 DEF Others
<1>2. moved \in Seq(S) /\ Len(moved) <= MaxTracked + 1 /\ moved # << >>
  BY <1>1, AppendProperties, LenProperties, RequestAssumption
<1>3. Tail(moved) \in Seq(S) /\ Len(Tail(moved)) = Len(moved) - 1
  BY <1>2, HeadTailProperties
<1>4. MaxTracked \in Nat /\ Len(moved) \in Nat
  BY <1>2, LenProperties, RequestAssumption
<1>. HIDE DEF moved
<1>. QED  BY <1>2, <1>3, <1>4 DEF Tracked, moved

-----------------------------------------------------------------------------
(* Types, with the two facts they rest on: a clock reading is never ahead   *)
(* of the clock, and whoever is at a step is of a kind that takes it.       *)

TypeInv ==
    /\ pc \in [Threads -> Steps \cup Ended]
    /\ job \in [Threads -> Job]
    /\ left \in [Threads -> Nat] /\ \A t \in Threads : left[t] <= Requests[t]
    /\ users \subseteq Users /\ tokens \subseteq Users /\ companyWide \subseteq Users
    /\ memberships \in [Users -> SUBSET Depts]
    /\ registered \in [Users -> Nat]
    /\ buckets \in Seq(Bucket(clock)) /\ Len(buckets) <= MaxTracked
    /\ permits \in Nat /\ clock \in 0 .. MaxClock
    /\ \A t \in Threads : job[t].read \in 0 .. clock

(* Which requests take which steps: retrievals those of the event loop, and *)
(* only known callers those of the tenancy; what a retrieval may search is  *)
(* what it asked for.                                                       *)
Fits(t, step, j) ==
    /\ step # "none" => (j.kind = "ingest") = (t # Loop)
    /\ step \in {"tenant", "register", "grant", "token", "memberships"} =>
          j.kind # "handler"
    /\ step = "memberships" => j.kind = "retrieve"
    /\ step \in {"token", "authorize"} => j.kind = "ingest"
    /\ step \in {"throttle", "consume"} => j.kind # "retrieve"
    /\ step # "none" /\ j.kind # "handler" => j.user \in Users
    /\ step \in {"embed", "embedding", "search", "answered"} /\ j.kind = "retrieve" =>
          j.scope = j.asks
    /\ step = "answered" => j.chunks \subseteq j.scope /\ j.context \subseteq j.chunks

FlowInv == TypeInv /\ \A t \in Threads : Fits(t, pc[t], job[t])

USE DEF tenancy, limits, Goto, End, Granted

LEMMA NoJobType == NoJob \in Job
  BY RequestAssumption DEF NoJob, Job, Kinds

(* The updates of a request: all but its arrival keep what it is. *)
Ending(j) == [NoJob EXCEPT !.kind = j.kind, !.user = j.user]
Reading(j, n) == [j EXCEPT !.read = n]
Scoped(j, S) == [j EXCEPT !.scope = S]
Answering(j, F, G) == [j EXCEPT !.chunks = F, !.context = G]

Same(k, j) == k.kind = j.kind /\ k.user = j.user /\ k.dept = j.dept /\ k.asks = j.asks

LEMMA EndingType ==
  ASSUME NEW j \in Job
  PROVE  Ending(j) \in Job /\ Ending(j).kind = j.kind /\ Ending(j).user = j.user
         /\ Ending(j).read = 0
  BY NoJobType DEF Ending, Job, NoJob

LEMMA ReadingType ==
  ASSUME NEW j \in Job, NEW n \in Nat
  PROVE  Reading(j, n) \in Job /\ Same(Reading(j, n), j) /\ Reading(j, n).read = n
         /\ Reading(j, n).scope = j.scope
  BY DEF Reading, Job, Same

LEMMA ScopedType ==
  ASSUME NEW j \in Job, NEW S \in SUBSET Depts
  PROVE  Scoped(j, S) \in Job /\ Same(Scoped(j, S), j) /\ Scoped(j, S).read = j.read
         /\ Scoped(j, S).scope = S
  BY DEF Scoped, Job, Same

LEMMA AnsweringType ==
  ASSUME NEW j \in Job, NEW F \in SUBSET Everything, NEW G \in SUBSET Everything
  PROVE  Answering(j, F, G) \in Job /\ Same(Answering(j, F, G), j)
         /\ Answering(j, F, G).read = j.read /\ Answering(j, F, G).scope = j.scope
         /\ Answering(j, F, G).chunks = F /\ Answering(j, F, G).context = G
  BY DEF Answering, Job, Same

(* Every step of a request that has arrived is one of six moves, and leaves *)
(* it where a request of its kind may be.                                    *)
Moved(t, step, k) ==
    /\ step \in Steps \cup Ended /\ Fits(t, step, k)
    /\ pc' = [pc EXCEPT ![t] = step] /\ job' = [job EXCEPT ![t] = k]

Moves(t) ==
    \/ \E step \in Steps : Moved(t, step, job[t])
    \/ \E outcome \in Ended \ {"none", "answered"} : Moved(t, outcome, Ending(job[t]))
    \/ Moved(t, "consume", Reading(job[t], clock))
    \/ Moved(t, "resolve", Reading(job[t], 0))
    \/ \E S \in SUBSET Depts, step \in {"embed", "authorize"} :
          Moved(t, step, Scoped(job[t], S))
    \/ \E F, G \in SUBSET Everything : Moved(t, "answered", Answering(job[t], F, G))

LEMMA StepMoves ==
  ASSUME FlowInv, NEW t \in Threads, Step(t)
  PROVE  \/ Moves(t) /\ pc[t] \in Steps
         \/ \E kind \in Kinds, u \in Users \cup {Anonymous}, d \in Depts,
                asks \in SUBSET Depts : Arrive(t, kind, u, d, asks)
<1>. DEFINE j == job[t]
<1>1. j \in Job /\ job = [job EXCEPT ![t] = j] /\ Fits(t, pc[t], j)
  BY DEF TypeInv, FlowInv
<1>2. \A outcome \in Ended \ {"none", "answered"} :
         pc[t] # "none" /\ End(t, outcome) => Moves(t)
  <2>. SUFFICES ASSUME NEW outcome \in Ended \ {"none", "answered"},
                       pc[t] # "none", End(t, outcome)
                PROVE  Moves(t)
    OBVIOUS
  <2>1. Fits(t, outcome, Ending(j))
    BY <1>1, EndingType DEF Fits, Ended
  <2>. QED  BY <2>1 DEF Moves, Moved, Ending, Ended
<1>3. \A step \in Steps :
         Fits(t, step, j) /\ Goto(t, step) /\ UNCHANGED job => Moves(t)
  BY <1>1 DEF Moves, Moved
<1>. HIDE DEF j
<1>4. CASE LookupUser(t)
  <2>1. Fits(t, "register", j) /\ Fits(t, AfterTenant(t), j) /\ AfterTenant(t) \in Steps
    BY <1>1, <1>4 DEF LookupUser, AfterTenant, Fits, Steps, Job, Kinds, j
  <2>. QED  BY <1>3, <1>4, <2>1 DEF LookupUser, Steps
<1>5. CASE RegisterUser(t)
  <2>1. Fits(t, "grant", j)
    BY <1>1, <1>5 DEF RegisterUser, Fits
  <2>. QED  BY <1>3, <1>5, <2>1 DEF RegisterUser, Steps
<1>6. CASE GrantCompanyWide(t)
  <2>1. Fits(t, AfterTenant(t), j) /\ AfterTenant(t) \in Steps
    BY <1>1, <1>6 DEF GrantCompanyWide, AfterTenant, Fits, Steps, Job, Kinds, j
  <2>. QED  BY <1>3, <1>6, <2>1 DEF GrantCompanyWide, Steps
<1>7. CASE RegisterToken(t)
  <2>1. Fits(t, "throttle", j)
    BY <1>1, <1>7 DEF RegisterToken, Fits
  <2>. QED  BY <1>3, <1>7, <2>1 DEF RegisterToken, Steps
<1>8. CASE SetMemberships(t)
  <2>1. Fits(t, "resolve", j)
    BY <1>1, <1>8 DEF SetMemberships, Fits
  <2>. QED  BY <1>3, <1>8, <2>1 DEF SetMemberships, Steps
<1>9. CASE ReadClock(t)
  <2>1. clock \in Nat
    BY RequestAssumption DEF FlowInv, TypeInv
  <2>2. Fits(t, "consume", Reading(j, clock))
    BY <1>1, <1>9, <2>1, ReadingType DEF ReadClock, Fits, Same
  <2>. QED  BY <1>9, <2>2 DEF ReadClock, Steps, Moves, Moved, Reading, j
<1>10. CASE Consume(t)
  <2>1. Fits(t, "resolve", Reading(j, 0))
    BY <1>1, <1>10, ReadingType DEF Consume, Fits, Same
  <2>. QED  BY <1>2, <1>10, <2>1 DEF Consume, Steps, Ended, Moves, Moved, Reading, j
<1>11. CASE ResolveTrusted(t)
  <2>1. j.asks \in SUBSET Depts
    BY <1>1 DEF Job
  <2>2. Fits(t, "embed", Scoped(j, j.asks))
    BY <1>1, <1>11, <2>1, ScopedType DEF ResolveTrusted, Fits, Same
  <2>. QED  BY <1>2, <1>11, <2>1, <2>2 DEF ResolveTrusted, Steps, Ended, Moves, Moved, Scoped, j
<1>12. CASE ResolveToken(t)
  <2>. DEFINE S == memberships[j.user]
              step == IF j.kind = "ingest" THEN "authorize" ELSE "embed"
  <2>1. CASE j.user \in tokens
    <3>1. S \in SUBSET Depts
      BY <2>1 DEF FlowInv, TypeInv
    <3>2. Fits(t, step, Scoped(j, S))
      BY <1>1, <1>12, <3>1, ScopedType DEF ResolveToken, Fits, Same, j
    <3>. QED  BY <1>12, <2>1, <3>1, <3>2 DEF ResolveToken, Steps, Moves, Moved, Scoped, j
  <2>. QED  BY <1>2, <1>12, <2>1 DEF ResolveToken, Steps, Ended, j
<1>13. CASE Authorize(t)
  <2>1. Fits(t, "embed", j)
    BY <1>1, <1>13 DEF Authorize, Fits
  <2>. QED  BY <1>2, <1>3, <1>13, <2>1 DEF Authorize, Steps, Ended
<1>14. CASE Acquire(t)
  <2>1. Fits(t, "embedding", j)
    BY <1>1, <1>14 DEF Acquire, Fits
  <2>. QED  BY <1>3, <1>14, <2>1 DEF Acquire, Steps
<1>15. CASE WaitExpires(t)
  BY <1>2, <1>15 DEF WaitExpires, Steps, Ended
<1>16. CASE Release(t)
  <2>1. Fits(t, "search", j)
    BY <1>1, <1>16 DEF Release, Fits
  <2>. QED  BY <1>2, <1>3, <1>16, <2>1 DEF Release, Steps, Ended
<1>17. CASE Search(t)
  <2>. PICK found \in Found(t) :
         job' = [job EXCEPT ![t].chunks = found \cap j.scope,
                            ![t].context = IF found \cap j.scope = found THEN found ELSE {}]
    BY <1>17 DEF Search, j
  <2>. DEFINE F == found \cap j.scope
              G == IF F = found THEN found ELSE {}
  <2>1. F \in SUBSET Everything /\ G \in SUBSET Everything
        /\ F \subseteq j.scope /\ G \subseteq F
    BY <1>1 DEF Job, Everything
  <2>2. job' = [job EXCEPT ![t] = Answering(j, F, G)]
    BY <1>1 DEF Answering, j
  <2>. HIDE DEF F, G
  <2>3. Fits(t, "answered", Answering(j, F, G))
    BY <1>1, <1>17, <2>1, AnsweringType DEF Search, Fits, Same
  <2>4. Moved(t, "answered", Answering(j, F, G)) /\ pc[t] \in Steps
    BY <1>17, <2>2, <2>3 DEF Search, Moved, Ended, Steps
  <2>. QED  BY <2>1, <2>4 DEF Moves, j
<1>. QED
  BY <1>4, <1>5, <1>6, <1>7, <1>8, <1>9, <1>10, <1>11, <1>12, <1>13, <1>14, <1>15, <1>16, <1>17 DEF Step

(* What a move does to the requests: to its own and to no other. *)
LEMMA MoveKeeps ==
  ASSUME FlowInv, NEW t \in Threads, Moves(t)
  PROVE  /\ pc' \in [Threads -> Steps \cup Ended] /\ job' \in [Threads -> Job]
         /\ \A s \in Threads : Fits(s, pc'[s], job'[s]) /\ job'[s].read \in 0 .. clock
         /\ \A s \in Threads \ {t} : pc'[s] = pc[s] /\ job'[s] = job[s]
         /\ job'[t].user = job[t].user /\ job'[t].kind = job[t].kind
<1>. DEFINE j == job[t]
<1>1. /\ j \in Job /\ j.read \in 0 .. clock /\ clock \in Nat
      /\ pc \in [Threads -> Steps \cup Ended] /\ job \in [Threads -> Job]
      /\ \A s \in Threads : Fits(s, pc[s], job[s]) /\ job[s].read \in 0 .. clock
  BY RequestAssumption DEF FlowInv, TypeInv
<1>. HIDE DEF j
<1>2. \E step, k : /\ Moved(t, step, k) /\ k \in Job /\ k.read \in 0 .. clock
                   /\ k.user = j.user /\ k.kind = j.kind
  <2>1. CASE \E step \in Steps : Moved(t, step, j)
    BY <1>1, <2>1
  <2>2. CASE \E outcome \in Ended \ {"none", "answered"} : Moved(t, outcome, Ending(j))
    BY <1>1, <2>2, EndingType
  <2>3. CASE Moved(t, "consume", Reading(j, clock))
    <3>1. /\ Reading(j, clock) \in Job /\ Reading(j, clock).read \in 0 .. clock
          /\ Reading(j, clock).user = j.user /\ Reading(j, clock).kind = j.kind
      <4>1. j \in Job /\ clock \in Nat /\ clock \in 0 .. clock
        BY <1>1
      <4>. QED  BY <4>1, ReadingType DEF Same
    <3>. QED  BY <2>3, <3>1
  <2>4. CASE Moved(t, "resolve", Reading(j, 0))
    <3>1. /\ Reading(j, 0) \in Job /\ Reading(j, 0).read \in 0 .. clock
          /\ Reading(j, 0).user = j.user /\ Reading(j, 0).kind = j.kind
      <4>1. j \in Job /\ 0 \in Nat /\ 0 \in 0 .. clock
        BY <1>1
      <4>. QED  BY <4>1, ReadingType DEF Same
    <3>. QED  BY <2>4, <3>1
  <2>5. ASSUME NEW S \in SUBSET Depts, NEW step \in {"embed", "authorize"},
               Moved(t, step, Scoped(j, S))
        PROVE  \E k : /\ Moved(t, step, k) /\ k \in Job /\ k.read \in 0 .. clock
                      /\ k.user = j.user /\ k.kind = j.kind
    <3>. WITNESS Scoped(j, S)
    <3>. QED  BY <1>1, <2>5, ScopedType DEF Same
  <2>6. ASSUME NEW F \in SUBSET Everything, NEW G \in SUBSET Everything,
               Moved(t, "answered", Answering(j, F, G))
        PROVE  \E k : /\ Moved(t, "answered", k) /\ k \in Job /\ k.read \in 0 .. clock
                      /\ k.user = j.user /\ k.kind = j.kind
    <3>. WITNESS Answering(j, F, G)
    <3>. QED  BY <1>1, <2>6, AnsweringType DEF Same
  <2>. QED  BY <2>1, <2>2, <2>3, <2>4, <2>5, <2>6 DEF Moves, j
<1>3. PICK step, k : /\ Moved(t, step, k) /\ k \in Job /\ k.read \in 0 .. clock
                     /\ k.user = j.user /\ k.kind = j.kind
  BY <1>2
<1>. QED  BY <1>1, <1>3 DEF Moved, j

LEMMA ArriveKeeps ==
  ASSUME FlowInv, NEW t \in Threads, NEW kind \in Kinds,
         NEW u \in Users \cup {Anonymous}, NEW d \in Depts, NEW asks \in SUBSET Depts,
         Arrive(t, kind, u, d, asks)
  PROVE  /\ pc' \in [Threads -> Steps \cup Ended] /\ job' \in [Threads -> Job]
         /\ \A s \in Threads : Fits(s, pc'[s], job'[s]) /\ job'[s].read \in 0 .. clock
         /\ \A s \in Threads \ {t} : pc'[s] = pc[s] /\ job'[s] = job[s]
         /\ left' \in [Threads -> Nat] /\ \A s \in Threads : left'[s] <= Requests[s]
<1>. DEFINE k == [NoJob EXCEPT !.kind = kind, !.user = u, !.dept = d, !.asks = asks]
            step == IF kind = "handler" THEN "throttle" ELSE "tenant"
<1>1. /\ k \in Job /\ k.read = 0 /\ k.kind = kind /\ k.user = u
  BY NoJobType DEF Job, NoJob
<1>2. pc' = [pc EXCEPT ![t] = step] /\ job' = [job EXCEPT ![t] = k]
  BY DEF Arrive
<1>. HIDE DEF k
<1>3. Fits(t, step, k) /\ step \in Steps
  BY <1>1 DEF Fits, Arrive, Steps
<1>. HIDE DEF step
<1>4. /\ left' \in [Threads -> Nat] /\ \A s \in Threads : left'[s] <= Requests[s]
  <2>1. /\ left \in [Threads -> Nat] /\ \A s \in Threads : left[s] <= Requests[s]
        /\ Requests \in [Threads -> Nat]
    BY RequestAssumption DEF FlowInv, TypeInv
  <2>2. left[t] > 0 /\ left' = [left EXCEPT ![t] = left[t] - 1]
    BY DEF Arrive
  <2>3. left[t] - 1 \in Nat /\ left[t] - 1 <= Requests[t]
    BY <2>1, <2>2
  <2>. QED  BY <2>1, <2>2, <2>3
<1>5. /\ clock \in Nat
      /\ pc \in [Threads -> Steps \cup Ended] /\ job \in [Threads -> Job]
      /\ \A s \in Threads : Fits(s, pc[s], job[s]) /\ job[s].read \in 0 .. clock
  BY RequestAssumption DEF FlowInv, TypeInv
<1>6. pc' \in [Threads -> Steps \cup Ended] /\ job' \in [Threads -> Job]
  BY <1>1, <1>2, <1>3, <1>5
<1>7. \A s \in Threads \ {t} : pc'[s] = pc[s] /\ job'[s] = job[s]
  BY <1>2, <1>5
<1>8. pc'[t] = step /\ job'[t] = k
  BY <1>2, <1>5
<1>9. Fits(t, pc'[t], job'[t]) /\ job'[t].read \in 0 .. clock
  BY <1>1, <1>3, <1>5, <1>8
<1>. QED  BY <1>4, <1>5, <1>6, <1>7, <1>9

-----------------------------------------------------------------------------
(* The rest of the state, step by step.                                     *)

Stores ==
    /\ users \subseteq Users /\ tokens \subseteq Users /\ companyWide \subseteq Users
    /\ memberships \in [Users -> SUBSET Depts]
    /\ registered \in [Users -> Nat]
    /\ buckets \in Seq(Bucket(clock)) /\ Len(buckets) <= MaxTracked
    /\ permits \in Nat /\ clock \in 0 .. MaxClock

LEMMA ConsumeKeeps ==
  ASSUME FlowInv, NEW t \in Threads, Consume(t)
  PROVE  buckets' \in Seq(Bucket(clock)) /\ Len(buckets') <= MaxTracked
<1>. DEFINE j == job[t]
            old == BucketOf(j)
            new == Consumed(old, j.read)
<1>1. j \in Job /\ j.read \in 0 .. clock /\ clock \in Nat
      /\ buckets \in Seq(Bucket(clock)) /\ Len(buckets) <= MaxTracked
  BY RequestAssumption DEF FlowInv, TypeInv
<1>. HIDE DEF j
<1>2. old \in Bucket(clock)
  <2>1. CASE Tracks(Key(j))
    <3>1. Slot(Key(j)) \in 1 .. Len(buckets)
      BY <1>1, <2>1, SlotTracks, LenProperties
    <3>. QED  BY <1>1, <2>1, <3>1, ElementOfSeq DEF BucketOf
  <2>2. CASE ~ Tracks(Key(j))
    BY <1>1, <2>2, FreshBucket DEF BucketOf
  <2>. QED  BY <2>1, <2>2
<1>3. new \in Bucket(clock)
  BY <1>1, <1>2, ConsumedBucket
<1>4. buckets' = Tracked(new)
  BY DEF Consume, j
<1>. QED  BY <1>1, <1>3, <1>4, TrackedSeq

LEMMA StepStores ==
  ASSUME FlowInv, NEW t \in Threads, Step(t)
  PROVE  Stores'
<1>1. Stores /\ job[t] \in Job /\ Fits(t, pc[t], job[t]) /\ Global \in Depts
  BY RequestAssumption DEF FlowInv, TypeInv, Stores
<1>2. job[t].dept \in Depts /\ job[t].asks \in SUBSET Depts
  BY <1>1 DEF Job
<1>3. pc[t] \in {"tenant", "register", "grant", "token", "memberships"} =>
         job[t].user \in Users
  BY <1>1 DEF Fits
<1>4. ASSUME NEW kind \in Kinds, NEW u \in Users \cup {Anonymous}, NEW d \in Depts,
             NEW asks \in SUBSET Depts, Arrive(t, kind, u, d, asks)
      PROVE  Stores'
  BY <1>1, <1>4 DEF Arrive, Stores
<1>5. CASE LookupUser(t)
  BY <1>1, <1>5 DEF LookupUser, Stores
<1>6. CASE RegisterUser(t)
  <2>1. job[t].user \in Users /\ {job[t].dept, Global} \in SUBSET Depts
    BY <1>1, <1>2, <1>3, <1>6 DEF RegisterUser
  <2>. QED  BY <1>1, <1>6, <2>1 DEF RegisterUser, Stores
<1>7. CASE GrantCompanyWide(t)
  BY <1>1, <1>3, <1>7 DEF GrantCompanyWide, Stores
<1>8. CASE RegisterToken(t)
  BY <1>1, <1>3, <1>8 DEF RegisterToken, Stores
<1>9. CASE SetMemberships(t)
  BY <1>1, <1>2, <1>9 DEF SetMemberships, Stores
<1>10. CASE ReadClock(t)
  BY <1>1, <1>10 DEF ReadClock, Stores
<1>11. CASE Consume(t)
  BY <1>1, <1>11, ConsumeKeeps DEF Consume, Stores
<1>12. CASE ResolveTrusted(t)
  BY <1>1, <1>12 DEF ResolveTrusted, Stores
<1>13. CASE ResolveToken(t)
  BY <1>1, <1>13 DEF ResolveToken, Stores
<1>14. CASE Authorize(t)
  BY <1>1, <1>14 DEF Authorize, Stores
<1>15. CASE Acquire(t)
  BY <1>1, <1>15 DEF Acquire, Stores
<1>16. CASE WaitExpires(t)
  BY <1>1, <1>16 DEF WaitExpires, Stores
<1>17. CASE Release(t)
  BY <1>1, <1>17 DEF Release, Stores
<1>18. CASE Search(t)
  BY <1>1, <1>18 DEF Search, Stores
<1>. QED
  BY <1>4, <1>5, <1>6, <1>7, <1>8, <1>9, <1>10, <1>11, <1>12, <1>13, <1>14, <1>15, <1>16, <1>17, <1>18 DEF Step

LEMMA StepClock ==
  ASSUME NEW t \in Threads, Step(t)
  PROVE  clock' = clock
  BY DEF Step, Arrive, LookupUser, RegisterUser, GrantCompanyWide, RegisterToken,
     SetMemberships, ReadClock, Consume, ResolveTrusted, ResolveToken, Authorize,
     Acquire, WaitExpires, Release, Search

LEMMA MoveLeft ==
  ASSUME NEW t \in Threads, Step(t), pc[t] \in Steps
  PROVE  left' = left
  BY DEF Step, Arrive, LookupUser, RegisterUser, GrantCompanyWide, RegisterToken,
     SetMemberships, ReadClock, Consume, ResolveTrusted, ResolveToken, Authorize,
     Acquire, WaitExpires, Release, Search, Steps, Ended

LEMMA FlowInit ==
  ASSUME Init
  PROVE  FlowInv
<1>1. << >> \in Seq(Bucket(0)) /\ Len(<< >>) = 0
  BY EmptySeq
<1>2. NoJob.read = 0 /\ NoJob \in Job /\ "none" \in Ended
  BY NoJobType DEF NoJob, Ended
<1>3. \A t \in Threads : Fits(t, "none", NoJob)
  BY DEF Fits
<1>. QED  BY <1>1, <1>2, <1>3, RequestAssumption DEF Init, FlowInv, TypeInv

LEMMA FlowNext ==
  ASSUME FlowInv, [Next]_vars
  PROVE  FlowInv'
<1>1. CASE Tick
  <2>1. clock \in Nat /\ clock' = clock + 1 /\ clock' \in 0 .. MaxClock
    BY <1>1, RequestAssumption DEF Tick, FlowInv, TypeInv
  <2>2. Seq(Bucket(clock)) \subseteq Seq(Bucket(clock'))
    BY <2>1, BucketAges
  <2>. QED  BY <1>1, <2>1, <2>2 DEF Tick, FlowInv, TypeInv
<1>2. ASSUME NEW t \in Threads, Step(t)
      PROVE  FlowInv'
  <2>1. Stores'
    BY <1>2, StepStores
  <2>2. clock' = clock
    BY <1>2, StepClock
  <2>3. CASE Moves(t) /\ pc[t] \in Steps
    <3>1. left' = left
      BY <1>2, <2>3, MoveLeft
    <3>2. /\ pc' \in [Threads -> Steps \cup Ended] /\ job' \in [Threads -> Job]
          /\ \A s \in Threads : Fits(s, pc'[s], job'[s]) /\ job'[s].read \in 0 .. clock
      BY <2>3, MoveKeeps
    <3>. QED  BY <2>1, <2>2, <3>1, <3>2 DEF FlowInv, TypeInv, Stores
  <2>4. ASSUME NEW kind \in Kinds, NEW u \in Users \cup {Anonymous}, NEW d \in Depts,
               NEW asks \in SUBSET Depts, Arrive(t, kind, u, d, asks)
        PROVE  FlowInv'
    BY <2>1, <2>2, <2>4, ArriveKeeps DEF FlowInv, TypeInv, Stores
  <2>. QED  BY <1>2, <2>3, <2>4, StepMoves
<1>3. CASE UNCHANGED vars
  BY <1>3 DEF vars, FlowInv, TypeInv
<1>. QED  BY <1>1, <1>2, <1>3 DEF Next, AllServed

-----------------------------------------------------------------------------
(* The permits: those of the semaphore and those in use.                    *)

Running == {t \in Threads : pc[t] = "embedding"}

CapInv == IsFiniteSet(Running) /\ permits + Cardinality(Running) = MaxEmbeddings

LEMMA Uncounted ==
  ASSUME FlowInv, CapInv, NEW t \in Threads, NEW step, Goto(t, step),
         pc[t] # "embedding", step # "embedding", permits' = permits
  PROVE  CapInv'
<1>1. pc \in [Threads -> Steps \cup Ended]
  BY DEF FlowInv, TypeInv
<1>2. Running' = Running
  BY <1>1 DEF Running
<1>. QED  BY <1>2 DEF CapInv

LEMMA CapNext ==
  ASSUME FlowInv, CapInv, [Next]_vars
  PROVE  CapInv'
<1>1. pc \in [Threads -> Steps \cup Ended] /\ permits \in Nat /\ MaxEmbeddings \in Nat
  BY RequestAssumption DEF FlowInv, TypeInv
<1>2. IsFiniteSet(Running) /\ Cardinality(Running) \in Nat
      /\ permits + Cardinality(Running) = MaxEmbeddings
  BY FS_CardinalityType DEF CapInv
<1>3. ASSUME NEW t \in Threads, Acquire(t)
      PROVE  CapInv'
  <2>1. t \notin Running /\ Running' = Running \cup {t}
    BY <1>1, <1>3 DEF Acquire, Running
  <2>2. IsFiniteSet(Running') /\ Cardinality(Running') = Cardinality(Running) + 1
    BY <1>2, <2>1, FS_AddElement
  <2>3. permits' = permits - 1
    BY <1>3 DEF Acquire
  <2>. QED  BY <1>1, <1>2, <2>2, <2>3 DEF CapInv
<1>4. ASSUME NEW t \in Threads, Release(t)
      PROVE  CapInv'
  <2>1. t \in Running /\ Running' = Running \ {t}
    BY <1>1, <1>4 DEF Release, Running
  <2>2. IsFiniteSet(Running') /\ Cardinality(Running') = Cardinality(Running) - 1
    BY <1>2, <2>1, FS_RemoveElement
  <2>3. permits' = permits + 1
    BY <1>4 DEF Release
  <2>. QED  BY <1>1, <1>2, <2>2, <2>3 DEF CapInv
<1>5. ASSUME NEW t \in Threads, Step(t), ~ Acquire(t), ~ Release(t)
      PROVE  CapInv'
  <2>1. permits' = permits
    BY <1>5 DEF Step, Arrive, LookupUser, RegisterUser, GrantCompanyWide, RegisterToken,
       SetMemberships, ReadClock, Consume, ResolveTrusted, ResolveToken, Authorize,
       WaitExpires, Search
  <2>2. \E step : Goto(t, step) /\ pc[t] # "embedding" /\ step # "embedding"
    BY <1>5 DEF Step, Arrive, LookupUser, RegisterUser, GrantCompanyWide, RegisterToken,
       SetMemberships, ReadClock, Consume, ResolveTrusted, ResolveToken, Authorize,
       WaitExpires, Search, AfterTenant, Ended
  <2>. QED  BY <2>1, <2>2, Uncounted
<1>6. CASE Tick
  BY <1>6 DEF Tick, CapInv, Running
<1>7. CASE UNCHANGED vars
  BY <1>7 DEF vars, CapInv, Running
<1>. QED  BY <1>3, <1>4, <1>5, <1>6, <1>7 DEF Next, AllServed

LEMMA CapInit ==
  ASSUME Init
  PROVE  CapInv
<1>1. Running = {}
  BY DEF Init, Running
<1>. QED  BY <1>1, FS_EmptySet, RequestAssumption DEF Init, CapInv

-----------------------------------------------------------------------------
(* Registration: a known user has been registered, and is granted or about  *)
(* to be; a request past its registration finds its user known; and the     *)
(* grants a retrieval wrote are gone only if its user was registered again. *)

Known(u) ==
    /\ registered[u] > 0
    /\ u \in companyWide \/ \E s \in Threads : pc[s] = "grant" /\ job[s].user = u

Registered(t) ==
    job[t].kind # "handler" /\ pc[t] \in Steps \ {"tenant", "register"} =>
        job[t].user \in users

Twice(t) ==
    /\ pc[t] = "resolve" /\ job[t].kind = "retrieve" =>
          job[t].asks \subseteq memberships[job[t].user] \/ registered[job[t].user] > 1
    /\ pc[t] = "invalid" => job[t].kind = "retrieve" /\ registered[job[t].user] > 1

KnownInv ==
    /\ \A u \in users : Known(u)
    /\ \A t \in Threads : Registered(t) /\ Twice(t)

(* A step that leaves the tenant records alone has to answer only for its   *)
(* own request.                                                             *)
LEMMA QuietKnown ==
  ASSUME KnownInv, NEW t \in Threads,
         \A s \in Threads \ {t} : pc'[s] = pc[s] /\ job'[s] = job[s],
         UNCHANGED <<users, memberships, companyWide, registered>>,
         pc[t] # "grant", Registered(t)', Twice(t)'
  PROVE  KnownInv'
<1>1. \A u \in users : Known(u)'
  BY DEF KnownInv, Known
<1>2. \A s \in Threads \ {t} : Registered(s)' /\ Twice(s)'
  BY DEF KnownInv, Registered, Twice
<1>. QED  BY <1>1, <1>2 DEF KnownInv

LEMMA RegisterKnown ==
  ASSUME FlowInv, KnownInv, NEW t \in Threads, RegisterUser(t)
  PROVE  KnownInv'
<1>. DEFINE v == job[t].user
<1>1. v \in Users /\ pc \in [Threads -> Steps \cup Ended] /\ job[t].kind # "handler"
  BY DEF FlowInv, TypeInv, Fits, RegisterUser
<1>2. /\ memberships \in [Users -> SUBSET Depts] /\ registered \in [Users -> Nat]
      /\ users \subseteq Users
  BY DEF FlowInv, TypeInv
<1>3. /\ users' = users \cup {v} /\ companyWide' = companyWide /\ job' = job
      /\ memberships' = [memberships EXCEPT ![v] = {job[t].dept, Global}]
      /\ registered' = [registered EXCEPT ![v] = registered[v] + 1]
      /\ pc' = [pc EXCEPT ![t] = "grant"] /\ pc[t] = "register"
  BY DEF RegisterUser
<1>4. /\ pc'[t] = "grant" /\ \A s \in Threads \ {t} : pc'[s] = pc[s]
      /\ registered'[v] = registered[v] + 1
      /\ \A u \in Users \ {v} : registered'[u] = registered[u]
                                /\ memberships'[u] = memberships[u]
  BY <1>1, <1>2, <1>3
<1>5. \A u \in users' : Known(u)'
  <2>. SUFFICES ASSUME NEW u \in users' PROVE Known(u)'
    OBVIOUS
  <2>1. CASE u = v
    BY <1>1, <1>2, <1>3, <1>4, <2>1 DEF Known
  <2>2. CASE u # v
    <3>1. Known(u) /\ u \in Users
      BY <1>2, <1>3, <2>2 DEF KnownInv
    <3>. QED  BY <1>3, <1>4, <2>2, <3>1 DEF Known
  <2>. QED  BY <2>1, <2>2
<1>6. ASSUME NEW s \in Threads
      PROVE  Registered(s)' /\ Twice(s)'
  <2>1. Registered(s) /\ Twice(s)
    BY DEF KnownInv
  <2>2. CASE s = t
    BY <1>3, <1>4, <2>2 DEF Registered, Twice
  <2>3. CASE s # t
    <3>1. Registered(s)'
      BY <1>3, <1>4, <2>1, <2>3 DEF Registered
    <3>2. CASE job[s].user = v /\ job[s].kind # "handler"
      <4>1. pc[s] = "resolve" => registered[v] > 0
        BY <2>1, <3>2 DEF Registered, Steps, KnownInv, Known
      <4>. QED  BY <1>1, <1>2, <1>3, <1>4, <2>1, <2>3, <3>1, <3>2, <4>1 DEF Twice
    <3>3. CASE job[s].user # v /\ job[s].kind # "handler"
      <4>1. pc[s] # "none" => job[s].user \in Users
        BY <3>3 DEF FlowInv, Fits
      <4>. QED  BY <1>3, <1>4, <2>1, <2>3, <3>1, <3>3, <4>1 DEF Twice
    <3>4. CASE job[s].kind = "handler"
      BY <1>3, <1>4, <2>1, <2>3, <3>1, <3>4 DEF Twice
    <3>. QED  BY <3>2, <3>3, <3>4
  <2>. QED  BY <2>2, <2>3
<1>. QED  BY <1>5, <1>6 DEF KnownInv

LEMMA GrantKnown ==
  ASSUME FlowInv, KnownInv, NEW t \in Threads, GrantCompanyWide(t)
  PROVE  KnownInv'
<1>1. /\ pc \in [Threads -> Steps \cup Ended] /\ pc[t] = "grant" /\ job[t] \in Job
      /\ job[t].kind # "handler" /\ Registered(t)
  BY DEF FlowInv, TypeInv, Fits, GrantCompanyWide, KnownInv
<1>2. job[t].user \in users
  BY <1>1 DEF Registered, Steps
<1>3. /\ companyWide' = companyWide \cup {job[t].user} /\ job' = job
      /\ users' = users /\ memberships' = memberships /\ registered' = registered
      /\ pc'[t] \in {"token", "memberships"}
      /\ \A s \in Threads \ {t} : pc'[s] = pc[s]
  BY <1>1 DEF GrantCompanyWide, AfterTenant
<1>4. \A u \in users' : Known(u)'
  <2>. SUFFICES ASSUME NEW u \in users PROVE Known(u)'
    BY <1>3
  <2>1. Known(u)
    BY DEF KnownInv
  <2>. QED  BY <1>1, <1>3, <2>1 DEF Known
<1>5. \A s \in Threads : Registered(s)' /\ Twice(s)'
  <2>. SUFFICES ASSUME NEW s \in Threads PROVE Registered(s)' /\ Twice(s)'
    OBVIOUS
  <2>1. Registered(s) /\ Twice(s)
    BY DEF KnownInv
  <2>. QED  BY <1>2, <1>3, <2>1 DEF Registered, Twice
<1>. QED  BY <1>4, <1>5 DEF KnownInv

LEMMA MembershipsKnown ==
  ASSUME FlowInv, KnownInv, NEW t \in Threads, SetMemberships(t)
  PROVE  KnownInv'
<1>1. /\ pc \in [Threads -> Steps \cup Ended] /\ pc[t] = "memberships"
      /\ job[t].kind = "retrieve" /\ t = Loop /\ job[t].user \in Users
      /\ memberships \in [Users -> SUBSET Depts]
  BY DEF FlowInv, TypeInv, Fits, SetMemberships
<1>2. /\ memberships' = [memberships EXCEPT ![job[t].user] = job[t].asks] /\ job' = job
      /\ users' = users /\ companyWide' = companyWide /\ registered' = registered
      /\ pc'[t] = "resolve" /\ \A s \in Threads \ {t} : pc'[s] = pc[s]
  BY <1>1 DEF SetMemberships
<1>3. \A u \in users' : Known(u)'
  <2>. SUFFICES ASSUME NEW u \in users PROVE Known(u)'
    BY <1>2
  <2>1. Known(u)
    BY DEF KnownInv
  <2>. QED  BY <1>1, <1>2, <2>1 DEF Known
<1>4. \A s \in Threads : Registered(s)' /\ Twice(s)'
  <2>. SUFFICES ASSUME NEW s \in Threads PROVE Registered(s)' /\ Twice(s)'
    OBVIOUS
  <2>1. Registered(s) /\ Twice(s)
    BY DEF KnownInv
  <2>2. CASE s = t
    BY <1>1, <1>2, <2>1, <2>2 DEF Registered, Twice, Steps
  <2>3. CASE s # t
    <3>1. pc[s] = "resolve" => job[s].kind # "retrieve"
      BY <1>1, <2>3 DEF FlowInv, Fits
    <3>. QED  BY <1>2, <2>1, <2>3, <3>1 DEF Registered, Twice
  <2>. QED  BY <2>2, <2>3
<1>. QED  BY <1>3, <1>4 DEF KnownInv

LEMMA StepKnown ==
  ASSUME FlowInv, KnownInv, NEW t \in Threads, Step(t)
  PROVE  KnownInv'
<1>1. /\ pc \in [Threads -> Steps \cup Ended] /\ job \in [Threads -> Job]
      /\ Fits(t, pc[t], job[t]) /\ Registered(t) /\ Twice(t)
  BY DEF FlowInv, TypeInv, KnownInv
<1>2. ASSUME NEW kind \in Kinds, NEW u \in Users \cup {Anonymous}, NEW d \in Depts,
             NEW asks \in SUBSET Depts, Arrive(t, kind, u, d, asks)
      PROVE  KnownInv'
  <2>1. /\ pc'[t] = IF kind = "handler" THEN "throttle" ELSE "tenant"
        /\ job'[t].kind = kind
    BY <1>1, <1>2 DEF Arrive, NoJob
  <2>2. Registered(t)' /\ Twice(t)'
    BY <2>1 DEF Registered, Twice
  <2>3. \A s \in Threads \ {t} : pc'[s] = pc[s] /\ job'[s] = job[s]
    BY <1>2, ArriveKeeps
  <2>. QED  BY <1>2, <2>2, <2>3, QuietKnown DEF Arrive, Ended
<1>3. ASSUME Moves(t), pc[t] \in Steps, ~ RegisterUser(t), ~ GrantCompanyWide(t),
             ~ SetMemberships(t)
      PROVE  KnownInv'
  <2>1. /\ job'[t].user = job[t].user /\ job'[t].kind = job[t].kind
        /\ \A s \in Threads \ {t} : pc'[s] = pc[s] /\ job'[s] = job[s]
    BY <1>3, MoveKeeps
  <2>2. /\ UNCHANGED <<users, memberships, companyWide, registered>>
        /\ pc[t] \notin {"register", "grant", "memberships"}
    <3>1. ~ \E kind \in Kinds, u \in Users \cup {Anonymous}, d \in Depts,
                asks \in SUBSET Depts : Arrive(t, kind, u, d, asks)
      BY <1>3 DEF Arrive, Steps, Ended
    <3>2. CASE LookupUser(t) \/ RegisterToken(t) \/ ReadClock(t) \/ Consume(t)
      BY <3>2 DEF LookupUser, RegisterToken, ReadClock, Consume
    <3>3. CASE ResolveTrusted(t) \/ ResolveToken(t) \/ Authorize(t) \/ Search(t)
      BY <3>3 DEF ResolveTrusted, ResolveToken, Authorize, Search
    <3>4. CASE Acquire(t) \/ WaitExpires(t) \/ Release(t)
      BY <3>4 DEF Acquire, WaitExpires, Release
    <3>. QED  BY <1>3, <3>1, <3>2, <3>3, <3>4 DEF Step
  <2>3. Registered(t)'
    <3>1. CASE LookupUser(t)
      BY <1>1, <2>1, <2>2, <3>1 DEF LookupUser, Registered
    <3>2. CASE pc[t] # "tenant"
      BY <1>1, <1>3, <2>1, <2>2, <3>2 DEF Registered
    <3>. QED
      BY <1>3, <2>2, <3>1, <3>2 DEF Step, Arrive, RegisterToken, ReadClock, Consume,
         ResolveTrusted, ResolveToken, Authorize, Acquire, WaitExpires, Release, Search,
         Steps, Ended
  <2>4. Twice(t)'
    <3>1. CASE ResolveTrusted(t)
      <4>1. job[t].asks \subseteq memberships[job[t].user] \/ pc'[t] = "invalid"
        BY <1>1, <3>1 DEF ResolveTrusted
      <4>2. pc'[t] # "resolve" /\ (pc'[t] = "invalid" =>
                ~ job[t].asks \subseteq memberships[job[t].user])
        BY <1>1, <3>1 DEF ResolveTrusted
      <4>. QED  BY <1>1, <2>1, <2>2, <3>1, <4>2 DEF Twice, ResolveTrusted
    <3>2. CASE Consume(t)
      <4>1. job'[t].kind # "retrieve" /\ pc'[t] # "invalid"
        BY <1>1, <2>1, <3>2 DEF Fits, Consume
      <4>. QED  BY <4>1 DEF Twice
    <3>3. CASE ~ ResolveTrusted(t) /\ ~ Consume(t)
      <4>1. pc'[t] \notin {"resolve", "invalid"}
        BY <1>1, <1>3, <2>2, <3>3 DEF Step, Arrive, LookupUser, RegisterToken, ReadClock,
           ResolveToken, Authorize, Acquire, WaitExpires, Release, Search, AfterTenant,
           Steps, Ended
      <4>. QED  BY <4>1 DEF Twice
    <3>. QED  BY <3>1, <3>2, <3>3
  <2>. QED  BY <2>1, <2>2, <2>3, <2>4, QuietKnown
<1>. QED  BY <1>2, <1>3, StepMoves, RegisterKnown, GrantKnown, MembershipsKnown

LEMMA KnownNext ==
  ASSUME FlowInv, KnownInv, [Next]_vars
  PROVE  KnownInv'
<1>1. CASE Tick
  BY <1>1 DEF Tick, KnownInv, Known, Registered, Twice
<1>2. CASE UNCHANGED vars
  BY <1>2 DEF vars, KnownInv, Known, Registered, Twice
<1>. QED  BY <1>1, <1>2, StepKnown DEF Next, AllServed

LEMMA KnownInit ==
  ASSUME Init
  PROVE  KnownInv
  BY DEF Init, KnownInv, Registered, Twice, Steps

-----------------------------------------------------------------------------
(* The inductive invariant, and what it shows.                              *)

RequestInv == FlowInv /\ CapInv /\ KnownInv

LEMMA RequestInductive == Spec => []RequestInv
<1>1. Init => RequestInv
  BY FlowInit, CapInit, KnownInit DEF RequestInv
<1>2. RequestInv /\ [Next]_vars => RequestInv'
  BY FlowNext, CapNext, KnownNext DEF RequestInv
<1>. QED  BY <1>1, <1>2, PTL DEF Spec

(* Every variable keeps its type, and the limits their limits: no bucket    *)
(* above its burst, no more keys tracked than allowed, no permit too many.  *)
THEOREM RequestsTyped == Spec => []TypeOK
<1>1. RequestInv => TypeOK
  <2>. SUFFICES ASSUME RequestInv PROVE TypeOK
    OBVIOUS
  <2>1. TypeInv /\ CapInv
    BY DEF RequestInv, FlowInv
  <2>2. permits \in 0 .. MaxEmbeddings
    <3>1. permits \in Nat /\ MaxEmbeddings \in Nat
      BY <2>1, RequestAssumption DEF TypeInv
    <3>2. Cardinality(Running) \in Nat /\ permits + Cardinality(Running) = MaxEmbeddings
      BY <2>1, FS_CardinalityType DEF CapInv
    <3>. QED  BY <3>1, <3>2
  <2>3. ASSUME NEW t \in Threads
        PROVE  /\ job[t].kind \in Kinds /\ job[t].user \in Users \cup {Anonymous}
               /\ job[t].dept \in Depts /\ job[t].read \in 0 .. MaxClock
               /\ {job[t].asks, job[t].scope} \subseteq SUBSET Depts
    <3>1. job[t] \in Job /\ job[t].read \in 0 .. clock
      BY <2>1 DEF TypeInv
    <3>2. clock \in Nat /\ clock <= MaxClock /\ MaxClock \in Nat
      BY <2>1, RequestAssumption DEF TypeInv
    <3>. QED  BY <3>1, <3>2 DEF Job
  <2>4. ASSUME NEW i \in DOMAIN buckets
        PROVE  buckets[i].key \in Keys /\ buckets[i].tokens \in 0 .. Burst[buckets[i].key[2]]
    <3>1. buckets[i] \in Bucket(clock)
      BY <2>1, ElementOfSeq, LenProperties DEF TypeInv
    <3>2. buckets[i].key \in Keys /\ buckets[i].tokens \in Nat
          /\ buckets[i].tokens <= Burst[buckets[i].key[2]]
      BY <3>1 DEF Bucket
    <3>3. Burst[buckets[i].key[2]] \in Nat
      BY <3>2, RequestAssumption DEF Keys
    <3>. QED  BY <3>2, <3>3
  <2>5. ASSUME NEW t \in Threads
        PROVE  left[t] \in 0 .. Requests[t]
    BY <2>1, RequestAssumption DEF TypeInv
  <2>. QED  BY <2>1, <2>2, <2>3, <2>4, <2>5 DEF TypeInv, TypeOK
<1>. QED  BY <1>1, RequestInductive, PTL

(* A retrieval searches the departments it asked for, whatever the other    *)
(* requests of its user make of the shared grants meanwhile.                *)
THEOREM ScopeOwn == Spec => []OwnScope
<1>1. RequestInv => OwnScope
  BY DEF RequestInv, FlowInv, Fits, OwnScope
<1>. QED  BY <1>1, RequestInductive, PTL

(* Whatever the store returns, an answer holds nothing from outside its     *)
(* scope and its context quotes nothing the answer does not hold.           *)
THEOREM AnswersClean == Spec => []NothingForeign
<1>1. RequestInv => NothingForeign
  BY DEF RequestInv, FlowInv, Fits, NothingForeign
<1>. QED  BY <1>1, RequestInductive, PTL

(* A retrieval is refused for its identity only when its user was           *)
(* registered twice.                                                        *)
THEOREM RefusalsExplained == Spec => []RefusedOnlyWhenOverwritten
<1>1. RequestInv => RefusedOnlyWhenOverwritten
  BY DEF RequestInv, KnownInv, Twice, RefusedOnlyWhenOverwritten
<1>. QED  BY <1>1, RequestInductive, PTL

(* The permits and the embeddings that run always add up to the cap.        *)
THEOREM CapExact == Spec => []EmbeddingsCapped
<1>1. RequestInv => EmbeddingsCapped
  BY DEF RequestInv, CapInv, Running, EmbeddingsCapped
<1>. QED  BY <1>1, RequestInductive, PTL

(* A bucket lets through no more than its burst, what the time since it was *)
(* made earns, and what late readings of the clock made it earn twice.      *)
THEOREM BudgetKept == Spec => []BudgetHolds
<1>1. RequestInv => BudgetHolds
  <2>. SUFFICES ASSUME RequestInv, NEW i \in DOMAIN buckets
                PROVE  buckets[i].issued + buckets[i].tokens <=
                         Burst[buckets[i].key[2]]
                           + Refill * (clock - buckets[i].born + buckets[i].lag)
    BY DEF BudgetHolds
  <2>. DEFINE b == buckets[i]
              was == b.updated - b.born + b.lag
              is == clock - b.born + b.lag
  <2>1. b \in Bucket(clock) /\ clock \in Nat /\ Refill \in Nat
    BY ElementOfSeq, LenProperties, RequestAssumption DEF RequestInv, FlowInv, TypeInv
  <2>2. /\ b.updated \in 0 .. clock /\ b.born \in 0 .. clock /\ b.lag \in Nat
        /\ b.issued \in Nat /\ b.tokens \in Nat /\ b.key \in Keys
        /\ b.issued + b.tokens <= Burst[b.key[2]] + Refill * was
    BY <2>1 DEF Bucket
  <2>3. Burst[b.key[2]] \in Nat
    BY <2>2, RequestAssumption DEF Keys
  <2>4. was \in Int /\ is \in Int /\ was <= is
    BY <2>1, <2>2
  <2>5. Refill * was <= Refill * is /\ Refill * was \in Int /\ Refill * is \in Int
    <3>. HIDE DEF was, is
    <3>. QED  BY <2>1, <2>4, Monotone
  <2>. HIDE DEF was
  <2>. QED  BY <2>2, <2>3, <2>5
<1>. QED  BY <1>1, RequestInductive, PTL

(* An ingest is denied only while another request of its user stands        *)
(* between register_user and grant_company_wide.                            *)
THEOREM DenialsExplained == Spec => DeniedOnlyBeforeGrant
<1>1. ASSUME RequestInv, [Next]_vars, NEW t \in Threads, pc'[t] = "denied", pc[t] # "denied"
      PROVE  \E s \in Threads \ {t} : pc[s] = "grant" /\ job[s].user = job[t].user
  <2>1. /\ pc \in [Threads -> Steps \cup Ended] /\ Fits(t, pc[t], job[t])
        /\ Registered(t) /\ \A u \in users : Known(u)
    BY <1>1 DEF RequestInv, FlowInv, TypeInv, KnownInv
  <2>2. PICK w \in Threads : Step(w)
    BY <1>1 DEF Next, Tick, AllServed, vars
  <2>3. CASE w = t
    <3>1. Authorize(t)
      BY <1>1, <2>1, <2>2, <2>3 DEF Step, Arrive, LookupUser, RegisterUser,
         GrantCompanyWide, RegisterToken, SetMemberships, ReadClock, Consume,
         ResolveTrusted, ResolveToken, Acquire, WaitExpires, Release, Search, AfterTenant
    <3>2. pc[t] = "authorize" /\ job[t].user \notin companyWide
      BY <1>1, <2>1, <3>1 DEF Authorize
    <3>3. job[t].user \in users
      BY <2>1, <3>2 DEF Fits, Registered, Steps
    <3>. QED  BY <2>1, <3>2, <3>3 DEF Known
  <2>4. CASE w # t
    <3>1. pc'[t] = pc[t]
      BY <1>1, <2>2, <2>4, StepMoves, MoveKeeps, ArriveKeeps DEF RequestInv
    <3>. QED  BY <1>1, <3>1
  <2>. QED  BY <2>3, <2>4
<1>2. RequestInv /\ [Next]_vars =>
        [\A t \in Threads : pc'[t] = "denied" /\ pc[t] # "denied" =>
           \E s \in Threads \ {t} : pc[s] = "grant" /\ job[s].user = job[t].user]_vars
  BY <1>1
<1>. QED  BY <1>2, RequestInductive, PTL DEF Spec, DeniedOnlyBeforeGrant
=============================================================================
