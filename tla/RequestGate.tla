----------------------------- MODULE RequestGate -----------------------------
(***************************************************************************)
(* A request on its way into the RAG service (src/rag/service.py and       *)
(* src/rag/app): the tenant records it leaves in the shared in-memory      *)
(* identity store, the rate limiter, the resolution of its identity, the   *)
(* cap on concurrent embeddings and the checks on what a search returns.   *)
(*                                                                         *)
(* The threads are those of the gateway: retrievals run on the event loop, *)
(* one at a time; ingests run in the worker pool; all of them share the    *)
(* dictionaries of one InMemoryIdentityStore and one RateLimiter.  Every   *)
(* access to a shared dictionary, the clock, the lock or the semaphore is  *)
(* a step of its own.  A "handler" request is one of RetrieveHandler and   *)
(* RagQueryHandler, which carry a bearer token and are throttled.          *)
(*                                                                         *)
(* Companies and departments are registered before they are used, never    *)
(* change and never leave, so their two lookups are part of the first step *)
(* and not state; all users here are of one company.  What is embedded and *)
(* scored is data: a search finds chunks, each of a department.            *)
(***************************************************************************)
EXTENDS Integers, Sequences, FiniteSets, SequencesExt

CONSTANTS
    Threads,        \* threads that serve requests
    Loop,           \* the thread of the event loop
    Users,          \* user ids of the company
    Depts,          \* departments of the company
    Global,         \* its department "global"
    Foreign,        \* a department outside the company
    Anonymous,      \* a caller without a credential
    Burst,          \* [scope -> tokens of a full bucket]
    Refill,         \* tokens a bucket gains per tick of the clock
    MaxTracked,     \* RateLimitConfig.max_tracked_keys
    MaxEmbeddings,  \* RateLimitConfig.max_concurrent_embeddings
    Regressed,      \* a search of the store may return chunks out of scope
    MaxClock,       \* bound: ticks of the clock
    Requests        \* bound: [Threads -> requests the thread serves]

ASSUME RequestAssumption ==
    /\ Loop \in Threads /\ Global \in Depts /\ Foreign \notin Depts
    /\ Anonymous \notin Users
    /\ Burst \in [{"ingest", "read"} -> Nat \ {0}]
    /\ {MaxTracked, MaxEmbeddings} \subseteq Nat \ {0}
    /\ {Refill, MaxClock} \subseteq Nat /\ Requests \in [Threads -> Nat]
    /\ Regressed \in BOOLEAN

VARIABLES
    pc,          \* [Threads -> step of the request, or its outcome]
    job,         \* [Threads -> the request]
    left,        \* [Threads -> requests the thread may still take]
    users,       \* identity_store.users
    memberships, \* identity_store.user_departments
    tokens,      \* identity_store.tokens, by the user they stand for
    companyWide, \* IngestPermissionRegistry._company_wide_user_ids
    buckets,     \* RateLimiter._buckets, the least recently used first
    permits,     \* what the BoundedSemaphore of the embeddings has left
    clock,       \* time.monotonic
    registered   \* history: [Users -> calls of register_user]

vars == <<pc, job, left, users, memberships, tokens, companyWide, buckets,
          permits, clock, registered>>
tenancy == <<users, memberships, tokens, companyWide, registered>>
limits == <<buckets, permits, clock>>

Kinds == {"ingest", "retrieve", "handler"}
Scope(k) == IF k = "ingest" THEN "ingest" ELSE "read"
Ended == {"none", "indexed", "answered", "limited", "unauthenticated",
          "invalid", "denied", "busy", "failed"}
Steps == {"tenant", "register", "grant", "token", "memberships", "throttle",
          "consume", "resolve", "authorize", "embed", "embedding", "search"}

NoJob == [kind |-> "ingest", user |-> Anonymous, dept |-> Global, asks |-> {},
          read |-> 0, scope |-> {}, chunks |-> {}, context |-> {}]

\* The bucket of a credential and a scope; all anonymous callers share one.
Key(j) == <<j.user, Scope(j.kind)>>

Goto(t, step) == pc' = [pc EXCEPT ![t] = step]

\* The request is over; whose it was and of what kind is all that stays.
End(t, outcome) ==
    /\ Goto(t, outcome)
    /\ job' = [job EXCEPT ![t] = [NoJob EXCEPT !.kind = job[t].kind, !.user = job[t].user]]

-----------------------------------------------------------------------------
(* Tenancy: ensure_tenant and the grants of a retrieval                    *)

\* A request arrives.  A retrieval asks for its own team, the teams its
\* caller allows it and always for the global department.
Arrive(t, kind, u, d, asks) ==
    /\ pc[t] \in Ended /\ left[t] > 0
    /\ (kind = "ingest") = (t # Loop)
    /\ u = Anonymous => kind = "handler"
    /\ kind = "retrieve" => {d, Global} \subseteq asks
    /\ kind # "retrieve" => asks = {}
    /\ left' = [left EXCEPT ![t] = @ - 1]
    /\ job' = [job EXCEPT ![t] = [NoJob EXCEPT !.kind = kind, !.user = u,
                                              !.dept = d, !.asks = asks]]
    /\ Goto(t, IF kind = "handler" THEN "throttle" ELSE "tenant")
    /\ UNCHANGED <<tenancy, limits>>

AfterTenant(t) == IF job[t].kind = "ingest" THEN "token" ELSE "memberships"

\* get_user: a user that is already there is neither registered nor granted.
LookupUser(t) ==
    /\ pc[t] = "tenant"
    /\ Goto(t, IF job[t].user \in users THEN AfterTenant(t) ELSE "register")
    /\ UNCHANGED <<job, left, tenancy, limits>>

\* Mutant: the grant of a newly registered user is forgotten.
RegisterUngranted(t) ==
    /\ pc[t] = "register"
    /\ users' = users \cup {job[t].user}
    /\ memberships' = [memberships EXCEPT ![job[t].user] = {job[t].dept, Global}]
    /\ registered' = [registered EXCEPT ![job[t].user] = @ + 1]
    /\ Goto(t, AfterTenant(t))
    /\ UNCHANGED <<job, left, tokens, companyWide, limits>>

\* register_user overwrites the departments of whoever registered it since.
RegisterUser(t) ==
    /\ pc[t] = "register"
    /\ LET u == job[t].user IN
       /\ users' = users \cup {u}
       /\ memberships' = [memberships EXCEPT ![u] = {job[t].dept, Global}]
       /\ registered' = [registered EXCEPT ![u] = @ + 1]
    /\ Goto(t, "grant")
    /\ UNCHANGED <<job, left, tokens, companyWide, limits>>

GrantCompanyWide(t) ==
    /\ pc[t] = "grant"
    /\ companyWide' = companyWide \cup {job[t].user}
    /\ Goto(t, AfterTenant(t))
    /\ UNCHANGED <<job, left, users, memberships, tokens, registered, limits>>

RegisterToken(t) ==
    /\ pc[t] = "token"
    /\ tokens' = tokens \cup {job[t].user}
    /\ Goto(t, "throttle")
    /\ UNCHANGED <<job, left, users, memberships, companyWide, registered, limits>>

\* Mutant: only a user without departments is given those of the retrieval.
SetMembershipsOnce(t) ==
    /\ pc[t] = "memberships"
    /\ memberships' = [memberships EXCEPT ![job[t].user] =
                          IF @ = {} THEN job[t].asks ELSE @]
    /\ Goto(t, "resolve")
    /\ UNCHANGED <<job, left, users, tokens, companyWide, registered, limits>>

\* user_departments[u_id] = tuple(dept_uuids)
SetMemberships(t) ==
    /\ pc[t] = "memberships"
    /\ memberships' = [memberships EXCEPT ![job[t].user] = job[t].asks]
    /\ Goto(t, "resolve")
    /\ UNCHANGED <<job, left, users, tokens, companyWide, registered, limits>>

-----------------------------------------------------------------------------
(* RateLimiter.check: the clock is read before the lock is taken           *)

Tick ==
    /\ clock < MaxClock
    /\ clock' = clock + 1
    /\ UNCHANGED <<pc, job, left, tenancy, buckets, permits>>

ReadClock(t) ==
    /\ pc[t] = "throttle"
    /\ job' = [job EXCEPT ![t].read = clock]
    /\ Goto(t, "consume")
    /\ UNCHANGED <<left, tenancy, limits>>

\* A full bucket.  "born", "issued" and "lag" are history: when it was made,
\* the requests it let through, and by how much late readings moved it back.
Fresh(j) == [key |-> Key(j), tokens |-> Burst[Scope(j.kind)], updated |-> j.read,
             born |-> j.read, issued |-> 0, lag |-> 0]

Tracks(key) == \E i \in DOMAIN buckets : buckets[i].key = key
Slot(key) == CHOOSE i \in DOMAIN buckets : buckets[i].key = key

BucketOf(j) == IF Tracks(Key(j)) THEN buckets[Slot(Key(j))] ELSE Fresh(j)

Least(a, b) == IF a <= b THEN a ELSE b
Positive(n) == IF n > 0 THEN n ELSE 0

\* Mutant: the time of the last update is never brought forward.
ConsumedTwice(b, now) ==
    LET earned == Least(Burst[b.key[2]],
                        b.tokens + Positive(now - b.updated) * Refill)
        taken  == IF earned >= 1 THEN 1 ELSE 0
    IN  [b EXCEPT !.tokens = earned - taken, !.issued = @ + taken]

\* TokenBucket.consume: a late reading earns nothing, but it becomes the
\* time of the last update all the same.
Consumed(b, now) ==
    LET earned == Least(Burst[b.key[2]],
                        b.tokens + Positive(now - b.updated) * Refill)
        taken  == IF earned >= 1 THEN 1 ELSE 0
    IN  [b EXCEPT !.tokens = earned - taken, !.updated = now,
                  !.issued = @ + taken, !.lag = @ + Positive(b.updated - now)]

Others(key) == IF Tracks(key) THEN RemoveAt(buckets, Slot(key)) ELSE buckets

\* Mutant: no key is ever evicted.
TrackedAll(b) == Append(Others(b.key), b)

\* A used key goes to the end; the first ones go when there are too many.
Tracked(b) ==
    LET moved == Append(Others(b.key), b)
    IN  IF Len(moved) > MaxTracked THEN Tail(moved) ELSE moved

Consume(t) ==
    /\ pc[t] = "consume"
    /\ LET old == BucketOf(job[t])
           new == Consumed(old, job[t].read)
       IN  /\ buckets' = Tracked(new)
           /\ IF new.issued > old.issued
              THEN Goto(t, "resolve") /\ job' = [job EXCEPT ![t].read = 0]
              ELSE End(t, "limited")
    /\ UNCHANGED <<left, tenancy, permits, clock>>

-----------------------------------------------------------------------------
(* IdentityResolver and IngestAuthorizationService                         *)

Granted(t, scope, next) ==
    /\ job' = [job EXCEPT ![t].scope = scope]
    /\ Goto(t, next)

\* Mutant: the validated memberships become the scope.
ResolveMemberships(t) ==
    /\ pc[t] = "resolve" /\ job[t].kind = "retrieve"
    /\ IF job[t].asks \subseteq memberships[job[t].user]
       THEN Granted(t, memberships[job[t].user], "embed")
       ELSE End(t, "invalid")
    /\ UNCHANGED <<left, tenancy, limits>>

\* A trusted payload must stay within the memberships and is then the scope.
ResolveTrusted(t) ==
    /\ pc[t] = "resolve" /\ job[t].kind = "retrieve"
    /\ IF job[t].asks \subseteq memberships[job[t].user]
       THEN Granted(t, job[t].asks, "embed")
       ELSE End(t, "invalid")
    /\ UNCHANGED <<left, tenancy, limits>>

\* A bearer token stands for its user, whose scope is all its memberships.
ResolveToken(t) ==
    /\ pc[t] = "resolve" /\ job[t].kind # "retrieve"
    /\ IF job[t].user \in tokens
       THEN Granted(t, memberships[job[t].user],
                    IF job[t].kind = "ingest" THEN "authorize" ELSE "embed")
       ELSE End(t, "unauthenticated")
    /\ UNCHANGED <<left, tenancy, limits>>

\* authorize_create_scope
Authorize(t) ==
    /\ pc[t] = "authorize"
    /\ IF job[t].user \in companyWide \/ job[t].dept \in job[t].scope
       THEN Goto(t, "embed") /\ UNCHANGED job
       ELSE End(t, "denied")
    /\ UNCHANGED <<left, tenancy, limits>>

-----------------------------------------------------------------------------
(* ConcurrencyLimiter around the embedding model                           *)

Acquire(t) ==
    /\ pc[t] = "embed" /\ permits > 0
    /\ permits' = permits - 1
    /\ Goto(t, "embedding")
    /\ UNCHANGED <<job, left, tenancy, buckets, clock>>

\* Mutant: the permit that was never taken is released.
WaitExpiresReleasing(t) ==
    /\ pc[t] = "embed" /\ permits = 0
    /\ permits' = permits + 1
    /\ End(t, "busy")
    /\ UNCHANGED <<left, tenancy, buckets, clock>>

\* acquire returns False after wait_seconds; __exit__ does not run.
WaitExpires(t) ==
    /\ pc[t] = "embed" /\ permits = 0
    /\ End(t, "busy")
    /\ UNCHANGED <<left, tenancy, limits>>

\* __exit__ releases whether the model answered or raised.
Release(t) ==
    /\ pc[t] = "embedding"
    /\ permits' = permits + 1
    /\ \/ job[t].kind = "ingest" /\ End(t, "indexed")
       \/ job[t].kind # "ingest" /\ Goto(t, "search") /\ UNCHANGED job
       \/ End(t, "failed")
    /\ UNCHANGED <<left, tenancy, buckets, clock>>

-----------------------------------------------------------------------------
(* SecureRetrievalEngine.search                                            *)

\* What the store returns, each chunk by its department.  It filters on the
\* scope itself; a regression of the store is what the validator is for.
Found(t) == SUBSET (IF Regressed THEN Depts \cup {Foreign} ELSE job[t].scope)

\* Mutant: the context is kept as it was assembled.
SearchKeepingContext(t) ==
    /\ pc[t] = "search"
    /\ \E found \in Found(t) :
          job' = [job EXCEPT ![t].chunks = found \cap job[t].scope, ![t].context = found]
    /\ Goto(t, "answered")
    /\ UNCHANGED <<left, tenancy, limits>>

\* The validator strips what is out of scope; the context, assembled before
\* the validation, is given up when anything was stripped.
Search(t) ==
    /\ pc[t] = "search"
    /\ \E found \in Found(t) :
          LET allowed == found \cap job[t].scope
          IN  job' = [job EXCEPT ![t].chunks = allowed,
                        ![t].context = IF allowed = found THEN found ELSE {}]
    /\ Goto(t, "answered")
    /\ UNCHANGED <<left, tenancy, limits>>

-----------------------------------------------------------------------------
Init ==
    /\ pc = [t \in Threads |-> "none"]
    /\ job = [t \in Threads |-> NoJob]
    /\ left = Requests
    /\ users = {} /\ tokens = {} /\ companyWide = {}
    /\ memberships = [u \in Users |-> {}]
    /\ registered = [u \in Users |-> 0]
    /\ buckets = <<>> /\ permits = MaxEmbeddings /\ clock = 0

Step(t) ==
    \/ \E kind \in Kinds, u \in Users \cup {Anonymous}, d \in Depts,
          asks \in SUBSET Depts : Arrive(t, kind, u, d, asks)
    \/ LookupUser(t) \/ RegisterUser(t) \/ GrantCompanyWide(t)
    \/ RegisterToken(t) \/ SetMemberships(t)
    \/ ReadClock(t) \/ Consume(t)
    \/ ResolveTrusted(t) \/ ResolveToken(t) \/ Authorize(t)
    \/ Acquire(t) \/ WaitExpires(t) \/ Release(t) \/ Search(t)

AllServed ==
    /\ \A t \in Threads : pc[t] \in Ended /\ left[t] = 0
    /\ clock = MaxClock
    /\ UNCHANGED vars

Next == Tick \/ (\E t \in Threads : Step(t)) \/ AllServed

Spec == Init /\ [][Next]_vars

-----------------------------------------------------------------------------
(* Properties                                                              *)

Keys == (Users \cup {Anonymous}) \X DOMAIN Burst

\* The types of the state; the limiter tracks at most MaxTracked keys, no
\* bucket holds more than its burst, and there are never more permits than
\* embeddings allowed (RateLimiter._evict_if_needed, TokenBucket.consume).
TypeOK ==
    /\ pc \in [Threads -> Steps \cup Ended]
    /\ \A t \in Threads : left[t] \in 0 .. Requests[t]
    /\ users \subseteq Users /\ tokens \subseteq Users /\ companyWide \subseteq Users
    /\ memberships \in [Users -> SUBSET Depts]
    /\ \A t \in Threads :
          /\ job[t].kind \in Kinds /\ job[t].user \in Users \cup {Anonymous}
          /\ job[t].dept \in Depts /\ job[t].read \in 0 .. MaxClock
          /\ {job[t].asks, job[t].scope} \subseteq SUBSET Depts
    /\ Len(buckets) <= MaxTracked
    /\ \A i \in DOMAIN buckets :
          /\ buckets[i].key \in Keys
          /\ buckets[i].tokens \in 0 .. Burst[buckets[i].key[2]]
    /\ permits \in 0 .. MaxEmbeddings /\ clock \in 0 .. MaxClock

\* A retrieval that reaches the search searches the departments it asked for,
\* no fewer and no more, whatever other requests of the same user have made
\* of the shared grants meanwhile (rag/service.py retrieve writes them, and
\* register_user of a pool thread may overwrite them before they are read).
OwnScope ==
    \A t \in Threads :
        job[t].kind = "retrieve" /\ pc[t] \in {"embed", "embedding", "search", "answered"}
            => job[t].scope = job[t].asks

\* A retrieval is refused for its identity only when its user was registered
\* twice: two first requests both found no user, and the later register_user
\* replaced the departments the retrieval had just written.
RefusedOnlyWhenOverwritten ==
    \A t \in Threads : pc[t] = "invalid" => registered[job[t].user] > 1

\* An ingest is denied only while another request of its user stands between
\* register_user and grant_company_wide: the user is seen before its grant.
DeniedOnlyBeforeGrant ==
    [][\A t \in Threads : pc'[t] = "denied" /\ pc[t] # "denied" =>
          \E s \in Threads \ {t} : pc[s] = "grant" /\ job[s].user = job[t].user]_vars

\* A bucket lets through no more than its burst, what the time since it was
\* made earns, and what it earns twice because a late reading of the clock
\* moved its last update back (TokenBucket.consume under the lock, the clock
\* read before it).
BudgetHolds ==
    \A i \in DOMAIN buckets :
        LET b == buckets[i] IN
        b.issued + b.tokens <= Burst[b.key[2]] + Refill * (clock - b.born + b.lag)

\* Permits and running embeddings always add up: a request that fails, one
\* that waits in vain and one that is served all leave the cap as it was.
EmbeddingsCapped ==
    permits + Cardinality({t \in Threads : pc[t] = "embedding"}) = MaxEmbeddings

\* Whatever the store returns, an answer holds nothing from outside the scope
\* of its request, and its context quotes nothing the answer does not hold
\* (SecureRetrievalEngine.search, post-validation).
NothingForeign ==
    \A t \in Threads : pc[t] = "answered" =>
        /\ job[t].chunks \subseteq job[t].scope
        /\ job[t].context \subseteq job[t].chunks
=============================================================================
