------------------------------- MODULE AuthCache -------------------------------
(***************************************************************************)
(* The auth context middleware (packages/utils, middleware/auth.ts), for    *)
(* the requests of one caller: every service process keeps the caller's     *)
(* session context and the permissions of the role in memory, all share     *)
(* copies in Redis, concurrent requests share one resolution, and a circuit *)
(* keeps requests away from an auth service that fails.                     *)
(*                                                                         *)
(* The cache key is made of the caller alone, so that routes with different *)
(* times to live read each other's entries.                                 *)
(*                                                                         *)
(* Time is discrete.  What is told apart of a context is the age of its     *)
(* permissions, counted from the database's answer; a copy also holds how   *)
(* much time it has left.                                                   *)
(***************************************************************************)
EXTENDS Integers, FiniteSets

CONSTANTS
  Procs,        \* service processes
  Workers,      \* requests of the caller that may be under way
  Resolutions,  \* identities of resolutions (bounds how many run)
  Routes,       \* middleware instances
  TTL,          \* the time to live each of them gives a session context
  Longest,      \* the longest of these
  RoleTTL,      \* the time to live of the permissions of a role
  Threshold,    \* failures after which the circuit opens
  CircuitTTL,   \* how long it stays open
  MaxSince,     \* bound: an edit this long ago is no longer distinguished
  MaxSets,      \* bound: SETs of a kind under way; any other is lost
  NoRole,       \* the permissions of a caller without a role: none
  None

ASSUME ConstantsAssumption ==
  /\ TTL \in [Routes -> Nat \ {0}]
  /\ Longest \in Nat /\ \A route \in Routes : TTL[route] <= Longest
  /\ RoleTTL \in Nat \ {0} /\ Threshold \in Nat \ {0} /\ CircuitTTL \in Nat \ {0}
  /\ MaxSince \in Nat /\ MaxSets \in Nat
  /\ NoRole \notin Nat
  /\ None \notin Procs \cup Resolutions \cup Nat \cup {NoRole}

VARIABLES
  session,    \* authSessionCache of each process, at the caller's key
  role,       \* authorizationCache of each process, at the role's key
  redis,      \* the shared copies, and the SETs on their way
  inflight,   \* authContextResolutionInFlight of each process, at that key
  resolving,  \* the resolutions that run
  circuit,    \* the circuit of each process
  edit,       \* the role mutation under way, and the time since the last one
  pc,         \* where each request stands
  job         \* what each request knows

vars == <<session, role, redis, inflight, resolving, circuit, edit, pc, job>>

\* An age of permissions that a request is served (NoRole: it has none).
Context == Nat \cup {NoRole}

\* An entry of a cache: a context, and the time it has left.
Entry(ctx, time) == [ctx |-> ctx, left |-> time]

EntryType == [ctx : Context, left : Nat \ {0}]

Maybe(S) == S \cup {None}

-----------------------------------------------------------------------------
(* A request *)

Move(w, label, now) ==
  /\ pc' = [pc EXCEPT ![w] = label]
  /\ job' = [job EXCEPT ![w] = now]

\* The middleware sets the context and hands the request on (next): "served" is
\* that instant, before another step of an edit and before time passes.
Serve(w, ctx) == Move(w, "served", [job[w] EXCEPT !.entry = None, !.ctx = ctx])

Respond(w) == Move(w, "idle", None)

\* The entry in memory is used if there is one, else Redis is asked.
Request(w, p, route) ==
  LET new == [proc |-> p, route |-> route, entry |-> None, ctx |-> None, res |-> None]
  IN  /\ pc[w] = "idle"
      /\ \/ session[p] # None
            /\ Move(w, "served", [new EXCEPT !.ctx = session[p].ctx])
         \/ session[p] = None /\ Move(w, "redis", new)
      /\ UNCHANGED <<session, role, redis, inflight, resolving, circuit, edit>>

\* GET: the entry, or nothing when Redis is not ready.  The answer may be late.
GetSession(w) ==
  /\ pc[w] = "redis"
  /\ \E entry \in {redis.session, None} : Move(w, "got", [job[w] EXCEPT !.entry = entry])
  /\ UNCHANGED <<session, role, redis, inflight, resolving, circuit, edit>>

\* SETs are not awaited; one more than MaxSets is lost.
Sent(sets, entry) == IF Cardinality(sets) < MaxSets THEN sets \cup {entry} ELSE sets

\* Mutation: the entry is written to Redis again, for the route's full time.
CopySession_WritesBack(w) ==
  LET p == job[w].proc
      entry == Entry(job[w].entry.ctx, TTL[job[w].route])
  IN  /\ pc[w] = "got" /\ job[w].entry # None
      /\ session' = [session EXCEPT ![p] = entry]
      /\ redis' = [redis EXCEPT !.sessionSets = Sent(@, entry)]
      /\ Serve(w, entry.ctx)
      /\ UNCHANGED <<role, inflight, resolving, circuit, edit>>

\* An entry of Redis that has not expired is kept in memory for the route's
\* full time.
CopySession(w) ==
  LET p == job[w].proc
      entry == Entry(job[w].entry.ctx, TTL[job[w].route])
  IN  /\ pc[w] = "got" /\ job[w].entry # None
      /\ session' = [session EXCEPT ![p] = entry]
      /\ Serve(w, entry.ctx)
      /\ UNCHANGED <<role, redis, inflight, resolving, circuit, edit>>

Missed(w) == pc[w] = "got" /\ job[w].entry = None

\* The circuit is open: 503, or the request goes on unauthenticated.
Refuse(w) ==
  /\ Missed(w)
  /\ circuit[job[w].proc].open > 0
  /\ Respond(w)
  /\ UNCHANGED <<session, role, redis, inflight, resolving, circuit, edit>>

\* getOrCreateAuthContextResolution
Join(w) ==
  LET r == inflight[job[w].proc]
  IN  /\ Missed(w)
      /\ circuit[job[w].proc].open = 0
      /\ r # None
      /\ Move(w, "wait", [job[w] EXCEPT !.res = r])
      /\ UNCHANGED <<session, role, redis, inflight, resolving, circuit, edit>>

StartResolution(w) ==
  LET p == job[w].proc
  IN  /\ Missed(w)
      /\ circuit[p].open = 0
      /\ inflight[p] = None
      /\ \E r \in Resolutions :
           /\ resolving[r] = None
           /\ resolving' = [resolving EXCEPT ![r] =
                [proc |-> p, at |-> "fetch", got |-> None, outdated |-> FALSE]]
           /\ inflight' = [inflight EXCEPT ![p] = r]
           /\ Move(w, "wait", [job[w] EXCEPT !.res = r])
      /\ UNCHANGED <<session, role, redis, circuit, edit>>

\* The resolution failed: markAuthUpstreamUnavailable, once per request.
ResumeUnavailable(w) ==
  LET p == job[w].proc
      c == circuit[p]
  IN  /\ pc[w] = "resume" /\ job[w].ctx = None
      /\ \/ c.open > 0 /\ UNCHANGED circuit
         \/ /\ c.open = 0 /\ c.failures + 1 < Threshold
            /\ circuit' = [circuit EXCEPT ![p] = [failures |-> c.failures + 1, open |-> 0]]
         \/ /\ c.open = 0 /\ c.failures + 1 >= Threshold
            /\ circuit' = [circuit EXCEPT ![p] = [failures |-> 0, open |-> CircuitTTL]]
      /\ Respond(w)
      /\ UNCHANGED <<session, role, redis, inflight, resolving, edit>>

\* It succeeded: every request that waited for it writes both caches.
ResumeResolved(w) ==
  LET p == job[w].proc
      entry == Entry(job[w].ctx, TTL[job[w].route])
  IN  /\ pc[w] = "resume" /\ job[w].ctx # None
      /\ circuit' = [circuit EXCEPT ![p] = [failures |-> 0, open |-> 0]]
      /\ session' = [session EXCEPT ![p] = entry]
      /\ redis' = [redis EXCEPT !.sessionSets = Sent(@, entry)]
      /\ Serve(w, entry.ctx)
      /\ UNCHANGED <<role, inflight, resolving, edit>>

Done(w) ==
  /\ pc[w] = "served"
  /\ Respond(w)
  /\ UNCHANGED <<session, role, redis, inflight, resolving, circuit, edit>>

-----------------------------------------------------------------------------
(* A resolution *)

At(r, at) == resolving[r] # None /\ resolving[r].at = at

Reach(r, at, got) ==
  resolving' = [resolving EXCEPT ![r] = [@ EXCEPT !.at = at, !.got = got]]

Waits(w, r) == pc[w] = "wait" /\ job[w].res = r

\* Mutation: a resolution that has failed leaves its promise in the map.
Settle_KeepsFailure(r, ctx) ==
  /\ resolving' = [resolving EXCEPT ![r] = None]
  /\ inflight' = IF ctx = None THEN inflight
                 ELSE [inflight EXCEPT ![resolving[r].proc] = None]
  /\ pc' = [w \in Workers |-> IF Waits(w, r) THEN "resume" ELSE pc[w]]
  /\ job' = [w \in Workers |->
       IF Waits(w, r) THEN [job[w] EXCEPT !.res = None, !.ctx = ctx] ELSE job[w]]

\* The promise settles: finally takes whatever promise is at the key out of the
\* map, and the requests that wait for this one go on.  None is a failure.
Settle(r, ctx) ==
  /\ resolving' = [resolving EXCEPT ![r] = None]
  /\ inflight' = [inflight EXCEPT ![resolving[r].proc] = None]
  /\ pc' = [w \in Workers |-> IF Waits(w, r) THEN "resume" ELSE pc[w]]
  /\ job' = [w \in Workers |->
       IF Waits(w, r) THEN [job[w] EXCEPT !.res = None, !.ctx = ctx] ELSE job[w]]

\* fetchAuthSessionPayloadWithRetry: unavailable after the retries, no session,
\* or a session, whose organization is then read.
Fetch(r) ==
  /\ At(r, "fetch")
  /\ \/ \E outcome \in {None, NoRole} : Settle(r, outcome)
     \/ Reach(r, "role", None) /\ UNCHANGED <<inflight, pc, job>>
  /\ UNCHANGED <<session, role, redis, circuit, edit>>

\* resolveAuthorizationContext: no role, or the process' own copy of it.
RoleAtHand(r) ==
  LET own == role[resolving[r].proc]
  IN  /\ At(r, "role")
      /\ \/ Settle(r, NoRole)
         \/ own # None /\ Settle(r, own.ctx)
      /\ UNCHANGED <<session, role, redis, circuit, edit>>

GetRole(r) ==
  /\ At(r, "role")
  /\ role[resolving[r].proc] = None
  /\ \E entry \in {redis.role, None} : Reach(r, "got", entry)
  /\ UNCHANGED <<session, role, redis, inflight, circuit, edit, pc, job>>

CopyRole(r) ==
  LET got == resolving[r].got
  IN  /\ At(r, "got") /\ got # None
      /\ role' = [role EXCEPT ![resolving[r].proc] = Entry(got.ctx, RoleTTL)]
      /\ Settle(r, got.ctx)
      /\ UNCHANGED <<session, redis, circuit, edit>>

\* The rows of the role and its permissions.  Nothing is cached of a role without
\* a panel, and the caller has no permissions when the role is gone or the
\* database fails.
ReadRole(r) ==
  /\ At(r, "got") /\ resolving[r].got = None
  /\ \/ /\ role' = [role EXCEPT ![resolving[r].proc] = Entry(0, RoleTTL)]
        /\ redis' = [redis EXCEPT !.roleSets = Sent(@, Entry(0, RoleTTL))]
        /\ Settle(r, 0)
     \/ \E ctx \in {0, NoRole} : Settle(r, ctx) /\ UNCHANGED <<role, redis>>
  /\ UNCHANGED <<session, circuit, edit>>

-----------------------------------------------------------------------------
(* The process' maps are bounded: other callers' entries push this one out. *)

Evict(p) ==
  /\ \/ session' = [session EXCEPT ![p] = None] /\ UNCHANGED role
     \/ role' = [role EXCEPT ![p] = None] /\ UNCHANGED session
  /\ UNCHANGED <<redis, inflight, resolving, circuit, edit, pc, job>>

-----------------------------------------------------------------------------
(* Redis: a SET arrives.  One that does not arrive before its entry expires is
   as good as lost. *)

SetSession ==
  /\ \E entry \in redis.sessionSets :
       redis' = [redis EXCEPT !.sessionSets = @ \ {entry}, !.session = entry]
  /\ UNCHANGED <<session, role, inflight, resolving, circuit, edit, pc, job>>

SetRole ==
  /\ \E entry \in redis.roleSets :
       redis' = [redis EXCEPT !.roleSets = @ \ {entry}, !.role = entry]
  /\ UNCHANGED <<session, role, inflight, resolving, circuit, edit, pc, job>>

-----------------------------------------------------------------------------
(* Role mutations *)

NobodyServed == \A w \in Workers : pc[w] # "served"

\* A handler of process p commits a change of the role.
EditRole(p) ==
  /\ edit.at = "idle"
  /\ NobodyServed
  /\ edit' = [at |-> "local", proc |-> p, since |-> 0]
  /\ UNCHANGED <<session, role, redis, inflight, resolving, circuit, pc, job>>

Outdate(p) ==
  resolving' = [r \in Resolutions |->
    IF resolving[r] # None /\ resolving[r].proc = p
    THEN [resolving[r] EXCEPT !.outdated = TRUE] ELSE resolving[r]]

\* Mutation: the promises stay in the map.
Invalidate_KeepsPromises ==
  LET p == edit.proc
  IN  /\ edit.at = "local"
      /\ session' = [session EXCEPT ![p] = None]
      /\ role' = [role EXCEPT ![p] = None]
      /\ Outdate(p)
      /\ edit' = [edit EXCEPT !.at = "redis"]
      /\ UNCHANGED <<redis, inflight, circuit, pc, job>>

\* invalidateAuthMiddlewareCache: the process' maps are cleared at once.  What
\* its resolutions have read by now may be outdated, but they go on.
Invalidate ==
  LET p == edit.proc
  IN  /\ edit.at = "local"
      /\ session' = [session EXCEPT ![p] = None]
      /\ role' = [role EXCEPT ![p] = None]
      /\ inflight' = [inflight EXCEPT ![p] = None]
      /\ Outdate(p)
      /\ edit' = [edit EXCEPT !.at = "redis"]
      /\ UNCHANGED <<redis, circuit, pc, job>>

\* The keys in Redis are deleted, unless it is not ready.
Purge ==
  /\ edit.at = "redis"
  /\ NobodyServed
  /\ \/ redis' = [redis EXCEPT !.session = None, !.role = None]
     \/ UNCHANGED redis
  /\ edit' = [edit EXCEPT !.at = "idle", !.proc = None]
  /\ UNCHANGED <<session, role, inflight, resolving, circuit, pc, job>>

-----------------------------------------------------------------------------
(* Time *)

Older(ctx) == IF ctx = NoRole THEN NoRole ELSE ctx + 1

\* Mutation: an entry that has just expired is still used.
Aged_Late(entry) ==
  CASE entry = None -> None
    [] entry # None /\ entry.left = 0 -> None
    [] OTHER -> Entry(Older(entry.ctx), entry.left - 1)

\* An entry that has no time left is dropped by whoever reads it.
Aged(entry) ==
  CASE entry = None -> None
    [] entry # None /\ entry.left = 1 -> None
    [] OTHER -> Entry(Older(entry.ctx), entry.left - 1)

AgedSets(sets) == {Aged(entry) : entry \in sets} \ {None}

\* A request goes on before any timer fires (microtasks) once its resolution
\* has settled.
Tick ==
  /\ NobodyServed
  /\ \A w \in Workers : pc[w] # "resume"
  /\ session' = [p \in Procs |-> Aged(session[p])]
  /\ role' = [p \in Procs |-> Aged(role[p])]
  /\ redis' = [session |-> Aged(redis.session), role |-> Aged(redis.role),
               sessionSets |-> AgedSets(redis.sessionSets),
               roleSets |-> AgedSets(redis.roleSets)]
  /\ resolving' = [r \in Resolutions |->
       IF At(r, "got") THEN [resolving[r] EXCEPT !.got = Aged(@)] ELSE resolving[r]]
  /\ circuit' = [p \in Procs |->
       [circuit[p] EXCEPT !.open = IF @ = 0 THEN 0 ELSE @ - 1]]
  /\ edit' = [edit EXCEPT !.since = IF @ = MaxSince THEN @ ELSE @ + 1]
  /\ job' = [w \in Workers |->
       IF pc[w] = "got" THEN [job[w] EXCEPT !.entry = Aged(@)] ELSE job[w]]
  /\ UNCHANGED <<inflight, pc>>

-----------------------------------------------------------------------------
Init ==
  /\ session = [p \in Procs |-> None]
  /\ role = [p \in Procs |-> None]
  /\ redis = [session |-> None, role |-> None, sessionSets |-> {}, roleSets |-> {}]
  /\ inflight = [p \in Procs |-> None]
  /\ resolving = [r \in Resolutions |-> None]
  /\ circuit = [p \in Procs |-> [failures |-> 0, open |-> 0]]
  /\ edit = [at |-> "idle", proc |-> None, since |-> MaxSince]
  /\ pc = [w \in Workers |-> "idle"]
  /\ job = [w \in Workers |-> None]

Continue(w) ==
  \/ GetSession(w)
  \/ CopySession(w)
  \/ Refuse(w)
  \/ Join(w)
  \/ StartResolution(w)
  \/ ResumeUnavailable(w)
  \/ ResumeResolved(w)
  \/ Done(w)

Resolve(r) ==
  \/ Fetch(r)
  \/ RoleAtHand(r)
  \/ GetRole(r)
  \/ CopyRole(r)
  \/ ReadRole(r)

Next ==
  \/ \E w \in Workers, p \in Procs, route \in Routes : Request(w, p, route)
  \/ \E w \in Workers : Continue(w)
  \/ \E r \in Resolutions : Resolve(r)
  \/ \E p \in Procs : Evict(p)
  \/ SetSession
  \/ SetRole
  \/ \E p \in Procs : EditRole(p)
  \/ Invalidate
  \/ Purge
  \/ Tick

Spec == Init /\ [][Next]_vars

\* Calls have time-outs and the event loop goes round; nobody has to call.
FairSpec ==
  /\ Spec
  /\ \A w \in Workers : WF_vars(Continue(w))
  /\ \A r \in Resolutions : WF_vars(Resolve(r))

-----------------------------------------------------------------------------
(* Properties *)

Labels == {"idle", "redis", "got", "wait", "resume", "served"}

Job(entries, contexts, awaited) ==
  [proc : Procs, route : Routes, entry : entries, ctx : contexts, res : awaited]

AnyJob == Maybe(Job(Maybe(EntryType), Maybe(Context), Maybe(Resolutions)))

JobType(label) ==
  CASE label = "idle"   -> {None}
    [] label = "redis"  -> Job({None}, {None}, {None})
    [] label = "got"    -> Job(Maybe(EntryType), {None}, {None})
    [] label = "wait"   -> Job({None}, {None}, Resolutions)
    [] label = "resume" -> Job({None}, Maybe(Context), {None})
    [] label = "served" -> Job({None}, Context, {None})

ResolutionType ==
  [proc : Procs, at : {"fetch", "role", "got"}, got : Maybe(EntryType), outdated : BOOLEAN]

ASSUME NoneAssumption == None \notin EntryType \cup ResolutionType

\* The types of the variables.
TypeOK ==
  /\ session \in [Procs -> Maybe(EntryType)]
  /\ role \in [Procs -> Maybe(EntryType)]
  /\ redis \in [session : Maybe(EntryType), role : Maybe(EntryType),
                sessionSets : SUBSET EntryType, roleSets : SUBSET EntryType]
  /\ inflight \in [Procs -> Maybe(Resolutions)]
  /\ resolving \in [Resolutions -> Maybe(ResolutionType)]
  /\ circuit \in [Procs -> [failures : Nat, open : Nat]]
  /\ edit \in [at : {"idle", "local", "redis"}, proc : Maybe(Procs), since : Nat]
  /\ (edit.at = "local") => (edit.proc \in Procs)
  /\ pc \in [Workers -> Labels]
  /\ job \in [Workers -> AnyJob]
  /\ \A w \in Workers : job[w] \in JobType(pc[w])

\* Through four copies (the role in Redis and in memory, the context in Redis
\* and in memory), each made before the one it is made from ran out, no request
\* is served permissions that the database gave longer ago than the four times
\* to live together allow, whatever routes, processes and SETs overtake.
FreshEnough ==
  \A w \in Workers :
    pc[w] = "served" /\ job[w].ctx # NoRole
      => job[w].ctx + 4 <= 2 * RoleTTL + 2 * Longest

\* After a role mutation, no request of that process joins a resolution that may
\* have read the role before it: the map only ever holds a resolution that runs,
\* in that very process, and began after the last invalidation.
OnlyCurrentJoined ==
  \A p \in Procs : inflight[p] # None =>
    LET r == resolving[inflight[p]]
    IN  r # None /\ r.proc = p /\ ~ r.outdated

\* No request waits for ever for a resolution that another one began, whatever
\* is cleared, replaced or settles in the meantime.
RequestsEnd == \A w \in Workers : []<>(pc[w] \in {"idle", "served"})

\* "Keep this short so role-permission edits affect active users quickly" (of the
\* one second the RBAC routes keep contexts for): a route serves permissions from
\* before an edit that has ended no longer than its own time to live and the
\* role's allow.
EditsTakeEffect ==
  \A w \in Workers :
    /\ pc[w] = "served" /\ job[w].ctx # NoRole
    /\ edit.at = "idle" /\ edit.since < job[w].ctx
    => edit.since < 2 * RoleTTL + 2 * TTL[job[w].route]

=============================================================================
