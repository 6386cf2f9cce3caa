---------------------------- MODULE AuthCacheProofs ----------------------------
(* Proofs about AuthCache: its type invariant, that only current resolutions  *)
(* are joined, and how old the permissions of a served request can be.        *)
EXTENDS AuthCache, TLAPS

-----------------------------------------------------------------------------
(* Types *)

\* What the type invariant says of requests, of resolutions, and of the rest.
JobsOK ==
  /\ pc \in [Workers -> Labels]
  /\ job \in [Workers -> AnyJob]
  /\ \A w \in Workers : job[w] \in JobType(pc[w])

CachesOK ==
  /\ session \in [Procs -> Maybe(EntryType)]
  /\ role \in [Procs -> Maybe(EntryType)]
  /\ redis \in [session : Maybe(EntryType), role : Maybe(EntryType),
                sessionSets : SUBSET EntryType, roleSets : SUBSET EntryType]

ResolutionsOK ==
  /\ inflight \in [Procs -> Maybe(Resolutions)]
  /\ resolving \in [Resolutions -> Maybe(ResolutionType)]

RestOK ==
  /\ circuit \in [Procs -> [failures : Nat, open : Nat]]
  /\ edit \in [at : {"idle", "local", "redis"}, proc : Maybe(Procs), since : Nat]
  /\ (edit.at = "local") => (edit.proc \in Procs)

LEMMA TypeParts ==
  /\ TypeOK <=> JobsOK /\ CachesOK /\ ResolutionsOK /\ RestOK
  /\ TypeOK' <=> JobsOK' /\ CachesOK' /\ ResolutionsOK' /\ RestOK'
BY DEF TypeOK, JobsOK, CachesOK, ResolutionsOK, RestOK

\* Every kind of job is a job.
LEMMA JobTypes == \A label \in Labels : JobType(label) \subseteq AnyJob
BY DEF Labels, JobType, AnyJob, Job, Maybe

\* A request that moves on with a job of its new label leaves the jobs typed.
LEMMA MoveTyped ==
  ASSUME JobsOK, NEW w \in Workers, NEW label \in Labels, NEW now \in JobType(label),
         Move(w, label, now)
  PROVE  JobsOK'
<1>1. now \in AnyJob
  BY JobTypes
<1>2. pc' \in [Workers -> Labels] /\ job' \in [Workers -> AnyJob]
  BY <1>1 DEF JobsOK, Move
<1>3. ASSUME NEW v \in Workers PROVE job'[v] \in JobType(pc'[v])
  <2>1. CASE v = w
    BY <2>1 DEF JobsOK, Move
  <2>2. CASE v # w
    BY <2>2 DEF JobsOK, Move
  <2> QED BY <2>1, <2>2
<1> QED BY <1>2, <1>3 DEF JobsOK

\* So do the requests that a settled resolution wakes up.
LEMMA SettleTyped ==
  ASSUME JobsOK, ResolutionsOK, NEW r \in Resolutions, NEW ctx \in Maybe(Context),
         resolving[r] # None, Settle(r, ctx)
  PROVE  JobsOK' /\ ResolutionsOK'
<1>1. resolving[r].proc \in Procs
  BY DEF ResolutionsOK, ResolutionType, Maybe
<1>2. ResolutionsOK'
  BY <1>1 DEF ResolutionsOK, Settle, Maybe
<1>3. ASSUME NEW w \in Workers
      PROVE  /\ pc'[w] \in Labels /\ job'[w] \in AnyJob
             /\ job'[w] \in JobType(pc'[w])
  <2>1. CASE Waits(w, r)
    <3>1. pc'[w] = "resume" /\ job'[w] = [job[w] EXCEPT !.res = None, !.ctx = ctx]
      BY <2>1 DEF Settle
    <3>2. job[w] \in Job({None}, {None}, Resolutions)
      BY <2>1 DEF JobsOK, JobType, Waits
    <3>3. job'[w] \in Job({None}, Maybe(Context), {None})
      BY <3>1, <3>2 DEF Job
    <3>4. job'[w] \in JobType("resume") /\ "resume" \in Labels
      BY <3>3 DEF JobType, Labels
    <3> QED BY <3>1, <3>4, JobTypes
  <2>2. CASE ~ Waits(w, r)
    BY <2>2 DEF Settle, JobsOK
  <2> QED BY <2>1, <2>2
<1>4. pc' \in [Workers -> Labels] /\ job' \in [Workers -> AnyJob]
  BY <1>3 DEF Settle
<1> QED BY <1>2, <1>3, <1>4 DEF JobsOK

LEMMA EntryTyped ==
  ASSUME NEW ctx \in Context, NEW time \in Nat \ {0} PROVE Entry(ctx, time) \in EntryType
BY DEF Entry, EntryType

LEMMA SentTyped ==
  ASSUME NEW sets \in SUBSET EntryType, NEW entry \in EntryType
  PROVE  Sent(sets, entry) \in SUBSET EntryType
BY DEF Sent

\* Time takes one from what an entry has left, and drops it when none is left.
LEMMA AgedTyped ==
  ASSUME NEW entry \in Maybe(EntryType)
  PROVE  /\ Aged(entry) \in Maybe(EntryType)
         /\ Aged(entry) # None =>
              /\ entry \in EntryType
              /\ Aged(entry).left = entry.left - 1
              /\ entry.ctx = NoRole => Aged(entry).ctx = NoRole
              /\ entry.ctx # NoRole => entry.ctx \in Nat /\ Aged(entry).ctx = entry.ctx + 1
<1>1. CASE entry = None
  BY <1>1 DEF Aged, Maybe
<1>2. CASE entry # None
  <2>1. entry \in EntryType /\ entry.left \in Nat /\ entry.left # 0 /\ entry.ctx \in Context
    BY <1>2 DEF Maybe, EntryType
  <2>2. CASE entry.left = 1
    BY <1>2, <2>2 DEF Aged, Maybe
  <2>3. CASE entry.left # 1
    <3>1. Aged(entry) = Entry(Older(entry.ctx), entry.left - 1)
      BY <1>2, <2>3 DEF Aged
    <3>2. Older(entry.ctx) \in Context /\ entry.left - 1 \in Nat \ {0}
      BY <2>1, <2>3 DEF Older, Context
    <3>3. Aged(entry).left = entry.left - 1 /\ Aged(entry).ctx = Older(entry.ctx)
      BY <3>1 DEF Entry
    <3>4. Aged(entry) \in EntryType
      BY <3>1, <3>2, EntryTyped
    <3> QED BY <2>1, <3>3, <3>4 DEF Older, Context, Maybe
  <2> QED BY <2>2, <2>3
<1> QED BY <1>1, <1>2

\* What a request knows, by where it stands.
LEMMA Known ==
  ASSUME TypeOK, NEW w \in Workers, pc[w] # "idle"
  PROVE  /\ job[w] \in JobType(pc[w])
         /\ job[w].proc \in Procs /\ job[w].route \in Routes
         /\ TTL[job[w].route] \in Nat \ {0}
<1>1. job[w] \in JobType(pc[w]) /\ pc[w] \in Labels
  BY DEF TypeOK
<1>2. job[w].proc \in Procs /\ job[w].route \in Routes
  BY <1>1 DEF JobType, Labels, Job
<1> QED BY <1>1, <1>2, ConstantsAssumption

\* The entries that time leaves of the SETs under way are entries.
LEMMA AgedSetsTyped ==
  ASSUME NEW sets \in SUBSET EntryType PROVE AgedSets(sets) \in SUBSET EntryType
<1>1. ASSUME NEW e \in AgedSets(sets) PROVE e \in EntryType
  <2>1. PICK entry \in sets : e = Aged(entry)
    BY DEF AgedSets
  <2>2. e # None
    BY DEF AgedSets
  <2> QED BY <2>1, <2>2, AgedTyped DEF Maybe
<1> QED BY <1>1

LEMMA TypeInit == Init => TypeOK
<1> SUFFICES ASSUME Init PROVE TypeOK
  OBVIOUS
<1>1. JobsOK
  BY DEF Init, JobsOK, Labels, JobType, AnyJob, Maybe
<1>2. CachesOK
  BY DEF Init, CachesOK, Maybe
<1>3. ResolutionsOK
  BY DEF Init, ResolutionsOK, Maybe
<1>4. RestOK
  BY ConstantsAssumption DEF Init, RestOK, Maybe
<1> QED BY <1>1, <1>2, <1>3, <1>4, TypeParts

\* The steps of a request preserve the types.
LEMMA TypeRequest ==
  ASSUME TypeOK, NEW w \in Workers, NEW p \in Procs, NEW route \in Routes, Request(w, p, route)
  PROVE  TypeOK'
<1> DEFINE new == [proc |-> p, route |-> route, entry |-> None, ctx |-> None, res |-> None]
<1>0. JobsOK /\ CachesOK /\ ResolutionsOK /\ RestOK
  BY TypeParts
<1>1. CachesOK' /\ ResolutionsOK' /\ RestOK'
  BY <1>0 DEF Request, CachesOK, ResolutionsOK, RestOK
<1>2. CASE session[p] # None /\ Move(w, "served", [new EXCEPT !.ctx = session[p].ctx])
  <2>1. session[p].ctx \in Context
    BY <1>0, <1>2 DEF CachesOK, Maybe, EntryType
  <2>2. [new EXCEPT !.ctx = session[p].ctx] \in JobType("served")
    BY <2>1 DEF JobType, Job
  <2> QED BY <1>0, <1>1, <1>2, <2>2, MoveTyped, TypeParts DEF Labels
<1>3. CASE Move(w, "redis", new)
  <2>1. new \in JobType("redis")
    BY DEF JobType, Job
  <2> QED BY <1>0, <1>1, <1>3, <2>1, MoveTyped, TypeParts DEF Labels
<1> QED BY <1>2, <1>3 DEF Request

LEMMA TypeContinue ==
  ASSUME TypeOK, NEW w \in Workers, Continue(w) PROVE TypeOK'
<1>0. JobsOK /\ CachesOK /\ ResolutionsOK /\ RestOK
  BY TypeParts
<1>1. CASE GetSession(w)
  <2>1. PICK entry \in {redis.session, None} :
           Move(w, "got", [job[w] EXCEPT !.entry = entry])
    BY <1>1 DEF GetSession
  <2>2. entry \in Maybe(EntryType)
    BY <1>0 DEF CachesOK, Maybe
  <2>3. job[w] \in Job({None}, {None}, {None})
    BY <1>1, Known DEF GetSession, JobType
  <2>4. [job[w] EXCEPT !.entry = entry] \in JobType("got")
    BY <2>2, <2>3 DEF JobType, Job
  <2>5. CachesOK' /\ ResolutionsOK' /\ RestOK'
    BY <1>0, <1>1 DEF GetSession, CachesOK, ResolutionsOK, RestOK
  <2> QED BY <1>0, <2>1, <2>4, <2>5, MoveTyped, TypeParts DEF Labels
<1>2. CASE CopySession(w)
  <2> DEFINE entry == Entry(job[w].entry.ctx, TTL[job[w].route])
  <2>1. job[w] \in Job(Maybe(EntryType), {None}, {None}) /\ job[w].entry # None
    BY <1>2, Known DEF CopySession, JobType
  <2>2. job[w].proc \in Procs /\ job[w].entry.ctx \in Context
    BY <2>1 DEF Job, Maybe, EntryType
  <2>3. entry \in EntryType /\ entry.ctx = job[w].entry.ctx
    BY <1>2, <2>2, Known, EntryTyped DEF CopySession, Entry
  <2>4. [job[w] EXCEPT !.entry = None, !.ctx = entry.ctx] \in JobType("served")
    BY <2>1, <2>2, <2>3 DEF JobType, Job
  <2>5. CachesOK'
    BY <1>0, <1>2, <2>2, <2>3 DEF CopySession, CachesOK, Maybe
  <2>6. ResolutionsOK' /\ RestOK'
    BY <1>0, <1>2 DEF CopySession, ResolutionsOK, RestOK
  <2>7. Move(w, "served", [job[w] EXCEPT !.entry = None, !.ctx = entry.ctx])
    BY <1>2 DEF CopySession, Serve
  <2> QED BY <1>0, <2>4, <2>5, <2>6, <2>7, MoveTyped, TypeParts DEF Labels
<1>3. CASE Refuse(w)
  <2>1. CachesOK' /\ ResolutionsOK' /\ RestOK'
    BY <1>0, <1>3 DEF Refuse, CachesOK, ResolutionsOK, RestOK
  <2>2. Move(w, "idle", None) /\ None \in JobType("idle")
    BY <1>3 DEF Refuse, Respond, JobType
  <2> QED BY <1>0, <2>1, <2>2, MoveTyped, TypeParts DEF Labels
<1>4. CASE Join(w)
  <2> DEFINE r == inflight[job[w].proc]
  <2>1. job[w] \in Job(Maybe(EntryType), {None}, {None}) /\ job[w].entry = None
    BY <1>4, Known DEF Join, Missed, JobType
  <2>2. job[w].proc \in Procs
    BY <2>1 DEF Job
  <2>3. r \in Resolutions
    BY <1>0, <1>4, <2>2 DEF Join, ResolutionsOK, Maybe
  <2>4. [job[w] EXCEPT !.res = r] \in JobType("wait")
    BY <2>1, <2>3 DEF JobType, Job
  <2>5. CachesOK' /\ ResolutionsOK' /\ RestOK'
    BY <1>0, <1>4 DEF Join, CachesOK, ResolutionsOK, RestOK
  <2> QED BY <1>0, <1>4, <2>4, <2>5, MoveTyped, TypeParts DEF Join, Labels
<1>5. CASE StartResolution(w)
  <2> DEFINE p == job[w].proc
  <2>1. job[w] \in Job(Maybe(EntryType), {None}, {None}) /\ job[w].entry = None
    BY <1>5, Known DEF StartResolution, Missed, JobType
  <2>2. p \in Procs
    BY <2>1 DEF Job
  <2>3. PICK r \in Resolutions :
           /\ resolving' = [resolving EXCEPT ![r] =
                [proc |-> p, at |-> "fetch", got |-> None, outdated |-> FALSE]]
           /\ inflight' = [inflight EXCEPT ![p] = r]
           /\ Move(w, "wait", [job[w] EXCEPT !.res = r])
    BY <1>5 DEF StartResolution
  <2>4. [job[w] EXCEPT !.res = r] \in JobType("wait")
    BY <2>1 DEF JobType, Job
  <2>5. [proc |-> p, at |-> "fetch", got |-> None, outdated |-> FALSE] \in ResolutionType
    BY <2>2 DEF ResolutionType, Maybe
  <2>6. ResolutionsOK'
    BY <1>0, <2>2, <2>3, <2>5 DEF ResolutionsOK, Maybe
  <2>7. CachesOK' /\ RestOK'
    BY <1>0, <1>5 DEF StartResolution, CachesOK, RestOK
  <2> QED BY <1>0, <2>3, <2>4, <2>6, <2>7, MoveTyped, TypeParts DEF Labels
<1>6. CASE ResumeUnavailable(w)
  <2> DEFINE p == job[w].proc
  <2>1. p \in Procs
    BY <1>6, Known DEF ResumeUnavailable
  <2>2. circuit[p] \in [failures : Nat, open : Nat]
    BY <1>0, <2>1 DEF RestOK
  <2>3. circuit' \in [Procs -> [failures : Nat, open : Nat]]
    BY <1>0, <1>6, <2>1, <2>2, ConstantsAssumption DEF ResumeUnavailable, RestOK
  <2>5. RestOK'
    BY <1>0, <1>6, <2>3 DEF ResumeUnavailable, RestOK
  <2>6. CachesOK' /\ ResolutionsOK'
    BY <1>0, <1>6 DEF ResumeUnavailable, CachesOK, ResolutionsOK
  <2>7. Move(w, "idle", None) /\ None \in JobType("idle")
    BY <1>6 DEF ResumeUnavailable, Respond, JobType
  <2> QED BY <1>0, <2>5, <2>6, <2>7, MoveTyped, TypeParts DEF Labels
<1>7. CASE ResumeResolved(w)
  <2> DEFINE p == job[w].proc
             entry == Entry(job[w].ctx, TTL[job[w].route])
  <2>1. job[w] \in Job({None}, Maybe(Context), {None}) /\ job[w].ctx # None
    BY <1>7, Known DEF ResumeResolved, JobType
  <2>2. p \in Procs /\ job[w].ctx \in Context
    BY <2>1 DEF Job, Maybe
  <2>3. entry \in EntryType /\ entry.ctx = job[w].ctx
    BY <1>7, <2>2, Known, EntryTyped DEF ResumeResolved, Entry
  <2>4. [job[w] EXCEPT !.entry = None, !.ctx = entry.ctx] \in JobType("served")
    BY <2>1, <2>2, <2>3 DEF JobType, Job
  <2>5. Sent(redis.sessionSets, entry) \in SUBSET EntryType
    BY <1>0, <2>3, SentTyped DEF CachesOK
  <2>6. CachesOK'
    BY <1>0, <1>7, <2>2, <2>3, <2>5 DEF ResumeResolved, CachesOK, Maybe
  <2>7. circuit' \in [Procs -> [failures : Nat, open : Nat]]
    BY <1>0, <1>7, <2>2 DEF ResumeResolved, RestOK
  <2>8. ResolutionsOK' /\ RestOK'
    BY <1>0, <1>7, <2>7 DEF ResumeResolved, ResolutionsOK, RestOK
  <2>9. Move(w, "served", [job[w] EXCEPT !.entry = None, !.ctx = entry.ctx])
    BY <1>7 DEF ResumeResolved, Serve
  <2> QED BY <1>0, <2>4, <2>6, <2>8, <2>9, MoveTyped, TypeParts DEF Labels
<1>8. CASE Done(w)
  <2>1. CachesOK' /\ ResolutionsOK' /\ RestOK'
    BY <1>0, <1>8 DEF Done, CachesOK, ResolutionsOK, RestOK
  <2>2. Move(w, "idle", None) /\ None \in JobType("idle")
    BY <1>8 DEF Done, Respond, JobType
  <2> QED BY <1>0, <2>1, <2>2, MoveTyped, TypeParts DEF Labels
<1> QED
  BY <1>1, <1>2, <1>3, <1>4, <1>5, <1>6, <1>7, <1>8 DEF Continue

\* The steps of a resolution preserve the types.
LEMMA TypeResolve ==
  ASSUME TypeOK, NEW r \in Resolutions, Resolve(r) PROVE TypeOK'
<1> DEFINE p == resolving[r].proc
<1>0. JobsOK /\ CachesOK /\ ResolutionsOK /\ RestOK
  BY TypeParts
<1>a. resolving[r] # None
  BY DEF Resolve, Fetch, RoleAtHand, GetRole, CopyRole, ReadRole, At
<1>b. resolving[r] \in ResolutionType /\ p \in Procs /\ resolving[r].got \in Maybe(EntryType)
  BY <1>0, <1>a DEF ResolutionsOK, ResolutionType, Maybe
<1>c. /\ NoRole \in Maybe(Context) /\ None \in Maybe(Context)
      /\ \A e \in EntryType : e.ctx \in Maybe(Context)
  BY DEF Maybe, Context, EntryType
<1>d. RestOK'
  BY <1>0 DEF Resolve, Fetch, RoleAtHand, GetRole, CopyRole, ReadRole, RestOK
<1>e. ASSUME NEW ctx \in Maybe(Context), Settle(r, ctx), CachesOK' PROVE TypeOK'
  BY <1>0, <1>a, <1>d, <1>e, SettleTyped, TypeParts
<1>f. ASSUME NEW at \in {"role", "got"}, NEW got \in Maybe(EntryType), Reach(r, at, got),
             UNCHANGED <<inflight, pc, job>>, CachesOK'
      PROVE  TypeOK'
  <2>1. [resolving[r] EXCEPT !.at = at, !.got = got] \in ResolutionType
    BY <1>b, <1>f DEF ResolutionType
  <2>2. ResolutionsOK' /\ JobsOK'
    BY <1>0, <1>f, <2>1 DEF Reach, ResolutionsOK, JobsOK, Maybe
  <2> QED BY <1>d, <1>f, <2>2, TypeParts
<1>1. CASE Fetch(r)
  <2>1. CachesOK'
    BY <1>0, <1>1 DEF Fetch, CachesOK
  <2>2. CASE \E outcome \in {None, NoRole} : Settle(r, outcome)
    BY <1>c, <1>e, <2>1, <2>2
  <2>3. CASE Reach(r, "role", None) /\ UNCHANGED <<inflight, pc, job>>
    BY <1>f, <2>1, <2>3 DEF Maybe
  <2> QED BY <1>1, <2>2, <2>3 DEF Fetch
<1>2. CASE RoleAtHand(r)
  <2>1. CachesOK'
    BY <1>0, <1>2 DEF RoleAtHand, CachesOK
  <2>2. CASE Settle(r, NoRole)
    BY <1>c, <1>e, <2>1, <2>2
  <2>3. CASE role[p] # None /\ Settle(r, role[p].ctx)
    <3>1. role[p] \in EntryType
      BY <1>0, <1>b, <2>3 DEF CachesOK, Maybe
    <3> QED BY <1>c, <1>e, <2>1, <2>3, <3>1
  <2> QED BY <1>2, <2>2, <2>3 DEF RoleAtHand
<1>3. CASE GetRole(r)
  <2>1. CachesOK'
    BY <1>0, <1>3 DEF GetRole, CachesOK
  <2>2. PICK entry \in {redis.role, None} : Reach(r, "got", entry)
    BY <1>3 DEF GetRole
  <2>3. entry \in Maybe(EntryType)
    BY <1>0, <2>2 DEF CachesOK, Maybe
  <2> QED BY <1>3, <1>f, <2>1, <2>2, <2>3 DEF GetRole
<1>4. CASE CopyRole(r)
  <2> DEFINE got == resolving[r].got
  <2>1. got \in EntryType
    BY <1>4, <1>b DEF CopyRole, Maybe
  <2>2. Entry(got.ctx, RoleTTL) \in EntryType
    BY <2>1, EntryTyped, ConstantsAssumption DEF EntryType
  <2>3. CachesOK'
    BY <1>0, <1>4, <1>b, <2>2 DEF CopyRole, CachesOK, Maybe
  <2> QED BY <1>4, <1>c, <1>e, <2>1, <2>3 DEF CopyRole
<1>5. CASE ReadRole(r)
  <2>1. CASE /\ role' = [role EXCEPT ![p] = Entry(0, RoleTTL)]
             /\ redis' = [redis EXCEPT !.roleSets = Sent(@, Entry(0, RoleTTL))]
             /\ Settle(r, 0)
    <3>1. Entry(0, RoleTTL) \in EntryType /\ 0 \in Maybe(Context)
      BY EntryTyped, ConstantsAssumption DEF Context, Maybe
    <3>2. Sent(redis.roleSets, Entry(0, RoleTTL)) \in SUBSET EntryType
      BY <1>0, <3>1, SentTyped DEF CachesOK
    <3>3. CachesOK'
      BY <1>0, <1>5, <1>b, <2>1, <3>1, <3>2 DEF ReadRole, CachesOK, Maybe
    <3> QED BY <1>e, <2>1, <3>1, <3>3
  <2>2. CASE \E ctx \in {0, NoRole} : Settle(r, ctx) /\ UNCHANGED <<role, redis>>
    <3>1. CachesOK'
      BY <1>0, <1>5, <2>2 DEF ReadRole, CachesOK
    <3>2. {0, NoRole} \subseteq Maybe(Context)
      BY DEF Maybe, Context
    <3> QED BY <1>e, <2>2, <3>1, <3>2
  <2> QED BY <1>5, <2>1, <2>2 DEF ReadRole
<1> QED
  BY <1>1, <1>2, <1>3, <1>4, <1>5 DEF Resolve

\* So do the steps of Redis, of role mutations, and of time.
LEMMA TypeOthers ==
  ASSUME TypeOK,
         \/ SetSession \/ SetRole \/ Invalidate \/ Purge \/ Tick
         \/ \E p \in Procs : EditRole(p) \/ Evict(p)
  PROVE  TypeOK'
<1>0. JobsOK /\ CachesOK /\ ResolutionsOK /\ RestOK
  BY TypeParts
<1>1. CASE SetSession
  <2>1. CachesOK'
    BY <1>0, <1>1 DEF SetSession, CachesOK, Maybe
  <2>2. JobsOK' /\ ResolutionsOK' /\ RestOK'
    BY <1>0, <1>1 DEF SetSession, JobsOK, ResolutionsOK, RestOK
  <2> QED BY <2>1, <2>2, TypeParts
<1>2. CASE SetRole
  <2>1. CachesOK'
    BY <1>0, <1>2 DEF SetRole, CachesOK, Maybe
  <2>2. JobsOK' /\ ResolutionsOK' /\ RestOK'
    BY <1>0, <1>2 DEF SetRole, JobsOK, ResolutionsOK, RestOK
  <2> QED BY <2>1, <2>2, TypeParts
<1>3. CASE Invalidate
  <2>1. CachesOK' /\ JobsOK' /\ RestOK'
    BY <1>0, <1>3 DEF Invalidate, CachesOK, JobsOK, RestOK, Maybe
  <2>2. ASSUME NEW r \in Resolutions PROVE resolving'[r] \in Maybe(ResolutionType)
    BY <1>0, <1>3 DEF Invalidate, Outdate, ResolutionsOK, ResolutionType, Maybe
  <2>3. resolving' \in [Resolutions -> Maybe(ResolutionType)]
    BY <1>3, <2>2 DEF Invalidate, Outdate
  <2>4. ResolutionsOK'
    BY <1>0, <1>3, <2>3 DEF Invalidate, ResolutionsOK, Maybe
  <2> QED BY <2>1, <2>4, TypeParts
<1>4. CASE Purge
  <2>1. CachesOK' /\ RestOK'
    BY <1>0, <1>4 DEF Purge, CachesOK, RestOK, Maybe
  <2>2. JobsOK' /\ ResolutionsOK'
    BY <1>0, <1>4 DEF Purge, JobsOK, ResolutionsOK
  <2> QED BY <2>1, <2>2, TypeParts
<1>5. CASE Tick
  <2>1. ASSUME NEW p \in Procs
        PROVE  session'[p] \in Maybe(EntryType) /\ role'[p] \in Maybe(EntryType)
    BY <1>0, <1>5, AgedTyped DEF Tick, CachesOK
  <2>2. redis' \in [session : Maybe(EntryType), role : Maybe(EntryType),
                    sessionSets : SUBSET EntryType, roleSets : SUBSET EntryType]
    <3>1. /\ Aged(redis.session) \in Maybe(EntryType) /\ Aged(redis.role) \in Maybe(EntryType)
          /\ AgedSets(redis.sessionSets) \in SUBSET EntryType
          /\ AgedSets(redis.roleSets) \in SUBSET EntryType
      BY <1>0, AgedTyped, AgedSetsTyped DEF CachesOK
    <3> QED BY <1>5, <3>1 DEF Tick
  <2>3. CachesOK'
    BY <1>5, <2>1, <2>2 DEF Tick, CachesOK
  <2>4. ASSUME NEW r \in Resolutions PROVE resolving'[r] \in Maybe(ResolutionType)
    <3>1. CASE At(r, "got")
      <4>1. resolving[r] \in ResolutionType /\ resolving[r].got \in Maybe(EntryType)
        BY <1>0, <3>1 DEF ResolutionsOK, ResolutionType, At, Maybe
      <4>2. Aged(resolving[r].got) \in Maybe(EntryType)
        BY <4>1, AgedTyped
      <4>3. resolving'[r] = [resolving[r] EXCEPT !.got = Aged(resolving[r].got)]
        BY <1>5, <3>1 DEF Tick
      <4> QED BY <4>1, <4>2, <4>3 DEF ResolutionType, Maybe
    <3>2. CASE ~ At(r, "got")
      BY <1>0, <1>5, <3>2 DEF Tick, ResolutionsOK
    <3> QED BY <3>1, <3>2
  <2>5. ResolutionsOK'
    BY <1>0, <1>5, <2>4 DEF Tick, ResolutionsOK
  <2>6. ASSUME NEW w \in Workers
        PROVE  job'[w] \in JobType(pc'[w]) /\ job'[w] \in AnyJob
    <3>0. pc' = pc /\ pc[w] \in Labels
      BY <1>0, <1>5 DEF Tick, JobsOK
    <3>1. CASE pc[w] = "got"
      <4>1. job[w] \in Job(Maybe(EntryType), {None}, {None})
        BY <1>0, <3>1 DEF JobsOK, JobType
      <4>2. Aged(job[w].entry) \in Maybe(EntryType)
        BY <4>1, AgedTyped DEF Job
      <4>3. job'[w] = [job[w] EXCEPT !.entry = Aged(job[w].entry)]
        BY <1>5, <3>1 DEF Tick
      <4>4. job'[w] \in JobType("got")
        BY <4>1, <4>2, <4>3 DEF JobType, Job
      <4> QED BY <3>0, <3>1, <4>4, JobTypes
    <3>2. CASE pc[w] # "got"
      BY <1>0, <1>5, <3>0, <3>2 DEF Tick, JobsOK
    <3> QED BY <3>1, <3>2
  <2>7. JobsOK'
    BY <1>0, <1>5, <2>6 DEF Tick, JobsOK
  <2>8. RestOK'
    <3>1. ASSUME NEW p \in Procs PROVE circuit'[p] \in [failures : Nat, open : Nat]
      BY <1>0, <1>5 DEF Tick, RestOK
    <3>2. circuit' \in [Procs -> [failures : Nat, open : Nat]]
      BY <1>5, <3>1 DEF Tick
    <3>3. /\ edit' \in [at : {"idle", "local", "redis"}, proc : Maybe(Procs), since : Nat]
          /\ edit'.at = edit.at /\ edit'.proc = edit.proc
      BY <1>0, <1>5 DEF Tick, RestOK
    <3> QED BY <1>0, <3>2, <3>3 DEF RestOK
  <2> QED BY <2>3, <2>5, <2>7, <2>8, TypeParts
<1>6. CASE \E p \in Procs : EditRole(p)
  <2>1. RestOK'
    BY <1>0, <1>6 DEF EditRole, RestOK, Maybe
  <2>2. JobsOK' /\ CachesOK' /\ ResolutionsOK'
    BY <1>0, <1>6 DEF EditRole, JobsOK, CachesOK, ResolutionsOK
  <2> QED BY <2>1, <2>2, TypeParts
<1>7. CASE \E p \in Procs : Evict(p)
  <2>1. CachesOK'
    BY <1>0, <1>7 DEF Evict, CachesOK, Maybe
  <2>2. JobsOK' /\ ResolutionsOK' /\ RestOK'
    BY <1>0, <1>7 DEF Evict, JobsOK, ResolutionsOK, RestOK
  <2> QED BY <2>1, <2>2, TypeParts
<1> QED
  BY <1>1, <1>2, <1>3, <1>4, <1>5, <1>6, <1>7

LEMMA TypeStutter == ASSUME TypeOK, UNCHANGED vars PROVE TypeOK'
BY DEF vars, TypeOK

\* Every variable keeps its type: in particular a request that goes on knows a
\* context, or that there is none, and no entry is kept that has no time left.
THEOREM AuthTypes == Spec => []TypeOK
<1>1. TypeOK /\ [Next]_vars => TypeOK'
  BY TypeRequest, TypeContinue, TypeResolve, TypeOthers, TypeStutter DEF Next
<1> QED BY <1>1, TypeInit, PTL DEF Spec

-----------------------------------------------------------------------------
(* Only current resolutions are joined *)

\* No step puts an outdated resolution into the map, or leaves one there.
LEMMA JoinedStep ==
  ASSUME TypeOK, OnlyCurrentJoined, [Next]_vars PROVE OnlyCurrentJoined'
<1> SUFFICES ASSUME NEW p \in Procs, inflight'[p] # None
             PROVE  LET r == resolving'[inflight'[p]]
                    IN  r # None /\ r.proc = p /\ ~ r.outdated
  BY DEF OnlyCurrentJoined
<1> DEFINE Current(table, r) == table[r] # None /\ table[r].proc = p /\ ~ table[r].outdated
<1>0. /\ inflight \in [Procs -> Maybe(Resolutions)]
      /\ resolving \in [Resolutions -> Maybe(ResolutionType)]
      /\ inflight[p] # None => inflight[p] \in Resolutions /\ Current(resolving, inflight[p])
  BY DEF TypeOK, OnlyCurrentJoined, Maybe
<1>s. CASE UNCHANGED <<inflight, resolving>>
  BY <1>0, <1>s
<1>1. ASSUME NEW w \in Workers, StartResolution(w) PROVE Current(resolving', inflight'[p])
  <2> DEFINE q == job[w].proc
  <2>1. PICK r \in Resolutions :
           /\ resolving[r] = None
           /\ resolving' = [resolving EXCEPT ![r] =
                [proc |-> q, at |-> "fetch", got |-> None, outdated |-> FALSE]]
           /\ inflight' = [inflight EXCEPT ![q] = r]
    BY <1>1 DEF StartResolution
  <2>0. q \in Procs
    BY <1>1, Known DEF StartResolution, Missed
  <2>a. [proc |-> q, at |-> "fetch", got |-> None, outdated |-> FALSE] # None
    <3>1. [proc |-> q, at |-> "fetch", got |-> None, outdated |-> FALSE] \in ResolutionType
      BY <2>0 DEF ResolutionType, Maybe
    <3> QED BY <3>1, NoneAssumption
  <2>2. CASE p = q
    <3>1. /\ inflight'[p] = r
          /\ resolving'[r] =
               [proc |-> p, at |-> "fetch", got |-> None, outdated |-> FALSE]
      BY <1>0, <2>1, <2>2
    <3> QED BY <2>2, <2>a, <3>1
  <2>3. CASE p # q
    BY <1>0, <2>1, <2>3
  <2> QED BY <2>2, <2>3
<1>2. ASSUME NEW r \in Resolutions, NEW ctx, resolving[r] # None, Settle(r, ctx)
      PROVE  Current(resolving', inflight'[p])
  <2>1. resolving[r].proc # p
    BY <1>0, <1>2 DEF Settle
  <2>2. inflight'[p] = inflight[p] /\ inflight[p] # r
    BY <1>0, <1>2, <2>1 DEF Settle
  <2> QED BY <1>0, <1>2, <2>2 DEF Settle
<1>3. ASSUME NEW r \in Resolutions, NEW at \in {"role", "got"},
             NEW got \in Maybe(EntryType), resolving[r] # None, Reach(r, at, got),
             UNCHANGED inflight
      PROVE  Current(resolving', inflight'[p])
  <2>1. CASE inflight[p] = r
    <3>1. resolving'[r] = [resolving[r] EXCEPT !.at = at, !.got = got]
      BY <1>0, <1>3 DEF Reach
    <3>2. resolving[r] \in ResolutionType /\ resolving'[r] \in ResolutionType
      BY <1>0, <1>3, <3>1 DEF Maybe, ResolutionType
    <3> QED BY <1>0, <1>3, <2>1, <3>1, <3>2, NoneAssumption DEF ResolutionType
  <2>2. CASE inflight[p] # r
    BY <1>0, <1>3, <2>2 DEF Reach
  <2> QED BY <2>1, <2>2
<1>4. CASE Invalidate
  <2>1. p # edit.proc /\ inflight'[p] = inflight[p]
    BY <1>0, <1>4 DEF Invalidate
  <2> QED BY <1>0, <1>4, <2>1 DEF Invalidate, Outdate
<1>5. CASE Tick
  <2>1. inflight'[p] = inflight[p]
    BY <1>5 DEF Tick
  <2>2. resolving[inflight[p]] \in ResolutionType
    BY <1>0, <2>1 DEF Maybe
  <2>3. \/ resolving'[inflight[p]] = resolving[inflight[p]]
        \/ resolving'[inflight[p]] =
             [resolving[inflight[p]] EXCEPT !.got = Aged(resolving[inflight[p]].got)]
    BY <1>0, <1>5, <2>1 DEF Tick
  <2>4. resolving'[inflight[p]] \in ResolutionType
    BY <2>2, <2>3, AgedTyped DEF ResolutionType
  <2> QED BY <1>0, <2>1, <2>2, <2>3, <2>4, NoneAssumption DEF ResolutionType
<1>6. ASSUME NEW w \in Workers, Continue(w) PROVE Current(resolving', inflight'[p])
  <2>1. StartResolution(w) \/ UNCHANGED <<inflight, resolving>>
    BY <1>6 DEF Continue, GetSession, CopySession, Refuse, Join, ResumeUnavailable,
                ResumeResolved, Done
  <2> QED BY <1>1, <1>s, <2>1
<1>7. ASSUME NEW r \in Resolutions, Resolve(r) PROVE Current(resolving', inflight'[p])
  <2>1. resolving[r] # None
    BY <1>7 DEF Resolve, Fetch, RoleAtHand, GetRole, CopyRole, ReadRole, At
  <2>2. \/ \E ctx : Settle(r, ctx)
        \/ \E at \in {"role", "got"}, got \in Maybe(EntryType) :
             Reach(r, at, got) /\ UNCHANGED inflight
    BY <1>7 DEF Resolve, Fetch, RoleAtHand, GetRole, CopyRole, ReadRole, Maybe, TypeOK
  <2> QED BY <1>2, <1>3, <2>1, <2>2
<1>8. CASE \/ SetSession \/ SetRole \/ Purge \/ UNCHANGED vars
           \/ \E q \in Procs : EditRole(q) \/ Evict(q)
           \/ \E w \in Workers, q \in Procs, route \in Routes : Request(w, q, route)
  <2>1. UNCHANGED <<inflight, resolving>>
    BY <1>8 DEF SetSession, SetRole, Purge, EditRole, Evict, Request, vars
  <2> QED BY <1>s, <2>1
<1> QED
  BY <1>4, <1>5, <1>6, <1>7, <1>8 DEF Next

\* No request ever joins a resolution that may have read the role before the
\* last mutation of its process: single flight never serves what an
\* invalidation was to forget to a request that comes after it.
THEOREM AuthJoinsCurrent == Spec => []OnlyCurrentJoined
<1>1. Init => OnlyCurrentJoined
  BY DEF Init, OnlyCurrentJoined
<1>2. TypeOK /\ OnlyCurrentJoined /\ [Next]_vars => OnlyCurrentJoined'
  BY JoinedStep
<1> QED BY <1>1, <1>2, AuthTypes, PTL DEF Spec

-----------------------------------------------------------------------------
(* How old permissions can be *)

\* An entry is within n: the age of its permissions and the time it has left
\* come to n at the most, now and until it expires.
Within(entry, n) == entry # None /\ entry.ctx # NoRole => entry.ctx + entry.left <= n

AtMost(ctx, n) == ctx # None /\ ctx # NoRole => ctx <= n

\* Each of the four copies adds its time to live, less the one unit that the
\* entry it is made from must have had left.
ProcAges(p) ==
  Within(role[p], 2 * RoleTTL - 1) /\ Within(session[p], 2 * RoleTTL + 2 * Longest - 3)

RedisAges ==
  /\ Within(redis.role, RoleTTL) /\ \A e \in redis.roleSets : Within(e, RoleTTL)
  /\ Within(redis.session, 2 * RoleTTL + Longest - 2)
  /\ \A e \in redis.sessionSets : Within(e, 2 * RoleTTL + Longest - 2)

ResolutionAges(r) == At(r, "got") => Within(resolving[r].got, RoleTTL)

JobAges(w) ==
  /\ pc[w] = "got" => Within(job[w].entry, 2 * RoleTTL + Longest - 2)
  /\ pc[w] = "resume" => AtMost(job[w].ctx, 2 * RoleTTL - 2)
  /\ pc[w] = "served" => AtMost(job[w].ctx, 2 * RoleTTL + 2 * Longest - 4)

AgesInv ==
  /\ \A p \in Procs : ProcAges(p)
  /\ RedisAges
  /\ \A r \in Resolutions : ResolutionAges(r)
  /\ \A w \in Workers : JobAges(w)

LEMMA AgedWithin ==
  ASSUME NEW entry \in Maybe(EntryType), NEW n \in Int, Within(entry, n)
  PROVE  Within(Aged(entry), n)
<1> SUFFICES ASSUME Aged(entry) # None, Aged(entry).ctx # NoRole
             PROVE  Aged(entry).ctx + Aged(entry).left <= n
  BY DEF Within
<1>1. /\ entry \in EntryType /\ Aged(entry).left = entry.left - 1
      /\ entry.ctx \in Nat /\ Aged(entry).ctx = entry.ctx + 1 /\ entry.ctx # NoRole
  BY AgedTyped
<1>2. entry # None /\ entry.left \in Nat
  BY <1>1, NoneAssumption DEF EntryType
<1> QED BY <1>1, <1>2 DEF Within

\* What is read from an entry has one unit less than the entry may come to, and
\* a copy of it as much more as it is given.
LEMMA CopyWithin ==
  ASSUME NEW entry \in EntryType, NEW n \in Int, Within(entry, n), NEW time \in Nat
  PROVE  AtMost(entry.ctx, n - 1) /\ Within(Entry(entry.ctx, time), n - 1 + time)
<1>1. entry # None /\ entry.left \in Nat /\ entry.left >= 1 /\ entry.ctx \in Nat \cup {NoRole}
  BY NoneAssumption DEF EntryType, Context
<1>2. entry.ctx # NoRole => entry.ctx \in Nat /\ entry.ctx <= n - 1
  BY <1>1 DEF Within
<1> QED BY <1>2 DEF AtMost, Within, Entry

\* A larger bound holds too.
LEMMA Looser ==
  ASSUME NEW n \in Int, NEW m \in Int, n <= m
  PROVE  /\ \A ctx \in Maybe(Context) : AtMost(ctx, n) => AtMost(ctx, m)
         /\ \A e \in Maybe(EntryType) : Within(e, n) => Within(e, m)
BY DEF AtMost, Within, Maybe, Context, EntryType

LEMMA Constants ==
  /\ RoleTTL \in Int /\ RoleTTL >= 1 /\ Longest \in Int
  /\ \A route \in Routes : TTL[route] \in Int /\ 1 <= TTL[route] /\ TTL[route] <= Longest
BY ConstantsAssumption

\* A settled resolution hands on permissions that AgesInv allows.
LEMMA SettleAges ==
  ASSUME TypeOK, AgesInv, NEW r \in Resolutions, NEW ctx \in Maybe(Context),
         AtMost(ctx, 2 * RoleTTL - 2), resolving[r] # None, Settle(r, ctx)
  PROVE  /\ \A w \in Workers : JobAges(w)'
         /\ \A s \in Resolutions : ResolutionAges(s)'
<1>1. ASSUME NEW w \in Workers PROVE JobAges(w)'
  <2>1. CASE Waits(w, r)
    <3>1. pc'[w] = "resume" /\ job'[w] = [job[w] EXCEPT !.res = None, !.ctx = ctx]
      BY <2>1 DEF Settle
    <3>2. job[w] \in Job({None}, {None}, Resolutions)
      BY <2>1 DEF TypeOK, JobType, Waits
    <3>3. job'[w].ctx = ctx
      BY <3>1, <3>2 DEF Job
    <3> QED BY <3>1, <3>3 DEF JobAges
  <2>2. CASE ~ Waits(w, r)
    BY <2>2 DEF Settle, JobAges, AgesInv
  <2> QED BY <2>1, <2>2
<1>2. ASSUME NEW s \in Resolutions PROVE ResolutionAges(s)'
  BY DEF Settle, ResolutionAges, AgesInv, At, TypeOK
<1> QED BY <1>1, <1>2

\* So does a request that moves on with a job that it allows.
LEMMA MoveAges ==
  ASSUME TypeOK, AgesInv, NEW w \in Workers, NEW label, NEW now, Move(w, label, now),
         label = "got" => Within(now.entry, 2 * RoleTTL + Longest - 2),
         label # "resume",
         label = "served" => AtMost(now.ctx, 2 * RoleTTL + 2 * Longest - 4)
  PROVE  \A v \in Workers : JobAges(v)'
<1> SUFFICES ASSUME NEW v \in Workers PROVE JobAges(v)'
  OBVIOUS
<1>1. CASE v = w
  BY <1>1 DEF Move, JobAges, TypeOK
<1>2. CASE v # w
  BY <1>2 DEF Move, JobAges, TypeOK, AgesInv
<1> QED BY <1>1, <1>2

LEMMA SentWithin ==
  ASSUME NEW sets, NEW entry, NEW n, \A e \in sets : Within(e, n), Within(entry, n)
  PROVE  \A e \in Sent(sets, entry) : Within(e, n)
BY DEF Sent

LEMMA AgesRequest ==
  ASSUME TypeOK, AgesInv, NEW w \in Workers, NEW p \in Procs, NEW route \in Routes,
         Request(w, p, route)
  PROVE  AgesInv'
<1> DEFINE new == [proc |-> p, route |-> route, entry |-> None, ctx |-> None, res |-> None]
<1>1. /\ \A q \in Procs : ProcAges(q)'
      /\ RedisAges' /\ \A r \in Resolutions : ResolutionAges(r)'
  BY DEF Request, AgesInv, ProcAges, RedisAges, ResolutionAges, At
<1>2. CASE session[p] # None /\ Move(w, "served", [new EXCEPT !.ctx = session[p].ctx])
  <2>1. session[p] \in EntryType /\ Within(session[p], 2 * RoleTTL + 2 * Longest - 3)
    BY <1>2 DEF TypeOK, Maybe, AgesInv, ProcAges
  <2>2. AtMost(session[p].ctx, 2 * RoleTTL + 2 * Longest - 3 - 1)
    BY <2>1, Constants, CopyWithin
  <2>3. AtMost(session[p].ctx, 2 * RoleTTL + 2 * Longest - 4)
    BY <2>2, Constants DEF AtMost
  <2>4. \A v \in Workers : JobAges(v)'
    BY <1>2, <2>3, MoveAges
  <2> QED BY <1>1, <2>4 DEF AgesInv
<1>3. CASE Move(w, "redis", new)
  <2>1. \A v \in Workers : JobAges(v)'
    BY <1>3, MoveAges
  <2> QED BY <1>1, <2>1 DEF AgesInv
<1> QED BY <1>2, <1>3 DEF Request

LEMMA AgesContinue ==
  ASSUME TypeOK, AgesInv, NEW w \in Workers, Continue(w) PROVE AgesInv'
<1>a. \A r \in Resolutions : ResolutionAges(r)'
  <2>1. CASE StartResolution(w)
    BY <2>1 DEF StartResolution, ResolutionAges, AgesInv, At, TypeOK
  <2>2. CASE ~ StartResolution(w)
    BY <2>2 DEF Continue, GetSession, CopySession, Refuse, Join, ResumeUnavailable,
                ResumeResolved, Done, ResolutionAges, AgesInv, At
  <2> QED BY <2>1, <2>2
<1>b. ASSUME UNCHANGED <<session, role, redis>>
      PROVE  (\A p \in Procs : ProcAges(p)') /\ RedisAges'
  BY <1>b DEF AgesInv, ProcAges, RedisAges
<1>1. CASE GetSession(w)
  <2>1. PICK entry \in {redis.session, None} :
           Move(w, "got", [job[w] EXCEPT !.entry = entry])
    BY <1>1 DEF GetSession
  <2>2. Within(entry, 2 * RoleTTL + Longest - 2)
    BY <2>1 DEF AgesInv, RedisAges, Within
  <2>3. job[w] \in Job({None}, {None}, {None})
    BY <1>1, Known DEF GetSession, JobType
  <2>4. [job[w] EXCEPT !.entry = entry].entry = entry
    BY <2>3 DEF Job
  <2>5. \A v \in Workers : JobAges(v)'
    BY <2>1, <2>2, <2>4, MoveAges
  <2> QED BY <1>1, <1>a, <1>b, <2>5 DEF GetSession, AgesInv
<1>2. CASE CopySession(w)
  <2> DEFINE p == job[w].proc
             entry == Entry(job[w].entry.ctx, TTL[job[w].route])
             n == 2 * RoleTTL + Longest - 2
  <2>1. job[w] \in Job(Maybe(EntryType), {None}, {None}) /\ job[w].entry # None
    BY <1>2, Known DEF CopySession, JobType
  <2>2. p \in Procs /\ job[w].route \in Routes /\ job[w].entry \in EntryType
    BY <2>1 DEF Job, Maybe
  <2>3. Within(job[w].entry, n)
    BY <1>2 DEF CopySession, AgesInv, JobAges
  <2>4. AtMost(job[w].entry.ctx, n - 1) /\ Within(entry, n - 1 + TTL[job[w].route])
    BY <2>2, <2>3, Constants, CopyWithin
  <2>5. entry \in EntryType /\ entry.ctx = job[w].entry.ctx
    BY <2>2, Constants, EntryTyped DEF EntryType, Entry
  <2>6. Within(entry, 2 * RoleTTL + 2 * Longest - 3)
    BY <2>2, <2>4, <2>5, Constants, Looser DEF Maybe
  <2>7. AtMost(entry.ctx, 2 * RoleTTL + 2 * Longest - 4)
    BY <2>2, <2>4, <2>5, Constants, Looser DEF Maybe, EntryType
  <2>8. [job[w] EXCEPT !.entry = None, !.ctx = entry.ctx].ctx = entry.ctx
    BY <2>1 DEF Job
  <2>9. \A v \in Workers : JobAges(v)'
    BY <1>2, <2>7, <2>8, MoveAges DEF CopySession, Serve
  <2>10. (\A q \in Procs : ProcAges(q)') /\ RedisAges'
    BY <1>2, <2>2, <2>6 DEF CopySession, TypeOK, AgesInv, ProcAges, RedisAges
  <2> QED BY <1>a, <2>9, <2>10 DEF AgesInv
<1>3. CASE Refuse(w)
  <2>1. \A v \in Workers : JobAges(v)'
    BY <1>3, MoveAges DEF Refuse, Respond
  <2> QED BY <1>3, <1>a, <1>b, <2>1 DEF Refuse, AgesInv
<1>4. CASE Join(w)
  <2>1. \A v \in Workers : JobAges(v)'
    BY <1>4, MoveAges DEF Join
  <2> QED BY <1>4, <1>a, <1>b, <2>1 DEF Join, AgesInv
<1>5. CASE StartResolution(w)
  <2>1. \A v \in Workers : JobAges(v)'
    BY <1>5, MoveAges DEF StartResolution
  <2> QED BY <1>5, <1>a, <1>b, <2>1 DEF StartResolution, AgesInv
<1>6. CASE ResumeUnavailable(w)
  <2>1. \A v \in Workers : JobAges(v)'
    BY <1>6, MoveAges DEF ResumeUnavailable, Respond
  <2> QED BY <1>6, <1>a, <1>b, <2>1 DEF ResumeUnavailable, AgesInv
<1>7. CASE ResumeResolved(w)
  <2> DEFINE p == job[w].proc
             entry == Entry(job[w].ctx, TTL[job[w].route])
  <2>1. job[w] \in Job({None}, Maybe(Context), {None}) /\ job[w].ctx # None
    BY <1>7, Known DEF ResumeResolved, JobType
  <2>2. p \in Procs /\ job[w].route \in Routes /\ job[w].ctx \in Context
    BY <2>1 DEF Job, Maybe
  <2>3. AtMost(job[w].ctx, 2 * RoleTTL - 2)
    BY <1>7 DEF ResumeResolved, AgesInv, JobAges
  <2>4. entry \in EntryType /\ entry.ctx = job[w].ctx /\ entry.left = TTL[job[w].route]
    BY <2>2, Constants, EntryTyped DEF Entry
  <2>5. Within(entry, 2 * RoleTTL + Longest - 2)
    <3>1. SUFFICES ASSUME job[w].ctx # NoRole
                   PROVE  job[w].ctx + TTL[job[w].route] <= 2 * RoleTTL + Longest - 2
      BY <2>4 DEF Within
    <3>2. job[w].ctx \in Nat /\ job[w].ctx <= 2 * RoleTTL - 2
      BY <2>1, <2>2, <2>3, <3>1 DEF AtMost, Context
    <3> QED BY <2>2, <3>2, Constants
  <2>6. Within(entry, 2 * RoleTTL + 2 * Longest - 3)
    <3>1. /\ 2 * RoleTTL + Longest - 2 \in Int /\ 2 * RoleTTL + 2 * Longest - 3 \in Int
          /\ 2 * RoleTTL + Longest - 2 <= 2 * RoleTTL + 2 * Longest - 3
      BY <2>2, Constants
    <3> QED BY <2>4, <2>5, <3>1, Looser DEF Maybe
  <2>7. AtMost(entry.ctx, 2 * RoleTTL + 2 * Longest - 4)
    BY <2>2, <2>3, <2>4, Constants, Looser DEF Maybe
  <2>8. [job[w] EXCEPT !.entry = None, !.ctx = entry.ctx].ctx = entry.ctx
    BY <2>1 DEF Job
  <2>9. \A v \in Workers : JobAges(v)'
    BY <1>7, <2>7, <2>8, MoveAges DEF ResumeResolved, Serve
  <2>10. \A q \in Procs : ProcAges(q)'
    BY <1>7, <2>2, <2>6 DEF ResumeResolved, TypeOK, AgesInv, ProcAges
  <2>11. \A e \in Sent(redis.sessionSets, entry) : Within(e, 2 * RoleTTL + Longest - 2)
    BY <2>5, SentWithin DEF AgesInv, RedisAges
  <2>12. RedisAges'
    BY <1>7, <2>11 DEF ResumeResolved, TypeOK, AgesInv, RedisAges
  <2> QED BY <1>a, <2>9, <2>10, <2>12 DEF AgesInv
<1>8. CASE Done(w)
  <2>1. \A v \in Workers : JobAges(v)'
    BY <1>8, MoveAges DEF Done, Respond
  <2> QED BY <1>8, <1>a, <1>b, <2>1 DEF Done, AgesInv
<1> QED
  BY <1>1, <1>2, <1>3, <1>4, <1>5, <1>6, <1>7, <1>8 DEF Continue

LEMMA AgesResolve ==
  ASSUME TypeOK, AgesInv, NEW r \in Resolutions, Resolve(r) PROVE AgesInv'
<1> DEFINE p == resolving[r].proc
<1>a. resolving[r] # None
  BY DEF Resolve, Fetch, RoleAtHand, GetRole, CopyRole, ReadRole, At
<1>b. resolving[r] \in ResolutionType /\ p \in Procs /\ resolving[r].got \in Maybe(EntryType)
  BY <1>a DEF TypeOK, ResolutionType, Maybe
<1>c. AtMost(NoRole, 2 * RoleTTL - 2) /\ AtMost(None, 2 * RoleTTL - 2)
  BY DEF AtMost
<1>d. NoRole \in Maybe(Context) /\ None \in Maybe(Context)
  BY DEF Maybe, Context
<1>e. ASSUME NEW ctx \in Maybe(Context), AtMost(ctx, 2 * RoleTTL - 2), Settle(r, ctx),
             \A q \in Procs : ProcAges(q)', RedisAges'
      PROVE  AgesInv'
  BY <1>a, <1>e, SettleAges DEF AgesInv
<1>f. ASSUME UNCHANGED <<session, role, redis>>
      PROVE  (\A q \in Procs : ProcAges(q)') /\ RedisAges'
  BY <1>f DEF AgesInv, ProcAges, RedisAges
<1>g. ASSUME NEW at, NEW got, Reach(r, at, got), at = "got" => Within(got, RoleTTL),
             UNCHANGED <<session, role, redis, pc, job>>
      PROVE  AgesInv'
  <2>1. ASSUME NEW s \in Resolutions PROVE ResolutionAges(s)'
    <3>1. CASE s = r
      <4>1. resolving'[r] = [resolving[r] EXCEPT !.at = at, !.got = got]
        BY <1>g DEF Reach, TypeOK
      <4>2. resolving'[r].at = at /\ resolving'[r].got = got
        BY <1>b, <4>1 DEF ResolutionType
      <4> QED BY <1>g, <3>1, <4>2 DEF ResolutionAges, At
    <3>2. CASE s # r
      BY <1>g, <3>2 DEF Reach, TypeOK, ResolutionAges, AgesInv, At
    <3> QED BY <3>1, <3>2
  <2>2. \A w \in Workers : JobAges(w)'
    BY <1>g DEF AgesInv, JobAges
  <2> QED BY <1>f, <1>g, <2>1, <2>2 DEF AgesInv
<1>1. CASE Fetch(r)
  <2>1. CASE \E outcome \in {None, NoRole} : Settle(r, outcome)
    BY <1>1, <1>c, <1>d, <1>e, <1>f, <2>1 DEF Fetch
  <2>2. CASE Reach(r, "role", None) /\ UNCHANGED <<inflight, pc, job>>
    BY <1>1, <1>g, <2>2 DEF Fetch
  <2> QED BY <1>1, <2>1, <2>2 DEF Fetch
<1>2. CASE RoleAtHand(r)
  <2>1. CASE Settle(r, NoRole)
    BY <1>2, <1>c, <1>d, <1>e, <1>f, <2>1 DEF RoleAtHand
  <2>2. CASE role[p] # None /\ Settle(r, role[p].ctx)
    <3>1. role[p] \in EntryType /\ Within(role[p], 2 * RoleTTL - 1)
      BY <1>b, <2>2 DEF TypeOK, Maybe, AgesInv, ProcAges
    <3>2. AtMost(role[p].ctx, 2 * RoleTTL - 1 - 1) /\ role[p].ctx \in Maybe(Context)
      BY <3>1, Constants, CopyWithin DEF EntryType, Maybe
    <3>3. AtMost(role[p].ctx, 2 * RoleTTL - 2)
      BY <3>2, Constants DEF AtMost
    <3> QED BY <1>2, <1>e, <1>f, <2>2, <3>2, <3>3 DEF RoleAtHand
  <2> QED BY <1>2, <2>1, <2>2 DEF RoleAtHand
<1>3. CASE GetRole(r)
  <2>1. PICK entry \in {redis.role, None} : Reach(r, "got", entry)
    BY <1>3 DEF GetRole
  <2>2. Within(entry, RoleTTL)
    BY DEF AgesInv, RedisAges, Within
  <2> QED BY <1>3, <1>g, <2>1, <2>2 DEF GetRole
<1>4. CASE CopyRole(r)
  <2> DEFINE got == resolving[r].got
             copy == Entry(got.ctx, RoleTTL)
  <2>1. got \in EntryType /\ Within(got, RoleTTL)
    BY <1>4, <1>b DEF CopyRole, AgesInv, ResolutionAges, Maybe
  <2>2. AtMost(got.ctx, RoleTTL - 1) /\ Within(copy, RoleTTL - 1 + RoleTTL)
    BY <2>1, Constants, CopyWithin
  <2>3. Within(copy, 2 * RoleTTL - 1)
    BY <2>2, Constants DEF Within
  <2>4. got.ctx \in Maybe(Context) /\ AtMost(got.ctx, 2 * RoleTTL - 2)
    BY <2>1, <2>2, Constants, Looser DEF EntryType, Maybe
  <2>5. (\A q \in Procs : ProcAges(q)') /\ RedisAges'
    BY <1>4, <1>b, <2>3 DEF CopyRole, TypeOK, AgesInv, ProcAges, RedisAges
  <2> QED BY <1>4, <1>e, <2>4, <2>5 DEF CopyRole
<1>5. CASE ReadRole(r)
  <2>1. CASE /\ role' = [role EXCEPT ![p] = Entry(0, RoleTTL)]
             /\ redis' = [redis EXCEPT !.roleSets = Sent(@, Entry(0, RoleTTL))]
             /\ Settle(r, 0)
    <3>1. /\ Within(Entry(0, RoleTTL), RoleTTL) /\ Within(Entry(0, RoleTTL), 2 * RoleTTL - 1)
          /\ 0 \in Maybe(Context) /\ AtMost(0, 2 * RoleTTL - 2)
      BY Constants DEF Within, Entry, AtMost, Maybe, Context
    <3>2. \A e \in Sent(redis.roleSets, Entry(0, RoleTTL)) : Within(e, RoleTTL)
      BY <3>1, SentWithin DEF AgesInv, RedisAges
    <3>3. (\A q \in Procs : ProcAges(q)') /\ RedisAges'
      BY <1>5, <1>b, <2>1, <3>1, <3>2
      DEF ReadRole, TypeOK, AgesInv, ProcAges, RedisAges
    <3> QED BY <1>e, <2>1, <3>1, <3>3
  <2>2. CASE \E ctx \in {0, NoRole} : Settle(r, ctx) /\ UNCHANGED <<role, redis>>
    <3>1. \A ctx \in {0, NoRole} : ctx \in Maybe(Context) /\ AtMost(ctx, 2 * RoleTTL - 2)
      BY Constants DEF AtMost, Maybe, Context
    <3> QED BY <1>5, <1>e, <1>f, <2>2, <3>1 DEF ReadRole
  <2> QED BY <1>5, <2>1, <2>2 DEF ReadRole
<1> QED
  BY <1>1, <1>2, <1>3, <1>4, <1>5 DEF Resolve

LEMMA AgesTick ==
  ASSUME TypeOK, AgesInv, Tick PROVE AgesInv'
<1>0. /\ RoleTTL \in Int /\ 2 * RoleTTL - 1 \in Int /\ 2 * RoleTTL + Longest - 2 \in Int
      /\ 2 * RoleTTL + 2 * Longest - 3 \in Int
  BY Constants
<1>1. ASSUME NEW p \in Procs PROVE ProcAges(p)'
  <2>1. role[p] \in Maybe(EntryType) /\ session[p] \in Maybe(EntryType) /\ ProcAges(p)
    BY DEF TypeOK, AgesInv
  <2>2. role'[p] = Aged(role[p]) /\ session'[p] = Aged(session[p])
    BY DEF Tick
  <2> QED BY <1>0, <2>1, <2>2, AgedWithin DEF ProcAges
<1>2. RedisAges'
  <2>0. /\ redis.session \in Maybe(EntryType) /\ redis.role \in Maybe(EntryType)
        /\ redis.sessionSets \in SUBSET EntryType /\ redis.roleSets \in SUBSET EntryType
        /\ RedisAges
    BY DEF TypeOK, AgesInv
  <2>1. /\ redis'.session = Aged(redis.session) /\ redis'.role = Aged(redis.role)
        /\ redis'.sessionSets = AgedSets(redis.sessionSets)
        /\ redis'.roleSets = AgedSets(redis.roleSets)
    BY DEF Tick
  <2>2. ASSUME NEW n \in Int, NEW sets \in SUBSET EntryType, \A e \in sets : Within(e, n)
        PROVE  \A e \in AgedSets(sets) : Within(e, n)
    <3>1. ASSUME NEW e \in AgedSets(sets) PROVE Within(e, n)
      <4>1. PICK entry \in sets : e = Aged(entry)
        BY DEF AgedSets
      <4> QED BY <2>2, <4>1, AgedWithin DEF Maybe
    <3> QED BY <3>1
  <2>3. Within(redis'.role, RoleTTL) /\ Within(redis'.session, 2 * RoleTTL + Longest - 2)
    BY <1>0, <2>0, <2>1, AgedWithin DEF RedisAges
  <2>4. \A e \in redis'.roleSets : Within(e, RoleTTL)
    BY <1>0, <2>0, <2>1, <2>2 DEF RedisAges
  <2>5. \A e \in redis'.sessionSets : Within(e, 2 * RoleTTL + Longest - 2)
    BY <1>0, <2>0, <2>1, <2>2 DEF RedisAges
  <2> QED BY <2>3, <2>4, <2>5 DEF RedisAges
<1>3. ASSUME NEW r \in Resolutions PROVE ResolutionAges(r)'
  <2>1. CASE At(r, "got")
    <3>1. /\ resolving[r] \in ResolutionType /\ resolving[r].got \in Maybe(EntryType)
          /\ Within(resolving[r].got, RoleTTL)
      BY <2>1 DEF TypeOK, ResolutionType, At, Maybe, AgesInv, ResolutionAges
    <3>2. resolving'[r] = [resolving[r] EXCEPT !.got = Aged(resolving[r].got)]
      BY <2>1 DEF Tick
    <3>3. resolving'[r].got = Aged(resolving[r].got)
      BY <3>1, <3>2 DEF ResolutionType
    <3> QED BY <1>0, <3>1, <3>3, AgedWithin DEF ResolutionAges
  <2>2. CASE ~ At(r, "got")
    <3>1. resolving'[r] = resolving[r]
      BY <2>2 DEF Tick
    <3> QED BY <2>2, <3>1 DEF ResolutionAges, At
  <2> QED BY <2>1, <2>2
<1>4. ASSUME NEW w \in Workers PROVE JobAges(w)'
  <2>0. pc' = pc
    BY DEF Tick
  <2>1. CASE pc[w] = "got"
    <3>1. /\ job[w] \in Job(Maybe(EntryType), {None}, {None})
          /\ Within(job[w].entry, 2 * RoleTTL + Longest - 2)
      BY <2>1 DEF TypeOK, JobType, AgesInv, JobAges
    <3>2. job'[w] = [job[w] EXCEPT !.entry = Aged(job[w].entry)]
      BY <2>1 DEF Tick
    <3>3. job[w].entry \in Maybe(EntryType) /\ job'[w].entry = Aged(job[w].entry)
      BY <3>1, <3>2 DEF Job
    <3> QED BY <1>0, <2>0, <2>1, <3>1, <3>3, AgedWithin DEF JobAges
  <2>2. CASE pc[w] # "got"
    BY <2>0, <2>2 DEF Tick, JobAges, NobodyServed
  <2> QED BY <2>1, <2>2
<1> QED BY <1>1, <1>2, <1>3, <1>4 DEF AgesInv

LEMMA AgesOthers ==
  ASSUME TypeOK, AgesInv,
         \/ SetSession \/ SetRole \/ Invalidate \/ Purge \/ UNCHANGED vars
         \/ \E p \in Procs : EditRole(p) \/ Evict(p)
  PROVE  AgesInv'
<1>j. \A w \in Workers : JobAges(w)'
  BY DEF SetSession, SetRole, Invalidate, Purge, EditRole, Evict, vars, AgesInv, JobAges
<1>1. CASE \/ UNCHANGED <<session, role, redis, resolving>> \/ SetSession \/ SetRole \/ Purge
  <2>1. \A p \in Procs : ProcAges(p)'
    BY <1>1 DEF SetSession, SetRole, Purge, AgesInv, ProcAges
  <2>2. \A r \in Resolutions : ResolutionAges(r)'
    BY <1>1 DEF SetSession, SetRole, Purge, AgesInv, ResolutionAges, At
  <2>3. RedisAges'
    <3>1. CASE UNCHANGED redis
      BY <3>1 DEF AgesInv, RedisAges
    <3>2. CASE SetSession
      BY <3>2 DEF SetSession, TypeOK, AgesInv, RedisAges
    <3>3. CASE SetRole
      BY <3>3 DEF SetRole, TypeOK, AgesInv, RedisAges
    <3>4. CASE redis' = [redis EXCEPT !.session = None, !.role = None]
      BY <3>4 DEF TypeOK, AgesInv, RedisAges, Within
    <3> QED BY <1>1, <3>1, <3>2, <3>3, <3>4 DEF Purge
  <2> QED BY <1>j, <2>1, <2>2, <2>3 DEF AgesInv
<1>2. CASE Invalidate
  <2>1. \A p \in Procs : ProcAges(p)'
    BY <1>2 DEF Invalidate, TypeOK, AgesInv, ProcAges, Within
  <2>2. RedisAges'
    BY <1>2 DEF Invalidate, AgesInv, RedisAges
  <2>3. ASSUME NEW r \in Resolutions PROVE ResolutionAges(r)'
    <3>1. CASE resolving'[r] = resolving[r]
      BY <3>1 DEF AgesInv, ResolutionAges, At
    <3>2. CASE /\ resolving[r] # None
               /\ resolving'[r] = [resolving[r] EXCEPT !.outdated = TRUE]
      <4>1. resolving[r] \in ResolutionType
        BY <3>2 DEF TypeOK, Maybe
      <4>2. resolving'[r].at = resolving[r].at /\ resolving'[r].got = resolving[r].got
        BY <3>2, <4>1 DEF ResolutionType
      <4> QED BY <3>2, <4>2 DEF AgesInv, ResolutionAges, At
    <3> QED BY <1>2, <3>1, <3>2 DEF Invalidate, Outdate
  <2> QED BY <1>j, <2>1, <2>2, <2>3 DEF AgesInv
<1>3. CASE \E p \in Procs : Evict(p)
  <2>1. \A p \in Procs : ProcAges(p)'
    BY <1>3 DEF Evict, TypeOK, AgesInv, ProcAges, Within
  <2>2. RedisAges' /\ \A r \in Resolutions : ResolutionAges(r)'
    BY <1>3 DEF Evict, AgesInv, RedisAges, ResolutionAges, At
  <2> QED BY <1>j, <2>1, <2>2 DEF AgesInv
<1> QED BY <1>1, <1>2, <1>3 DEF EditRole, vars

\* However requests, SETs, invalidations and routes with different times to live
\* overtake each other, permissions go through no more than four copies: none
\* that are served are older than the times to live of the four.
THEOREM AuthFreshEnough == Spec => []FreshEnough
<1>1. Init => AgesInv
  BY DEF Init, AgesInv, ProcAges, RedisAges, ResolutionAges, JobAges, Within, At
<1>2. TypeOK /\ AgesInv /\ [Next]_vars => AgesInv'
  BY AgesRequest, AgesContinue, AgesResolve, AgesTick, AgesOthers DEF Next
<1>3. TypeOK /\ AgesInv => FreshEnough
  <2> SUFFICES ASSUME TypeOK, AgesInv, NEW w \in Workers,
                      pc[w] = "served", job[w].ctx # NoRole
               PROVE  job[w].ctx + 4 <= 2 * RoleTTL + 2 * Longest
    BY DEF FreshEnough
  <2>1. job[w].ctx \in Nat
    BY Known DEF JobType, Job, Context
  <2>2. job[w].ctx <= 2 * RoleTTL + 2 * Longest - 4
    BY <2>1, ConstantsAssumption DEF AgesInv, JobAges, AtMost
  <2> QED BY <2>1, <2>2, Constants
<1> QED BY <1>1, <1>2, <1>3, AuthTypes, PTL DEF Spec

=============================================================================
