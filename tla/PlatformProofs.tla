---------------------------- MODULE PlatformProofs ----------------------------
(***************************************************************************)
(* The two small catalogues, Plans and Zones, for every number of handlers,  *)
(* rows and bodies; and the platform: whatever component its behaviour is of,  *)
(* it is a behaviour of every component, so that what is proved of each holds   *)
(* in Platform.                                                                *)
(***************************************************************************)
EXTENDS Platform, TenancyProofs, PropertyProofs, RealtimeProofs, AccessProofs, TLAPS

-----------------------------------------------------------------------------
(*** Plans ***)

\* What a handler may keep.
PlanTasks ==
  [op : PlanCalls, step : {"write", "count", "find", "look", "save"}, id : PlanIds \cup {None},
   body : PlanBodies \cup {None}, org : Subscribers \cup {None}, row : Subscribed \cup {None}]

PlansTabled ==
  /\ plans \in [PlanIds -> {None} \cup PlanData]
  /\ subscriber \in [Subscribers -> {None} \cup Subscribed]
  /\ planning \in [Workers -> {None} \cup PlanTasks]
  /\ expiry \in {"idle", "running"} /\ beside \subseteq Subscribers
  /\ planScope \in PlanScopes

\* A subscription is to be written; the plans that were found or read for it.
PlanSaves(t) == t # None /\ t.op \in {"subscribe", "sync", "webhook", "pause"}
NamesPlan(t, p) == t.id = p \/ (t.row # None /\ t.row.plan = p)

PlanDeletes(t) == t # None /\ t.op = "deletePlan"

\* The rows a handler is to write, or to refer to, are there.
PlanRefers(t) ==
  /\ t.op \in {"updatePlan", "deletePlan"} => t.id \in PlanIds /\ plans[t.id] # None
  /\ t.op \in {"createPlan", "updatePlan"} => t.body \in PlanBodies
  /\ t.op = "createPlan" => {"code", "razorpay", "recommended"} \subseteq DOMAIN t.body
  /\ PlanSaves(t) => t.org \in Subscribers
  /\ PlanSaves(t) => \A p \in PlanIds : NamesPlan(t, p) => plans[p] # None
  /\ t.step \in {"find", "look", "save"} => t.op \in {"subscribe", "sync", "webhook", "pause"}

PlanReferred ==
  /\ \A o \in Subscribers :
       subscriber[o] # None /\ subscriber[o].plan # None => plans[subscriber[o].plan] # None
  /\ \A w \in Workers : planning[w] # None => PlanRefers(planning[w])

\* Who saves a subscription while a plan is being deleted, is beside it.
BesideSeen ==
  \A w, v \in Workers : PlanSaves(planning[w]) /\ PlanDeletes(planning[v]) => planning[w].org \in beside

\* Who saves a subscription to a plan that is deleted by now, was beside a deletion.
PlanStaleSeen ==
  \A w \in Workers, p \in PlanIds :
    PlanSaves(planning[w]) /\ NamesPlan(planning[w], p) /\ IsDeleted(plans[p]) => planning[w].org \in beside

\* Who has counted no subscriptions deletes a plan that has none, or is beside their saving.
CountedNone ==
  \A v \in Workers, o \in Subscribers :
    /\ PlanDeletes(planning[v]) /\ planning[v].step = "write"
    /\ subscriber[o] # None /\ subscriber[o].plan = planning[v].id
    => o \in beside

PlansInv == PlansTabled /\ PlanReferred /\ BesideSeen /\ PlanStaleSeen /\ CountedNone /\ DeletedPlansAreUnused

-----------------------------------------------------------------------------
(* What steps do to the invariant *)

\* A read: what a handler keeps after it must be what the invariant says of it.
LEMMA PlanReadKeepsInv ==
  ASSUME PlansInv, NEW w \in Workers, NEW t \in {None} \cup PlanTasks,
         Planning(w, t), beside \subseteq beside', beside' \subseteq Subscribers, plans' = plans, subscriber' = subscriber, expiry' = expiry,
         t # None => PlanRefers(t),
         \A p \in PlanIds : PlanSaves(t) /\ NamesPlan(t, p) /\ IsDeleted(plans[p]) => t.org \in beside',
         \A v \in Workers \ {w} :
           /\ PlanSaves(t) /\ PlanDeletes(planning[v]) => t.org \in beside'
           /\ PlanDeletes(t) /\ PlanSaves(planning[v]) => planning[v].org \in beside',
         \A o \in Subscribers :
           PlanDeletes(t) /\ t.step = "write" /\ subscriber[o] # None /\ subscriber[o].plan = t.id => o \in beside'
  PROVE  PlansInv'
<1>1. planning' = [planning EXCEPT ![w] = t] /\ UNCHANGED planScope
  BY DEF Planning
<1>2. planning'[w] = t /\ \A v \in Workers \ {w} : planning'[v] = planning[v]
  BY <1>1 DEF PlansInv, PlansTabled
<1>3. PlansTabled'
  BY <1>1 DEF PlansInv, PlansTabled
<1>4. PlanReferred'
  BY <1>1, <1>2 DEF PlansInv, PlanReferred, PlanRefers
<1>5. BesideSeen'
  BY <1>1, <1>2 DEF PlansInv, BesideSeen, PlanSaves, PlanDeletes
<1>6. PlanStaleSeen'
  BY <1>1, <1>2 DEF PlansInv, PlanStaleSeen
<1>7. CountedNone'
  BY <1>1, <1>2 DEF PlansInv, CountedNone
<1>8. DeletedPlansAreUnused'
  BY <1>1 DEF PlansInv, DeletedPlansAreUnused
<1> QED BY <1>3, <1>4, <1>5, <1>6, <1>7, <1>8 DEF PlansInv

\* A write of plans: none is lost, and only a handler that has counted deletes one.
LEMMA PlansWriteKeepsInv ==
  ASSUME PlansInv, plans' \in [PlanIds -> {None} \cup PlanData],
         \A p \in PlanIds : plans[p] # None => plans'[p] # None,
         \A p \in PlanIds : plans[p] # None /\ IsDeleted(plans'[p]) /\ ~ IsDeleted(plans[p]) =>
           \E v \in Workers : PlanDeletes(planning[v]) /\ planning[v].step = "write" /\ planning[v].id = p,
         planning' \in [Workers -> {None} \cup PlanTasks],
         \A w \in Workers : planning'[w] = planning[w] \/ planning'[w] = None,
         expiry' \in {"idle", "running"}, subscriber' = subscriber, beside' = beside, planScope' = planScope
  PROVE  PlansInv'
<1>1. PlansTabled'
  BY DEF PlansInv, PlansTabled
<1>2. \A w \in Workers : planning'[w] # None => planning'[w] = planning[w]
  OBVIOUS
<1>3. PlanReferred'
  <2>1. \A o \in Subscribers : subscriber[o] # None => subscriber[o].plan \in PlanIds \cup {None}
    BY DEF PlansInv, PlansTabled, Subscribed
  <2>2. \A o \in Subscribers :
          subscriber'[o] # None /\ subscriber'[o].plan # None => plans'[subscriber'[o].plan] # None
    BY <2>1 DEF PlansInv, PlanReferred
  <2>3. ASSUME NEW w \in Workers, planning'[w] # None PROVE PlanRefers(planning[w])'
    BY <1>2, <2>3 DEF PlansInv, PlanReferred, PlanRefers, PlanSaves, NamesPlan
  <2> QED BY <2>2, <2>3 DEF PlanReferred
<1>4. BesideSeen'
  BY <1>2 DEF PlansInv, BesideSeen, PlanSaves, PlanDeletes
<1>5. PlanStaleSeen'
  <2> SUFFICES ASSUME NEW w \in Workers, NEW p \in PlanIds,
                      PlanSaves(planning'[w]), NamesPlan(planning'[w], p), IsDeleted(plans'[p])
               PROVE  planning'[w].org \in beside
    BY DEF PlanStaleSeen
  <2>1. planning'[w] = planning[w] /\ PlanRefers(planning[w]) /\ PlanSaves(planning[w])
    BY <1>2 DEF PlanSaves, PlansInv, PlanReferred
  <2>2. plans[p] # None
    BY <2>1 DEF PlanRefers
  <2>3. CASE IsDeleted(plans[p])
    BY <2>1, <2>3 DEF PlansInv, PlanStaleSeen
  <2>4. CASE ~ IsDeleted(plans[p])
    <3>1. PICK v \in Workers : PlanDeletes(planning[v])
      BY <2>1, <2>2, <2>4
    <3> QED BY <2>1, <3>1 DEF PlansInv, BesideSeen
  <2> QED BY <2>3, <2>4
<1>6. CountedNone'
  BY <1>2 DEF PlansInv, CountedNone, PlanDeletes
<1>7. DeletedPlansAreUnused'
  <2> SUFFICES ASSUME NEW o \in Subscribers, subscriber[o] # None, subscriber[o].plan # None,
                      IsDeleted(plans'[subscriber[o].plan])
               PROVE  o \in beside
    BY DEF DeletedPlansAreUnused
  <2>1. subscriber[o].plan \in PlanIds /\ plans[subscriber[o].plan] # None
    BY DEF PlansInv, PlansTabled, Subscribed, PlanReferred
  <2>2. CASE IsDeleted(plans[subscriber[o].plan])
    BY <2>2 DEF PlansInv, DeletedPlansAreUnused
  <2>3. CASE ~ IsDeleted(plans[subscriber[o].plan])
    BY <2>1, <2>3 DEF PlansInv, CountedNone
  <2> QED BY <2>2, <2>3
<1> QED BY <1>1, <1>3, <1>4, <1>5, <1>6, <1>7 DEF PlansInv

\* A subscription is written as its handler goes on from what it read.
LEMMA SaveKeepsInv ==
  ASSUME PlansInv, NEW w \in Workers, PlanSaves(planning[w]), NEW row \in Subscribed,
         row.plan # None => NamesPlan(planning[w], row.plan),
         Planning(w, None), subscriber' = [subscriber EXCEPT ![planning[w].org] = row],
         UNCHANGED <<plans, expiry, beside>>
  PROVE  PlansInv'
<1> DEFINE o == planning[w].org
<1>1. /\ planning' = [planning EXCEPT ![w] = None] /\ subscriber' = [subscriber EXCEPT ![o] = row]
      /\ UNCHANGED <<plans, expiry, beside, planScope>>
  BY DEF Planning
<1>2. planning'[w] = None /\ \A v \in Workers \ {w} : planning'[v] = planning[v]
  BY <1>1 DEF PlansInv, PlansTabled
<1>3. o \in Subscribers /\ row # None
  BY PlansAssumption DEF PlansInv, PlanReferred, PlanRefers, PlanSaves
<1>11. row.plan # None => row.plan \in PlanIds /\ plans[row.plan] # None
  BY DEF PlansInv, PlanReferred, PlanRefers, PlanSaves, Subscribed
<1>4. subscriber'[o] = row /\ \A q \in Subscribers \ {o} : subscriber'[q] = subscriber[q]
  BY <1>1, <1>3 DEF PlansInv, PlansTabled
<1>5. PlansTabled'
  BY <1>1, <1>3 DEF PlansInv, PlansTabled
<1>6. PlanReferred'
  <2>1. \A q \in Subscribers :
          subscriber'[q] # None /\ subscriber'[q].plan # None => plans'[subscriber'[q].plan] # None
    BY <1>1, <1>4, <1>11 DEF PlansInv, PlanReferred
  <2>2. ASSUME NEW v \in Workers, planning'[v] # None PROVE PlanRefers(planning[v])'
    BY <1>1, <1>2, <2>2 DEF PlansInv, PlanReferred, PlanRefers, PlanSaves, NamesPlan
  <2> QED BY <2>1, <2>2 DEF PlanReferred
<1>7. BesideSeen'
  BY <1>1, <1>2 DEF PlansInv, BesideSeen, PlanSaves, PlanDeletes
<1>8. PlanStaleSeen'
  BY <1>1, <1>2 DEF PlansInv, PlanStaleSeen, PlanSaves
<1>9. CountedNone'
  BY <1>1, <1>2, <1>3, <1>4 DEF PlansInv, CountedNone, BesideSeen, PlanDeletes
<1>10. DeletedPlansAreUnused'
  BY <1>1, <1>4, <1>11 DEF PlansInv, DeletedPlansAreUnused, PlanStaleSeen
<1> QED BY <1>5, <1>6, <1>7, <1>8, <1>9, <1>10 DEF PlansInv

-----------------------------------------------------------------------------
(* Every step keeps the invariant *)

\* A task of a handler is one of PlanTasks, and refers to rows that are there.
LEMMA PlanTaskKept ==
  ASSUME PlansInv, NEW w \in Workers, planning[w] # None
  PROVE  planning[w] \in PlanTasks /\ PlanRefers(planning[w])
BY DEF PlansInv, PlansTabled, PlanReferred

\* A handler ends without having read or written anything.
LEMMA NoTask == ~ PlanSaves(None) /\ ~ PlanDeletes(None)
BY DEF PlanSaves, PlanDeletes

\* The fields of a new task.
LEMMA PlanTaskFields ==
  ASSUME NEW op \in PlanCalls, NEW step \in {"write", "count", "save", "find"}
  PROVE  /\ PlanTask(op, step) \in PlanTasks
         /\ PlanTask(op, step).op = op /\ PlanTask(op, step).step = step
BY DEF PlanTask, PlanTasks

\* What a plan is made of.
LEMMA PlanFields ==
  ASSUME PlansInv, NEW p \in PlanIds, plans[p] # None
  PROVE  plans[p] \in PlanData
BY DEF PlansInv, PlansTabled

LEMMA CreatePlanKeeps == ASSUME PlansInv, NEW w \in Workers, CreatePlan(w) PROVE PlansInv'
<1>1. ASSUME NEW b \in planScope.bodies, {"code", "razorpay", "recommended"} \subseteq DOMAIN b,
             Planning(w, [PlanTask("createPlan", "write") EXCEPT !.body = b]),
             UNCHANGED <<plans, subscriber, expiry, beside>>
      PROVE  PlansInv'
  <2> DEFINE t == [PlanTask("createPlan", "write") EXCEPT !.body = b]
  <2>1. b \in PlanBodies
    BY PlansAssumption DEF PlansInv, PlansTabled
  <2>2. t \in PlanTasks /\ t.op = "createPlan" /\ t.body = b /\ t.step = "write"
    BY <2>1 DEF PlanTask, PlanTasks, PlanCalls
  <2>3. Planning(w, t) /\ beside' = beside /\ beside \subseteq Subscribers
    BY <1>1 DEF PlansInv, PlansTabled
  <2> HIDE DEF t
  <2>4. PlanRefers(t) /\ ~ PlanSaves(t) /\ ~ PlanDeletes(t)
    BY <1>1, <2>1, <2>2 DEF PlanRefers, PlanSaves, PlanDeletes
  <2> QED BY <1>1, <2>2, <2>3, <2>4, PlanReadKeepsInv
<1>2. ASSUME PlanAt(w, "createPlan", "write"),
             NEW p \in PlanIds, plans[p] = None,
             LET b == planning[w].body
                 sent(f, default) == IF f \in DOMAIN b THEN b[f] ELSE default
             IN  plans' = [plans EXCEPT ![p] =
                   [code |-> b.code, razorpay |-> b.razorpay, recommended |-> b.recommended,
                    active |-> sent("active", TRUE), deadline |-> sent("deadline", None), life |-> "live"]],
             Planning(w, None), UNCHANGED <<subscriber, expiry, beside>>
      PROVE  PlansInv'
  <2> DEFINE b == planning[w].body
             isActive == IF "active" \in DOMAIN b THEN b["active"] ELSE TRUE
             ends == IF "deadline" \in DOMAIN b THEN b["deadline"] ELSE None
             row == [code |-> b.code, razorpay |-> b.razorpay, recommended |-> b.recommended,
                     active |-> isActive, deadline |-> ends, life |-> "live"]
  <2>1. b \in PlanBodies /\ {"code", "razorpay", "recommended"} \subseteq DOMAIN b
    BY <1>2, PlanTaskKept DEF PlanAt, PlanRefers
  <2>2. isActive \in BOOLEAN /\ ends \in Deadlines
    BY <2>1, PlansAssumption DEF Deadlines
  <2>3. b.code \in PlanCodes /\ b.razorpay \in RazorpayPlans /\ b.recommended \in BOOLEAN
    BY <2>1, PlansAssumption
  <2>4. plans' = [plans EXCEPT ![p] = row]
    BY <1>2
  <2> HIDE DEF b, isActive, ends
  <2>5. row \in PlanData
    BY <2>2, <2>3 DEF PlanData
  <2> HIDE DEF row
  <2>6. /\ plans' \in [PlanIds -> {None} \cup PlanData]
        /\ \A q \in PlanIds : plans[q] # None => plans'[q] = plans[q]
    BY <1>2, <2>4, <2>5 DEF PlansInv, PlansTabled
  <2>7. /\ planning' \in [Workers -> {None} \cup PlanTasks]
        /\ \A v \in Workers : planning'[v] = planning[v] \/ planning'[v] = None
        /\ expiry' \in {"idle", "running"} /\ subscriber' = subscriber /\ beside' = beside /\ planScope' = planScope
    BY <1>2 DEF Planning, PlansInv, PlansTabled
  <2> QED BY <2>6, <2>7, PlansWriteKeepsInv
<1> QED BY <1>1, <1>2 DEF CreatePlan

LEMMA UpdatePlanKeeps == ASSUME PlansInv, NEW w \in Workers, UpdatePlan(w) PROVE PlansInv'
<1>1. ASSUME NEW b \in planScope.bodies, NEW p \in PlanIds, PlanById(p),
             Planning(w, [PlanTask("updatePlan", "write") EXCEPT !.id = p, !.body = b]),
             UNCHANGED <<plans, subscriber, expiry, beside>>
      PROVE  PlansInv'
  <2> DEFINE t == [PlanTask("updatePlan", "write") EXCEPT !.id = p, !.body = b]
  <2>1. b \in PlanBodies
    BY PlansAssumption DEF PlansInv, PlansTabled
  <2>2. t \in PlanTasks /\ t.op = "updatePlan" /\ t.body = b /\ t.id = p /\ t.step = "write"
    BY <2>1 DEF PlanTask, PlanTasks, PlanCalls
  <2>3. Planning(w, t) /\ beside' = beside /\ beside \subseteq Subscribers
    BY <1>1 DEF PlansInv, PlansTabled
  <2> HIDE DEF t
  <2>4. PlanRefers(t) /\ ~ PlanSaves(t) /\ ~ PlanDeletes(t)
    BY <1>1, <2>1, <2>2 DEF PlanRefers, PlanSaves, PlanDeletes, PlanById, IsLive
  <2> QED BY <1>1, <2>2, <2>3, <2>4, PlanReadKeepsInv
<1>2. ASSUME PlanAt(w, "updatePlan", "write"),
             LET b == planning[w].body
             IN  plans' = [plans EXCEPT ![planning[w].id] =
                             [f \in DOMAIN @ |-> IF f \in DOMAIN b THEN b[f] ELSE @[f]]],
             Planning(w, None), UNCHANGED <<subscriber, expiry, beside>>
      PROVE  PlansInv'
  <2> DEFINE b == planning[w].body
             p == planning[w].id
             old == plans[p]
             row == [f \in DOMAIN old |-> IF f \in DOMAIN b THEN b[f] ELSE old[f]]
  <2>1. b \in PlanBodies /\ p \in PlanIds /\ plans[p] # None
    BY <1>2, PlanTaskKept DEF PlanAt, PlanRefers
  <2>2. old \in PlanData
    BY <2>1, PlanFields
  <2>3. plans' = [plans EXCEPT ![p] = row]
    BY <1>2
  <2> HIDE DEF b, p
  <2>4. row \in PlanData /\ row.life = old.life
    <3>1. DOMAIN row = {"code", "razorpay", "recommended", "active", "deadline", "life"}
      BY <2>2 DEF PlanData
    <3>2. row.code \in PlanCodes /\ row.razorpay \in RazorpayPlans
      BY <2>1, <2>2, PlansAssumption DEF PlanData
    <3>3. row.recommended \in BOOLEAN /\ row.active \in BOOLEAN
      BY <2>1, <2>2, PlansAssumption DEF PlanData
    <3>4. row.deadline \in Deadlines
      BY <2>1, <2>2, PlansAssumption DEF PlanData
    <3>5. row.life = old.life
      BY <2>1, <2>2, PlansAssumption DEF PlanData
    <3>6. row = [code |-> row.code, razorpay |-> row.razorpay, recommended |-> row.recommended,
                 active |-> row.active, deadline |-> row.deadline, life |-> row.life]
      BY <3>1
    <3> HIDE DEF row
    <3> QED BY <2>2, <3>2, <3>3, <3>4, <3>5, <3>6 DEF PlanData
  <2> HIDE DEF row
  <2>5. /\ plans' \in [PlanIds -> {None} \cup PlanData]
        /\ \A q \in PlanIds \ {p} : plans'[q] = plans[q]
        /\ plans'[p] = row
    BY <2>1, <2>3, <2>4 DEF PlansInv, PlansTabled
  <2>6. row # None /\ (IsDeleted(row) => IsDeleted(plans[p]))
    BY <2>1, <2>4, PlansAssumption DEF IsDeleted
  <2>7. /\ planning' \in [Workers -> {None} \cup PlanTasks]
        /\ \A v \in Workers : planning'[v] = planning[v] \/ planning'[v] = None
        /\ expiry' \in {"idle", "running"} /\ subscriber' = subscriber /\ beside' = beside /\ planScope' = planScope
    BY <1>2 DEF Planning, PlansInv, PlansTabled
  <2>8. \A q \in PlanIds : plans[q] # None => plans'[q] # None /\ (IsDeleted(plans'[q]) => IsDeleted(plans[q]))
    BY <2>1, <2>5, <2>6
  <2> QED BY <2>5, <2>7, <2>8, PlansWriteKeepsInv
<1> QED BY <1>1, <1>2 DEF UpdatePlan

LEMMA DeletePlanKeeps == ASSUME PlansInv, NEW w \in Workers, DeletePlan(w) PROVE PlansInv'
<1>1. ASSUME NEW p \in PlanIds, PlanById(p),
             Planning(w, [PlanTask("deletePlan", "count") EXCEPT !.id = p]),
             beside' = beside \cup SavingPlanOf, UNCHANGED <<plans, subscriber, expiry>>
      PROVE  PlansInv'
  <2> DEFINE t == [PlanTask("deletePlan", "count") EXCEPT !.id = p]
  <2>1. t \in PlanTasks /\ t.op = "deletePlan" /\ t.id = p /\ t.step = "count"
    BY DEF PlanTask, PlanTasks, PlanCalls
  <2>2. Planning(w, t) /\ beside \subseteq Subscribers
    BY <1>1 DEF PlansInv, PlansTabled
  <2> HIDE DEF t
  <2>3. PlanRefers(t) /\ ~ PlanSaves(t)
    BY <1>1, <2>1 DEF PlanRefers, PlanSaves, PlanById, IsLive
  <2>4. ASSUME NEW v \in Workers, PlanSaves(planning[v]) PROVE planning[v].org \in SavingPlanOf
    <3>1. planning[v] # None /\ planning[v].org \in Subscribers
      BY <2>4, PlanTaskKept DEF PlanSaves, PlanRefers
    <3> QED BY <3>1, PlansAssumption DEF SavingPlanOf
  <2>5. SavingPlanOf \in SUBSET Subscribers
    <3>1. \A v \in Workers : planning[v] # None => planning[v].org \in Subscribers \cup {None}
      BY PlanTaskKept DEF PlanTasks
    <3> QED BY <3>1 DEF SavingPlanOf
  <2> QED BY <1>1, <2>1, <2>2, <2>3, <2>4, <2>5, PlanReadKeepsInv
<1>2. ASSUME PlanAt(w, "deletePlan", "count"),
             \A o \in Subscribers : subscriber[o] # None => subscriber[o].plan # planning[w].id,
             Planning(w, [planning[w] EXCEPT !.step = "write"]),
             UNCHANGED <<plans, subscriber, expiry, beside>>
      PROVE  PlansInv'
  <2> DEFINE t == [planning[w] EXCEPT !.step = "write"]
  <2>1. planning[w] \in PlanTasks /\ PlanRefers(planning[w]) /\ PlanDeletes(planning[w])
    BY <1>2, PlanTaskKept DEF PlanAt, PlanDeletes
  <2>2. t \in PlanTasks /\ t.op = "deletePlan" /\ t.id = planning[w].id /\ t.step = "write"
    BY <2>1 DEF PlanTasks, PlanDeletes
  <2>3. Planning(w, t) /\ beside' = beside /\ beside \subseteq Subscribers
    BY <1>2 DEF PlansInv, PlansTabled
  <2> HIDE DEF t
  <2>4. PlanRefers(t) /\ ~ PlanSaves(t)
    BY <2>1, <2>2 DEF PlanRefers, PlanSaves, PlanDeletes
  <2>5. \A v \in Workers : PlanSaves(planning[v]) => planning[v].org \in beside
    BY <2>1 DEF PlansInv, BesideSeen
  <2> QED BY <1>2, <2>2, <2>3, <2>4, <2>5, PlanReadKeepsInv
<1>3. ASSUME PlanAt(w, "deletePlan", "write"),
             plans' = [plans EXCEPT ![planning[w].id] =
                         IF IsLive(@) THEN [@ EXCEPT !.life = "deleted", !.active = FALSE] ELSE @],
             Planning(w, None), UNCHANGED <<subscriber, expiry, beside>>
      PROVE  PlansInv'
  <2> DEFINE p == planning[w].id
             row == IF IsLive(plans[p]) THEN [plans[p] EXCEPT !.life = "deleted", !.active = FALSE] ELSE plans[p]
  <2>1. p \in PlanIds /\ plans[p] # None
    BY <1>3, PlanTaskKept DEF PlanAt, PlanRefers
  <2>2. plans[p] \in PlanData
    BY <2>1, PlanFields
  <2>3. row \in PlanData
    BY <2>2 DEF PlanData
  <2>4. plans' = [plans EXCEPT ![p] = row]
    BY <1>3
  <2>5. PlanDeletes(planning[w]) /\ planning[w].step = "write" /\ planning[w].id = p
    BY <1>3 DEF PlanAt, PlanDeletes
  <2> HIDE DEF p, row
  <2>6. /\ plans' \in [PlanIds -> {None} \cup PlanData] /\ plans'[p] = row /\ row # None
        /\ \A q \in PlanIds \ {p} : plans'[q] = plans[q]
    BY <2>1, <2>3, <2>4, PlansAssumption DEF PlansInv, PlansTabled
  <2>7. /\ planning' \in [Workers -> {None} \cup PlanTasks]
        /\ \A v \in Workers : planning'[v] = planning[v] \/ planning'[v] = None
        /\ expiry' \in {"idle", "running"} /\ subscriber' = subscriber /\ beside' = beside /\ planScope' = planScope
    BY <1>3 DEF Planning, PlansInv, PlansTabled
  <2>8. \A q \in PlanIds : plans[q] # None => plans'[q] # None /\ (q = p \/ plans'[q] = plans[q])
    BY <2>6
  <2> QED BY <2>5, <2>6, <2>7, <2>8, PlansWriteKeepsInv
<1> QED BY <1>1, <1>2, <1>3 DEF DeletePlan

\* A subscription is read to be saved: if a plan is being deleted, that is noted.
LEMMA SaveBeginKeeps ==
  ASSUME PlansInv, NEW w \in Workers, NEW o \in Subscribers, NEW row \in {None, subscriber[o]},
         NEW op \in {"subscribe", "sync", "webhook", "pause"}, NEW step \in {"find", "look"},
         NEW id \in PlanIds \cup {None}, id # None => PlanById(id),
         SaveBegin(w, o, row, [PlanTask(op, step) EXCEPT !.id = id])
  PROVE  PlansInv'
<1> DEFINE t == [[PlanTask(op, step) EXCEPT !.id = id] EXCEPT !.org = o, !.row = row]
<1>1. row \in Subscribed \cup {None} /\ row \in {None, subscriber[o]}
  BY DEF PlansInv, PlansTabled
<1>2. /\ t \in PlanTasks /\ t.op = op /\ t.step = step /\ t.id = id /\ t.org = o /\ t.row = row
  BY <1>1, PlansAssumption DEF PlanTask, PlanTasks, PlanCalls
<1>3. /\ Planning(w, t) /\ plans' = plans /\ subscriber' = subscriber /\ expiry' = expiry
      /\ beside \subseteq beside' /\ beside' \subseteq Subscribers
      /\ DeletingPlan # {} => o \in beside'
  BY DEF SaveBegin, PlansInv, PlansTabled
<1> HIDE DEF t
<1>4. ~ PlanDeletes(t) /\ t.op \in {"subscribe", "sync", "webhook", "pause"}
  BY <1>2 DEF PlanDeletes
<1>5. ASSUME NEW p \in PlanIds, NamesPlan(t, p)
      PROVE  plans[p] # None /\ (IsDeleted(plans[p]) => o \in beside')
  <2>1. CASE p = id
    BY <2>1, PlansAssumption, <1>5 DEF PlanById, IsLive, IsDeleted
  <2>2. CASE p # id
    <3>1. row # None /\ row = subscriber[o] /\ row.plan = p
      BY <1>1, <1>2, <1>5, <2>2 DEF NamesPlan
    <3> QED BY <1>3, <3>1, PlansAssumption DEF PlansInv, PlanReferred, DeletedPlansAreUnused
  <2> QED BY <2>1, <2>2
<1>6. \A v \in Workers : PlanDeletes(planning[v]) => o \in beside'
  BY <1>3 DEF PlanDeletes, DeletingPlan
<1>7. PlanRefers(t)
  BY <1>2, <1>4, <1>5 DEF PlanRefers
<1> QED BY <1>2, <1>3, <1>4, <1>5, <1>6, <1>7, PlanReadKeepsInv

LEMMA SubscribeKeeps == ASSUME PlansInv, NEW w \in Workers, SubscribeToPlan(w) PROVE PlansInv'
<1>1. PICK o \in Subscribers, p \in PlanIds :
        PlanById(p) /\ SaveBegin(w, o, subscriber[o], [PlanTask("subscribe", "look") EXCEPT !.id = p])
  BY DEF SubscribeToPlan
<1> QED BY <1>1, SaveBeginKeeps

\* A task without a plan of its own.
LEMMA NoPlanYet ==
  ASSUME NEW op, NEW step
  PROVE  PlanTask(op, step) = [PlanTask(op, step) EXCEPT !.id = None]
BY DEF PlanTask

LEMMA SynchroniseKeeps == ASSUME PlansInv, NEW w \in Workers, Synchronise(w) PROVE PlansInv'
<1>1. PICK o \in Subscribers : SaveBegin(w, o, subscriber[o], PlanTask("sync", "find"))
  BY DEF Synchronise
<1>2. SaveBegin(w, o, subscriber[o], [PlanTask("sync", "find") EXCEPT !.id = None])
  BY <1>1, NoPlanYet
<1> QED BY <1>2, SaveBeginKeeps

LEMMA WebhookKeeps == ASSUME PlansInv, NEW w \in Workers, Webhook(w) PROVE PlansInv'
<1>1. PICK o \in Subscribers : \E row \in {None, subscriber[o]} : SaveBegin(w, o, row, PlanTask("webhook", "find"))
  BY DEF Webhook
<1>2. PICK row \in {None, subscriber[o]} : SaveBegin(w, o, row, PlanTask("webhook", "find"))
  BY <1>1
<1>3. SaveBegin(w, o, row, [PlanTask("webhook", "find") EXCEPT !.id = None])
  BY <1>2, NoPlanYet
<1> QED BY <1>3, SaveBeginKeeps

LEMMA PauseKeeps == ASSUME PlansInv, NEW w \in Workers, PausePlan(w) PROVE PlansInv'
<1>1. PICK o \in Subscribers : SaveBegin(w, o, subscriber[o], PlanTask("pause", "look"))
  BY DEF PausePlan
<1>2. SaveBegin(w, o, subscriber[o], [PlanTask("pause", "look") EXCEPT !.id = None])
  BY <1>1, NoPlanYet
<1> QED BY <1>2, SaveBeginKeeps

\* A handler that saves goes on: it finds a live plan, or reads the row there is.
LEMMA SaveGoesOn ==
  ASSUME PlansInv, NEW w \in Workers, PlanSaves(planning[w]), NEW t \in PlanTasks,
         t.op = planning[w].op, t.org = planning[w].org,
         \A p \in PlanIds : NamesPlan(t, p) =>
           \/ NamesPlan(planning[w], p) \/ IsLive(plans[p])
           \/ subscriber[t.org] # None /\ subscriber[t.org].plan = p,
         Planning(w, t), UNCHANGED <<plans, subscriber, expiry, beside>>
  PROVE  PlansInv'
<1>1. PlanRefers(planning[w]) /\ planning[w].org \in Subscribers
  BY PlanTaskKept DEF PlanSaves, PlanRefers
<1>2. ~ PlanDeletes(t) /\ t.op \in {"subscribe", "sync", "webhook", "pause"}
  BY DEF PlanSaves, PlanDeletes
<1>3. ASSUME NEW p \in PlanIds, NamesPlan(t, p)
      PROVE  plans[p] # None /\ (IsDeleted(plans[p]) => t.org \in beside)
  <2>1. CASE NamesPlan(planning[w], p)
    BY <1>1, <2>1 DEF PlanRefers, PlansInv, PlanStaleSeen
  <2>2. CASE IsLive(plans[p])
    BY <2>2 DEF IsLive, IsDeleted
  <2>3. CASE subscriber[t.org] # None /\ subscriber[t.org].plan = p
    BY <1>1, <2>3, PlansAssumption DEF PlansInv, PlanReferred, DeletedPlansAreUnused
  <2> QED BY <1>3, <2>1, <2>2, <2>3
<1>4. PlanRefers(t)
  BY <1>1, <1>2, <1>3 DEF PlanRefers, PlanSaves
<1>5. \A v \in Workers : PlanDeletes(planning[v]) => t.org \in beside
  BY DEF PlansInv, BesideSeen
<1>6. plans' = plans /\ subscriber' = subscriber /\ expiry' = expiry /\ beside' = beside
        /\ beside \subseteq Subscribers
  BY DEF PlansInv, PlansTabled
<1> QED BY <1>2, <1>3, <1>4, <1>5, <1>6, PlanReadKeepsInv

LEMMA FindPlanKeeps == ASSUME PlansInv, NEW w \in Workers, FindPlan(w) PROVE PlansInv'
<1>1. PICK razorpay \in RazorpayPlans :
        Planning(w, [planning[w] EXCEPT !.step = "look",
          !.id = IF PlanByRazorpay(razorpay) = {} THEN None
                 ELSE CHOOSE p \in PlanByRazorpay(razorpay) : TRUE])
  BY DEF FindPlan
<1> DEFINE found == IF PlanByRazorpay(razorpay) = {} THEN None ELSE CHOOSE p \in PlanByRazorpay(razorpay) : TRUE
           t == [planning[w] EXCEPT !.step = "look", !.id = found]
<1>2. found = None \/ (found \in PlanIds /\ IsLive(plans[found]))
  BY DEF PlanByRazorpay
<1>3. Planning(w, t)
  BY <1>1
<1> HIDE DEF found
<1>4. planning[w] \in PlanTasks /\ PlanSaves(planning[w])
  BY PlanTaskKept DEF FindPlan, PlanRefers, PlanSaves
<1>5. /\ t \in PlanTasks /\ t.op = planning[w].op /\ t.org = planning[w].org /\ t.row = planning[w].row
      /\ t.id = found
  BY <1>2, <1>4 DEF PlanTasks
<1> HIDE DEF t
<1>6. \A p \in PlanIds : NamesPlan(t, p) => NamesPlan(planning[w], p) \/ IsLive(plans[p])
  BY <1>2, <1>5, PlansAssumption DEF NamesPlan
<1>7. UNCHANGED <<plans, subscriber, expiry, beside>>
  BY DEF FindPlan
<1> QED BY <1>3, <1>4, <1>5, <1>6, <1>7, SaveGoesOn

LEMMA SavePlanKeeps == ASSUME PlansInv, NEW w \in Workers, SavePlan(w) PROVE PlansInv'
<1>1. /\ planning[w] \in PlanTasks /\ PlanSaves(planning[w]) /\ planning[w].org \in Subscribers
      /\ UNCHANGED <<plans, expiry, beside>>
  BY PlanTaskKept DEF SavePlan, PlanRefers, PlanSaves
<1>2. ASSUME Planning(w, [planning[w] EXCEPT !.step = "save",
                            !.row = IF @ = None THEN subscriber[planning[w].org] ELSE @]),
             UNCHANGED subscriber
      PROVE  PlansInv'
  <2> DEFINE row == IF planning[w].row = None THEN subscriber[planning[w].org] ELSE planning[w].row
             t == [planning[w] EXCEPT !.step = "save", !.row = row]
  <2>1. row \in Subscribed \cup {None}
    BY <1>1 DEF PlansInv, PlansTabled, PlanTasks
  <2>2. Planning(w, t)
    BY <1>2
  <2>3. row = planning[w].row \/ row = subscriber[planning[w].org]
    OBVIOUS
  <2> HIDE DEF row
  <2>4. /\ t \in PlanTasks /\ t.op = planning[w].op /\ t.org = planning[w].org /\ t.row = row
        /\ t.id = planning[w].id
    BY <1>1, <2>1 DEF PlanTasks
  <2> HIDE DEF t
  <2>5. \A p \in PlanIds : NamesPlan(t, p) =>
          NamesPlan(planning[w], p) \/ (subscriber[t.org] # None /\ subscriber[t.org].plan = p)
    BY <2>3, <2>4 DEF NamesPlan
  <2> QED BY <1>1, <1>2, <2>2, <2>4, <2>5, SaveGoesOn
<1>3. ASSUME NEW paid \in BOOLEAN, Planning(w, None),
             subscriber' = [subscriber EXCEPT ![planning[w].org] =
                              [plan |-> SavedPlan(planning[w]), paid |-> paid]]
      PROVE  PlansInv'
  <2> DEFINE row == [plan |-> SavedPlan(planning[w]), paid |-> paid]
  <2>1. SavedPlan(planning[w]) \in PlanIds \cup {None}
    BY <1>1 DEF PlanTasks, Subscribed, SavedPlan
  <2>2. SavedPlan(planning[w]) # None => NamesPlan(planning[w], SavedPlan(planning[w]))
    BY DEF SavedPlan, NamesPlan
  <2>3. row \in Subscribed /\ (row.plan # None => NamesPlan(planning[w], row.plan))
    BY <2>1, <2>2 DEF Subscribed
  <2>4. subscriber' = [subscriber EXCEPT ![planning[w].org] = row]
    BY <1>3
  <2> HIDE DEF row
  <2> QED BY <1>1, <1>3, <2>3, <2>4, SaveKeepsInv
<1>4. CASE planning[w].step = "look"
  BY <1>2, <1>4 DEF SavePlan
<1>5. CASE planning[w].step = "save"
  <2>1. \E paid \in BOOLEAN :
          subscriber' = [subscriber EXCEPT ![planning[w].org] = [plan |-> SavedPlan(planning[w]), paid |-> paid]]
    BY <1>5 DEF SavePlan
  <2>2. Planning(w, None)
    BY <1>5 DEF SavePlan
  <2> QED BY <1>3, <2>1, <2>2
<1> QED BY <1>4, <1>5 DEF SavePlan

LEMMA AbandonPlanKeeps == ASSUME PlansInv, NEW w \in Workers, AbandonPlan(w) PROVE PlansInv'
<1>1. /\ Planning(w, None) /\ plans' = plans /\ subscriber' = subscriber /\ expiry' = expiry
      /\ beside' = beside /\ beside \subseteq Subscribers
  BY DEF AbandonPlan, PlansInv, PlansTabled
<1> QED BY <1>1, NoTask, PlanReadKeepsInv

\* What the hourly run and the time do to plans deletes none.
LEMMA TimeKeeps ==
  ASSUME PlansInv, (\E p \in PlanIds : DeadlinePasses(p)) \/ RunDiscountExpiry \/ DeactivateExpired
  PROVE  PlansInv'
<1>1. /\ planning' = planning /\ subscriber' = subscriber /\ beside' = beside /\ planScope' = planScope
      /\ expiry' \in {"idle", "running"}
  BY DEF DeadlinePasses, RunDiscountExpiry, DeactivateExpired, PlansInv, PlansTabled
<1> DEFINE PlansStay == /\ plans' \in [PlanIds -> {None} \cup PlanData]
                   /\ \A p \in PlanIds : plans[p] # None => plans'[p] # None /\ plans'[p].life = plans[p].life
<1>2. PlansStay
  <2>1. plans \in [PlanIds -> {None} \cup PlanData]
    BY DEF PlansInv, PlansTabled
  <2>2. ASSUME NEW p \in PlanIds, DeadlinePasses(p)
        PROVE  PlansStay
    <3> DEFINE row == [plans[p] EXCEPT !.deadline = "over"]
    <3>1. plans[p] \in PlanData
      BY <2>1, <2>2 DEF DeadlinePasses
    <3>2. row \in PlanData /\ row.life = plans[p].life /\ row # None
      BY <3>1, PlansAssumption DEF PlanData, Deadlines
    <3>3. plans' = [plans EXCEPT ![p] = row]
      BY <2>2 DEF DeadlinePasses
    <3> HIDE DEF row
    <3> QED BY <2>1, <3>1, <3>2, <3>3, PlansAssumption
  <2>3. ASSUME DeactivateExpired PROVE PlansStay
    <3>1. ASSUME NEW old \in PlanData
          PROVE  /\ [old EXCEPT !.active = FALSE] \in PlanData
                 /\ [old EXCEPT !.active = FALSE].life = old.life
      BY DEF PlanData
    <3>2. \A p \in PlanIds : \/ plans'[p] = plans[p]
                             \/ plans[p] # None /\ plans'[p] = [plans[p] EXCEPT !.active = FALSE]
      BY <2>3 DEF DeactivateExpired, IsLive
    <3>3. plans' = [p \in PlanIds |-> plans'[p]]
      BY <2>1, <2>3 DEF DeactivateExpired
    <3>4. ASSUME NEW p \in PlanIds, plans[p] # None
          PROVE  plans'[p] # None /\ plans'[p] \in PlanData /\ plans'[p].life = plans[p].life
      <4> DEFINE row == [plans[p] EXCEPT !.active = FALSE]
      <4>1. plans[p] \in PlanData
        BY <2>1, <3>4
      <4>2. row \in PlanData /\ row.life = plans[p].life
        BY <3>1, <4>1
      <4>3. plans'[p] = plans[p] \/ plans'[p] = row
        BY <3>2
      <4> HIDE DEF row
      <4> QED BY <3>4, <4>1, <4>2, <4>3, PlansAssumption
    <3>5. \A p \in PlanIds : plans'[p] \in {None} \cup PlanData
      BY <2>1, <3>2, <3>4
    <3> QED BY <3>3, <3>4, <3>5
  <2>4. ASSUME RunDiscountExpiry PROVE PlansStay
    BY <2>1, <2>4 DEF RunDiscountExpiry
  <2> QED BY <2>2, <2>3, <2>4
<1>3. \A p \in PlanIds : plans[p] # None => plans'[p] # None /\ (IsDeleted(plans'[p]) => IsDeleted(plans[p]))
  BY <1>2 DEF IsDeleted
<1>4. planning' \in [Workers -> {None} \cup PlanTasks] /\ \A w \in Workers : planning'[w] = planning[w]
  BY <1>1 DEF PlansInv, PlansTabled
<1>5. plans' \in [PlanIds -> {None} \cup PlanData]
  BY <1>2
<1> HIDE DEF PlansStay
<1> QED BY <1>1, <1>3, <1>4, <1>5, PlansWriteKeepsInv

LEMMA PlansInvNext == PlansInv /\ [PlansNext]_plansVars => PlansInv'
<1> SUFFICES ASSUME PlansInv, [PlansNext]_plansVars PROVE PlansInv'
  OBVIOUS
<1>1. ASSUME NEW w \in Workers,
             \/ CreatePlan(w) \/ UpdatePlan(w) \/ DeletePlan(w)
             \/ SubscribeToPlan(w) \/ Synchronise(w) \/ Webhook(w) \/ PausePlan(w)
             \/ FindPlan(w) \/ SavePlan(w) \/ AbandonPlan(w)
      PROVE  PlansInv'
  BY <1>1, CreatePlanKeeps, UpdatePlanKeeps, DeletePlanKeeps, SubscribeKeeps, SynchroniseKeeps, WebhookKeeps,
     PauseKeeps, FindPlanKeeps, SavePlanKeeps, AbandonPlanKeeps
<1>2. CASE (\E p \in PlanIds : DeadlinePasses(p)) \/ RunDiscountExpiry \/ DeactivateExpired
  BY <1>2, TimeKeeps
<1>3. CASE UNCHANGED plansVars
  BY <1>3 DEF plansVars, PlansInv, PlansTabled, PlanReferred, PlanRefers, PlanSaves, PlanDeletes, NamesPlan, BesideSeen, PlanStaleSeen,
              CountedNone, DeletedPlansAreUnused
<1> QED BY <1>1, <1>2, <1>3 DEF PlansNext

LEMMA PlansInvInit == PlansInit => PlansInv
BY PlansAssumption DEF PlansInit, PlansInv, PlansTabled, PlanReferred, PlanRefers, PlanSaves, PlanDeletes, BesideSeen, PlanStaleSeen,
   CountedNone, DeletedPlansAreUnused

\* The invariant holds throughout.
THEOREM PlansInvariant == PlansSpec => []PlansInv
<1>1. PlansInit => PlansInv
  BY PlansInvInit
<1>2. PlansInv /\ [PlansNext]_plansVars => PlansInv'
  BY PlansInvNext
<1> QED BY <1>1, <1>2, PTL DEF PlansSpec

-----------------------------------------------------------------------------
\* deletePlanEndpoint and the writers of subscriptions: for any number of overlapping
\* handlers an organization is on a deleted plan only if its subscription was being
\* saved while a plan was being deleted.
THEOREM DeletedPlansHaveNoSubscribers == PlansSpec => []DeletedPlansAreUnused
<1>1. PlansInv => DeletedPlansAreUnused
  BY DEF PlansInv
<1> QED BY <1>1, PlansInvariant, PTL

\* Plans and subscriptions keep their types; the plan of a subscription is never gone.
THEOREM PlansTypes == PlansSpec => []PlansTypeOK
<1>1. PlansInv => PlansTypeOK
  BY DEF PlansInv, PlansTabled, PlanReferred, PlansTypeOK
<1> QED BY <1>1, PlansInvariant, PTL

-----------------------------------------------------------------------------
(*** Zones ***)

\* What a handler may keep.
PlaceTasks ==
  [op : ZoneCalls, step : {"region", "names", "zones", "write"}, id : RegionIds \cup ZoneIds \cup {None},
   region : RegionIds \cup {None}, name : PlaceNames \cup {None}, sets : SUBSET {"region", "name"}]

ZonesTabled ==
  /\ region \in [RegionIds -> {None} \cup RegionData]
  /\ zone \in [ZoneIds -> {None} \cup ZoneData]
  /\ placing \in [Workers -> {None} \cup PlaceTasks]
  /\ crossed \subseteq RegionIds
  /\ zoneScope \in ZoneScopes

\* A zone is to be written, in a region that was live when it was read.
ZoneSaves(t) == t # None /\ t.op \in {"createZone", "updateZone"} /\ t.step # "region"

ZoneRemoves(t) == t # None /\ t.op = "removeRegion"

\* The rows a handler is to write are there, and so is the region of its zone.
ZoneRefers(t) ==
  /\ t.op \in {"updateRegion", "removeRegion"} => t.id \in RegionIds /\ region[t.id] # None
  /\ t.op \in {"updateZone", "removeZone"} => t.id \in ZoneIds /\ zone[t.id] # None
  /\ t.op \in {"createZone", "updateZone"} => t.region \in RegionIds
  /\ ZoneSaves(t) => region[t.region] # None
  /\ t.op \in {"createRegion", "updateRegion", "createZone", "updateZone"} => t.name \in PlaceNames

ZoneReferred ==
  /\ \A z \in ZoneIds : zone[z] # None => region[zone[z].region] # None
  /\ \A w \in Workers : placing[w] # None => ZoneRefers(placing[w])

\* Who saves a zone in a region while another removes it, has crossed it.
CrossingSeen ==
  \A w, v \in Workers :
    ZoneSaves(placing[w]) /\ ZoneRemoves(placing[v]) /\ placing[v].id = placing[w].region => placing[v].id \in crossed

\* Who saves a zone in a region that is deleted by now, crossed its removal.
ZoneStaleSeen ==
  \A w \in Workers :
    ZoneSaves(placing[w]) /\ IsDeleted(region[placing[w].region]) => placing[w].region \in crossed

\* Who has found no zone in a region deletes one that has none, or is crossed.
EmptySeen ==
  \A v \in Workers, z \in ZoneIds :
    /\ ZoneRemoves(placing[v]) /\ placing[v].step = "write"
    /\ IsLive(zone[z]) /\ zone[z].region = placing[v].id
    => placing[v].id \in crossed

ZonesInv == ZonesTabled /\ ZoneReferred /\ CrossingSeen /\ ZoneStaleSeen /\ EmptySeen /\ LiveZonesHaveRegions

-----------------------------------------------------------------------------
(* Steps that only read *)

\* What a handler keeps after a read must be what the invariant says of it.
LEMMA ZoneReadKeepsInv ==
  ASSUME ZonesInv, NEW w \in Workers, NEW t \in {None} \cup PlaceTasks, NEW found \in SUBSET RegionIds,
         ReadsPlace(w, t, found),
         t # None => ZoneRefers(t),
         ZoneSaves(t) /\ IsDeleted(region[t.region]) => t.region \in crossed \cup found,
         \A v \in Workers \ {w} :
           /\ ZoneSaves(t) /\ ZoneRemoves(placing[v]) /\ placing[v].id = t.region => t.region \in crossed \cup found
           /\ ZoneRemoves(t) /\ ZoneSaves(placing[v]) /\ placing[v].region = t.id => t.id \in crossed \cup found,
         \A z \in ZoneIds :
           ZoneRemoves(t) /\ t.step = "write" /\ IsLive(zone[z]) /\ zone[z].region = t.id => t.id \in crossed \cup found
  PROVE  ZonesInv'
<1>1. /\ placing' = [placing EXCEPT ![w] = t] /\ crossed' = crossed \cup found
      /\ UNCHANGED <<region, zone, zoneScope>>
  BY DEF ReadsPlace, Placing
<1>2. placing'[w] = t /\ \A v \in Workers \ {w} : placing'[v] = placing[v]
  BY <1>1 DEF ZonesInv, ZonesTabled
<1>3. ZonesTabled'
  BY <1>1 DEF ZonesInv, ZonesTabled
<1>4. ZoneReferred'
  BY <1>1, <1>2 DEF ZonesInv, ZoneReferred, ZoneRefers
<1>5. CrossingSeen'
  BY <1>1, <1>2 DEF ZonesInv, CrossingSeen, ZoneSaves, ZoneRemoves
<1>6. ZoneStaleSeen'
  BY <1>1, <1>2 DEF ZonesInv, ZoneStaleSeen
<1>7. EmptySeen'
  BY <1>1, <1>2 DEF ZonesInv, EmptySeen
<1>8. LiveZonesHaveRegions'
  BY <1>1 DEF ZonesInv, LiveZonesHaveRegions
<1> QED BY <1>3, <1>4, <1>5, <1>6, <1>7, <1>8 DEF ZonesInv

-----------------------------------------------------------------------------
(* Steps that write *)

\* A region is inserted, or its name or life is written: a handler that deletes
\* it has found it empty.
LEMMA RegionWriteKeepsInv ==
  ASSUME ZonesInv, NEW w \in Workers, NEW r \in RegionIds, NEW row \in RegionData,
         WritesRegion(w, [region EXCEPT ![r] = row]),
         region[r] # None /\ IsDeleted(row) /\ ~ IsDeleted(region[r]) =>
           ZoneRemoves(placing[w]) /\ placing[w].step = "write" /\ placing[w].id = r,
         region[r] = None => IsLive(row)
  PROVE  ZonesInv'
<1>1. /\ placing' = [placing EXCEPT ![w] = None] /\ region' = [region EXCEPT ![r] = row]
      /\ UNCHANGED <<zone, crossed, zoneScope>>
  BY DEF WritesRegion, Placing
<1>2. placing'[w] = None /\ \A v \in Workers \ {w} : placing'[v] = placing[v]
  BY <1>1 DEF ZonesInv, ZonesTabled
<1>3. /\ region'[r] = row /\ row # None
      /\ \A q \in RegionIds \ {r} : region'[q] = region[q]
  BY <1>1, ZonesAssumption DEF ZonesInv, ZonesTabled
<1>4. ZonesTabled'
  BY <1>1 DEF ZonesInv, ZonesTabled
<1>5. ZoneReferred'
  <2>1. \A z \in ZoneIds : zone[z] # None => zone[z].region \in RegionIds
    BY DEF ZonesInv, ZonesTabled, ZoneData
  <2> QED BY <1>1, <1>2, <1>3, <2>1 DEF ZonesInv, ZoneReferred, ZoneRefers, ZoneSaves
<1>6. CrossingSeen'
  BY <1>1, <1>2 DEF ZonesInv, CrossingSeen, ZoneSaves, ZoneRemoves
<1>7. ZoneStaleSeen'
  <2> SUFFICES ASSUME NEW v \in Workers, ZoneSaves(placing'[v]), IsDeleted(region'[placing'[v].region])
               PROVE  placing'[v].region \in crossed
    BY <1>1 DEF ZoneStaleSeen, IsDeleted
  <2>1. v # w /\ placing'[v] = placing[v] /\ ZoneRefers(placing[v])
    BY <1>2 DEF ZoneSaves, ZonesInv, ZoneReferred
  <2>2. placing[v].region \in RegionIds /\ region[placing[v].region] # None
    BY <2>1 DEF ZoneRefers, ZoneSaves
  <2>3. CASE IsDeleted(region[placing[v].region])
    BY <2>1, <2>3 DEF ZonesInv, ZoneStaleSeen
  <2>4. CASE ~ IsDeleted(region[placing[v].region])
    <3>1. placing[v].region = r
      BY <1>3, <2>1, <2>2, <2>4
    <3>2. ZoneRemoves(placing[w]) /\ placing[w].id = r
      BY <1>3, <2>1, <2>2, <2>4, <3>1
    <3> QED BY <2>1, <3>1, <3>2 DEF ZonesInv, CrossingSeen
  <2> QED BY <2>3, <2>4
<1>8. EmptySeen'
  BY <1>1, <1>2 DEF ZonesInv, EmptySeen, ZoneRemoves
<1>9. LiveZonesHaveRegions'
  <2> SUFFICES ASSUME NEW z \in ZoneIds, IsLive(zone[z]), IsDeleted(region'[zone[z].region])
               PROVE  zone[z].region \in crossed
    BY <1>1 DEF LiveZonesHaveRegions, IsLive, IsDeleted
  <2>1. zone[z].region \in RegionIds /\ region[zone[z].region] # None
    BY DEF IsLive, ZonesInv, ZonesTabled, ZoneData, ZoneReferred
  <2>2. CASE IsDeleted(region[zone[z].region])
    BY <2>2 DEF ZonesInv, LiveZonesHaveRegions
  <2>3. CASE ~ IsDeleted(region[zone[z].region])
    <3>1. zone[z].region = r
      BY <1>3, <2>1, <2>3
    <3>2. ZoneRemoves(placing[w]) /\ placing[w].step = "write" /\ placing[w].id = r
      BY <1>3, <2>1, <2>3, <3>1
    <3> QED BY <3>1, <3>2 DEF ZonesInv, EmptySeen
  <2> QED BY <2>2, <2>3
<1> QED BY <1>4, <1>5, <1>6, <1>7, <1>8, <1>9 DEF ZonesInv

\* A zone is inserted or written: it stays where it was, or is where its
\* handler has found a live region.
LEMMA ZoneWriteKeepsInv ==
  ASSUME ZonesInv, NEW w \in Workers, NEW z \in ZoneIds, NEW row \in ZoneData,
         WritesZone(w, [zone EXCEPT ![z] = row]),
         \/ zone[z] # None /\ row.region = zone[z].region /\ (IsLive(row) => IsLive(zone[z]))
         \/ ZoneSaves(placing[w]) /\ row.region = placing[w].region
  PROVE  ZonesInv'
<1>1. /\ placing' = [placing EXCEPT ![w] = None] /\ zone' = [zone EXCEPT ![z] = row]
      /\ UNCHANGED <<region, crossed, zoneScope>>
  BY DEF WritesZone, Placing
<1>2. placing'[w] = None /\ \A v \in Workers \ {w} : placing'[v] = placing[v]
  BY <1>1 DEF ZonesInv, ZonesTabled
<1>3. /\ zone'[z] = row /\ row # None
      /\ \A y \in ZoneIds \ {z} : zone'[y] = zone[y]
  BY <1>1, ZonesAssumption DEF ZonesInv, ZonesTabled
<1>4. ZonesTabled'
  BY <1>1 DEF ZonesInv, ZonesTabled
<1>5. ZoneReferred'
  <2>1. region[row.region] # None
    BY DEF ZonesInv, ZoneReferred, ZoneRefers, ZoneSaves
  <2> QED BY <1>1, <1>2, <1>3, <2>1 DEF ZonesInv, ZoneReferred, ZoneRefers, ZoneSaves
<1>6. CrossingSeen'
  BY <1>1, <1>2 DEF ZonesInv, CrossingSeen, ZoneSaves, ZoneRemoves
<1>7. ZoneStaleSeen'
  BY <1>1, <1>2 DEF ZonesInv, ZoneStaleSeen, ZoneSaves
<1>8. EmptySeen'
  BY <1>1, <1>2, <1>3 DEF ZonesInv, EmptySeen, CrossingSeen, ZoneRemoves
<1>9. LiveZonesHaveRegions'
  BY <1>1, <1>3 DEF ZonesInv, LiveZonesHaveRegions, ZoneStaleSeen
<1> QED BY <1>4, <1>5, <1>6, <1>7, <1>8, <1>9 DEF ZonesInv

-----------------------------------------------------------------------------
(* Every step keeps the invariant *)

\* What the handlers are given are names and regions.
LEMMA ScopeNames == ASSUME ZonesInv PROVE zoneScope.names \subseteq PlaceNames
BY ZonesAssumption DEF ZonesInv, ZonesTabled

\* A task of a handler is one of PlaceTasks, and refers to rows that are there.
LEMMA ZoneTaskKept ==
  ASSUME ZonesInv, NEW w \in Workers, placing[w] # None
  PROVE  placing[w] \in PlaceTasks /\ ZoneRefers(placing[w])
BY DEF ZonesInv, ZonesTabled, ZoneReferred

\* Nothing of a task but its step changes between two reads.
LEMMA NextStep ==
  ASSUME ZonesInv, NEW w \in Workers, placing[w] # None,
         placing[w].step # "region", placing[w].op # "removeRegion",
         ReadsPlace(w, [placing[w] EXCEPT !.step = "write"], {})
  PROVE  ZonesInv'
<1> DEFINE t == [placing[w] EXCEPT !.step = "write"]
<1>1. placing[w] \in PlaceTasks /\ ZoneRefers(placing[w])
  BY ZoneTaskKept
<1>2. /\ t \in PlaceTasks /\ t.op = placing[w].op /\ t.id = placing[w].id
      /\ t.region = placing[w].region /\ t.name = placing[w].name /\ t.step = "write"
  BY <1>1 DEF PlaceTasks
<1>3. (ZoneSaves(t) => ZoneSaves(placing[w])) /\ ~ ZoneRemoves(t)
  BY <1>2 DEF ZoneSaves, ZoneRemoves
<1>4. t # None => ZoneRefers(t)
  BY <1>1, <1>2, <1>3 DEF ZoneRefers
<1>5. ZoneSaves(t) /\ IsDeleted(region[t.region]) => t.region \in crossed
  BY <1>2, <1>3 DEF ZonesInv, ZoneStaleSeen
<1>6. \A v \in Workers : ZoneSaves(t) /\ ZoneRemoves(placing[v]) /\ placing[v].id = t.region => t.region \in crossed
  BY <1>2, <1>3 DEF ZonesInv, CrossingSeen
<1>7. ReadsPlace(w, t, {})
  OBVIOUS
<1> HIDE DEF t
<1> QED BY <1>2, <1>3, <1>4, <1>5, <1>6, <1>7, ZoneReadKeepsInv

LEMMA CreateRegionKeeps == ASSUME ZonesInv, NEW w \in Workers, CreateRegion(w) PROVE ZonesInv'
<1>1. ASSUME NEW name \in zoneScope.names,
             ReadsPlace(w, PlaceTask("createRegion", "write", None, None, name), {})
      PROVE  ZonesInv'
  <2> DEFINE t == PlaceTask("createRegion", "write", None, None, name)
  <2>1. name \in PlaceNames
    BY ScopeNames
  <2>2. t \in PlaceTasks /\ t.op = "createRegion" /\ t.name = name
    BY <2>1 DEF PlaceTask, PlaceTasks, ZoneCalls
  <2>3. ZoneRefers(t) /\ ~ ZoneSaves(t) /\ ~ ZoneRemoves(t)
    BY <2>1, <2>2 DEF ZoneRefers, ZoneSaves, ZoneRemoves
  <2> HIDE DEF t
  <2> QED BY <1>1, <2>2, <2>3, ZoneReadKeepsInv DEF t
<1>2. ASSUME PlaceAt(w, "createRegion", "write"), NEW r \in NextIds(region, RegionIds),
             WritesRegion(w, [region EXCEPT ![r] = [name |-> placing[w].name, life |-> "live"]])
      PROVE  ZonesInv'
  <2> DEFINE row == [name |-> placing[w].name, life |-> "live"]
  <2>1. r \in RegionIds /\ region[r] = None
    BY DEF NextIds
  <2>2. row \in RegionData
    BY <1>2, ZoneTaskKept DEF PlaceAt, ZoneRefers, RegionData
  <2>3. IsLive(row)
    BY <2>2, ZonesAssumption DEF IsLive
  <2> HIDE DEF row
  <2> QED BY <1>2, <2>1, <2>2, <2>3, RegionWriteKeepsInv DEF row
<1> QED BY <1>1, <1>2 DEF CreateRegion

LEMMA UpdateRegionKeeps == ASSUME ZonesInv, NEW w \in Workers, UpdateRegion(w) PROVE ZonesInv'
<1>1. ASSUME NEW r \in RegionIds, NEW name \in zoneScope.names, IsLive(region[r]),
             ReadsPlace(w, PlaceTask("updateRegion", "names", r, None, name), {})
      PROVE  ZonesInv'
  <2> DEFINE t == PlaceTask("updateRegion", "names", r, None, name)
  <2>1. name \in PlaceNames
    BY ScopeNames
  <2>2. t \in PlaceTasks /\ t.op = "updateRegion" /\ t.name = name /\ t.id = r
    BY <2>1 DEF PlaceTask, PlaceTasks, ZoneCalls
  <2>3. ZoneRefers(t) /\ ~ ZoneSaves(t) /\ ~ ZoneRemoves(t)
    BY <1>1, <2>1, <2>2 DEF ZoneRefers, ZoneSaves, ZoneRemoves, IsLive
  <2> HIDE DEF t
  <2> QED BY <1>1, <2>2, <2>3, ZoneReadKeepsInv DEF t
<1>2. ASSUME PlaceAt(w, "updateRegion", "names"), ReadsPlace(w, [placing[w] EXCEPT !.step = "write"], {})
      PROVE  ZonesInv'
  BY <1>2, NextStep DEF PlaceAt
<1>3. ASSUME PlaceAt(w, "updateRegion", "write"),
             WritesRegion(w, [region EXCEPT ![placing[w].id].name = placing[w].name])
      PROVE  ZonesInv'
  <2> DEFINE r == placing[w].id
             row == [region[r] EXCEPT !.name = placing[w].name]
  <2>1. r \in RegionIds /\ region[r] # None /\ placing[w].name \in PlaceNames
    BY <1>3, ZoneTaskKept DEF PlaceAt, ZoneRefers
  <2>2. region[r] \in RegionData
    BY <2>1 DEF ZonesInv, ZonesTabled
  <2>3. row \in RegionData /\ row.life = region[r].life
    BY <2>1, <2>2 DEF RegionData
  <2>4. IsDeleted(row) => IsDeleted(region[r])
    BY <2>1, <2>3 DEF IsDeleted
  <2>5. WritesRegion(w, [region EXCEPT ![r] = row])
    BY <1>3
  <2> HIDE DEF r, row
  <2> QED BY <2>1, <2>3, <2>4, <2>5, RegionWriteKeepsInv
<1> QED BY <1>1, <1>2, <1>3 DEF UpdateRegion

LEMMA RemoveRegionKeeps == ASSUME ZonesInv, NEW w \in Workers, RemoveRegion(w) PROVE ZonesInv'
<1>1. ASSUME NEW r \in RegionIds, IsLive(region[r]), PlaceStarts(w, "removeRegion"),
             ReadsPlace(w, PlaceTask("removeRegion", "zones", r, None, None), IF SavingZone(r) THEN {r} ELSE {})
      PROVE  ZonesInv'
  <2> DEFINE t == PlaceTask("removeRegion", "zones", r, None, None)
             found == IF SavingZone(r) THEN {r} ELSE {}
  <2>1. t \in PlaceTasks /\ t.op = "removeRegion" /\ t.id = r /\ t.step = "zones"
    BY DEF PlaceTask, PlaceTasks, ZoneCalls
  <2>2. ZoneRefers(t) /\ ~ ZoneSaves(t)
    BY <1>1, <2>1 DEF ZoneRefers, ZoneSaves, IsLive
  <2>3. found \in SUBSET RegionIds
    OBVIOUS
  <2>4. ASSUME NEW v \in Workers, ZoneSaves(placing[v]), placing[v].region = r
        PROVE  r \in found
    BY <2>4 DEF SavingZone, ZoneSaves
  <2> HIDE DEF t, found
  <2> QED BY <1>1, <2>1, <2>2, <2>3, <2>4, ZoneReadKeepsInv DEF t, found
<1>2. ASSUME PlaceAt(w, "removeRegion", "zones"), ~ FindActiveZoneByRegionId(placing[w].id),
             ReadsPlace(w, [placing[w] EXCEPT !.step = "write"], {})
      PROVE  ZonesInv'
  <2> DEFINE t == [placing[w] EXCEPT !.step = "write"]
  <2>1. placing[w] \in PlaceTasks /\ ZoneRefers(placing[w])
    BY <1>2, ZoneTaskKept DEF PlaceAt
  <2>2. t \in PlaceTasks /\ t.op = "removeRegion" /\ t.id = placing[w].id /\ t.step = "write"
    BY <1>2, <2>1 DEF PlaceTasks, PlaceAt
  <2>3. ZoneRefers(t) /\ ~ ZoneSaves(t)
    BY <1>2, <2>1, <2>2 DEF ZoneRefers, ZoneSaves, PlaceAt
  <2>4. ZoneRemoves(placing[w])
    BY <1>2 DEF PlaceAt, ZoneRemoves
  <2>5. \A v \in Workers : ZoneSaves(placing[v]) /\ placing[v].region = t.id => t.id \in crossed
    BY <2>2, <2>4 DEF ZonesInv, CrossingSeen
  <2>6. \A z \in ZoneIds : ~ (IsLive(zone[z]) /\ zone[z].region = t.id)
    BY <1>2, <2>2 DEF FindActiveZoneByRegionId
  <2>7. ReadsPlace(w, t, {})
    BY <1>2
  <2> HIDE DEF t
  <2> QED BY <2>2, <2>3, <2>5, <2>6, <2>7, ZoneReadKeepsInv
<1>3. ASSUME PlaceAt(w, "removeRegion", "write"),
             WritesRegion(w, [region EXCEPT ![placing[w].id] = SetLife(@, "deleted")])
      PROVE  ZonesInv'
  <2> DEFINE r == placing[w].id
             row == SetLife(region[r], "deleted")
  <2>1. r \in RegionIds /\ region[r] # None
    BY <1>3, ZoneTaskKept DEF PlaceAt, ZoneRefers
  <2>2. region[r] \in RegionData
    BY <2>1 DEF ZonesInv, ZonesTabled
  <2>3. row \in RegionData
    BY <2>2 DEF RegionData, SetLife
  <2>4. ZoneRemoves(placing[w]) /\ placing[w].step = "write" /\ placing[w].id = r
    BY <1>3 DEF PlaceAt, ZoneRemoves
  <2>5. WritesRegion(w, [region EXCEPT ![r] = row])
    BY <1>3
  <2> HIDE DEF r, row
  <2> QED BY <2>1, <2>3, <2>4, <2>5, RegionWriteKeepsInv
<1> QED BY <1>1, <1>2, <1>3 DEF RemoveRegion

\* The region of a zone is found live: whoever removes it now is crossed.
LEMMA RegionReadKeeps ==
  ASSUME ZonesInv, NEW w \in Workers, NEW t \in PlaceTasks, ZoneRefers(t), t.op \in {"createZone", "updateZone"},
         placing[w] = None \/ placing[w].op = "updateZone", ReadsRegionOf(w, t)
  PROVE  ZonesInv'
<1> DEFINE found == IF Removing(t.region) THEN {t.region} ELSE {}
<1>1. t.region \in RegionIds /\ IsLive(region[t.region]) /\ ~ IsDeleted(region[t.region]) /\ ~ ZoneRemoves(t)
  BY DEF ReadsRegionOf, ZoneRefers, IsLive, IsDeleted, ZoneRemoves
<1>2. ReadsPlace(w, t, found) /\ found \in SUBSET RegionIds
  BY <1>1 DEF ReadsRegionOf
<1>3. \A v \in Workers : ZoneRemoves(placing[v]) /\ placing[v].id = t.region => t.region \in found
  BY DEF Removing, ZoneRemoves
<1> HIDE DEF found
<1> QED BY <1>1, <1>2, <1>3, ZoneReadKeepsInv

\* The names in its region are read.
LEMMA NamesReadKeeps ==
  ASSUME ZonesInv, NEW w \in Workers, NEW op \in {"createZone", "updateZone"}, ChecksZoneName(w, op)
  PROVE  ZonesInv'
BY NextStep DEF ChecksZoneName, PlaceAt

LEMMA CreateZoneKeeps == ASSUME ZonesInv, NEW w \in Workers, CreateZone(w) PROVE ZonesInv'
<1>1. ASSUME NEW r \in RegionIds, NEW name \in zoneScope.names, PlaceStarts(w, "createZone"),
             ReadsRegionOf(w, PlaceTask("createZone", "names", None, r, name))
      PROVE  ZonesInv'
  <2> DEFINE t == PlaceTask("createZone", "names", None, r, name)
  <2>1. name \in PlaceNames
    BY ScopeNames
  <2>2. t \in PlaceTasks /\ t.op = "createZone" /\ t.name = name /\ t.region = r
    BY <2>1 DEF PlaceTask, PlaceTasks, ZoneCalls
  <2>3. region[r] # None
    BY <1>1, <2>2 DEF ReadsRegionOf, IsLive
  <2>4. ZoneRefers(t)
    BY <2>1, <2>2, <2>3 DEF ZoneRefers
  <2> HIDE DEF t
  <2> QED BY <1>1, <2>2, <2>4, RegionReadKeeps DEF t, PlaceStarts
<1>2. ASSUME ChecksZoneName(w, "createZone") PROVE ZonesInv'
  BY <1>2, NamesReadKeeps
<1>3. ASSUME PlaceAt(w, "createZone", "write"), NEW z \in NextIds(zone, ZoneIds),
             WritesZone(w, [zone EXCEPT ![z] = [name |-> placing[w].name, region |-> placing[w].region,
                                                life |-> "live"]])
      PROVE  ZonesInv'
  <2> DEFINE row == [name |-> placing[w].name, region |-> placing[w].region, life |-> "live"]
  <2>1. z \in ZoneIds
    BY DEF NextIds
  <2>2. row \in ZoneData /\ row.region = placing[w].region
    BY <1>3, ZoneTaskKept DEF PlaceAt, ZoneRefers, ZoneData
  <2>3. ZoneSaves(placing[w])
    BY <1>3 DEF PlaceAt, ZoneSaves
  <2> HIDE DEF row
  <2> QED BY <1>3, <2>1, <2>2, <2>3, ZoneWriteKeepsInv DEF row
<1> QED BY <1>1, <1>2, <1>3 DEF CreateZone

LEMMA UpdateZoneKeeps == ASSUME ZonesInv, NEW w \in Workers, UpdateZone(w) PROVE ZonesInv'
<1>1. ASSUME NEW z \in ZoneIds, NEW r \in RegionIds \cup {None}, NEW name \in zoneScope.names \cup {None},
             IsLive(zone[z]),
             ReadsPlace(w, [PlaceTask("updateZone", "region", z, IF r = None THEN zone[z].region ELSE r,
                                      IF name = None THEN zone[z].name ELSE name)
                             EXCEPT !.sets = (IF r = None THEN {} ELSE {"region"})
                                               \cup IF name = None THEN {} ELSE {"name"}],
                        {})
      PROVE  ZonesInv'
  <2> DEFINE newRegion == IF r = None THEN zone[z].region ELSE r
             newName == IF name = None THEN zone[z].name ELSE name
             named == (IF r = None THEN {} ELSE {"region"}) \cup IF name = None THEN {} ELSE {"name"}
             t == [PlaceTask("updateZone", "region", z, newRegion, newName) EXCEPT !.sets = named]
  <2>1. zone[z] # None /\ zone[z] \in ZoneData
    BY <1>1 DEF IsLive, ZonesInv, ZonesTabled
  <2>2. newRegion \in RegionIds /\ newName \in PlaceNames
    BY <2>1, ScopeNames DEF ZoneData
  <2>3. named \in SUBSET {"region", "name"}
    OBVIOUS
  <2>4. ReadsPlace(w, t, {})
    BY <1>1
  <2> HIDE DEF newRegion, newName, named
  <2>5. t \in PlaceTasks /\ t.op = "updateZone" /\ t.step = "region" /\ t.id = z
          /\ t.region = newRegion /\ t.name = newName
    BY <2>2, <2>3 DEF PlaceTask, PlaceTasks, ZoneCalls
  <2> HIDE DEF t
  <2>6. ZoneRefers(t) /\ ~ ZoneSaves(t) /\ ~ ZoneRemoves(t)
    BY <2>1, <2>2, <2>5 DEF ZoneRefers, ZoneSaves, ZoneRemoves
  <2> QED BY <2>4, <2>5, <2>6, ZoneReadKeepsInv
<1>2. ASSUME PlaceAt(w, "updateZone", "region"), ReadsRegionOf(w, [placing[w] EXCEPT !.step = "names"])
      PROVE  ZonesInv'
  <2> DEFINE t == [placing[w] EXCEPT !.step = "names"]
  <2>1. placing[w] \in PlaceTasks /\ ZoneRefers(placing[w]) /\ placing[w].op = "updateZone"
    BY <1>2, ZoneTaskKept DEF PlaceAt
  <2>2. t \in PlaceTasks /\ t.op = "updateZone" /\ t.id = placing[w].id /\ t.region = placing[w].region
          /\ t.name = placing[w].name
    BY <2>1 DEF PlaceTasks
  <2>3. region[t.region] # None
    BY <1>2 DEF ReadsRegionOf, IsLive
  <2>4. ZoneRefers(t)
    BY <2>1, <2>2, <2>3 DEF ZoneRefers
  <2> HIDE DEF t
  <2> QED BY <1>2, <2>1, <2>2, <2>4, RegionReadKeeps DEF t
<1>3. ASSUME ChecksZoneName(w, "updateZone") PROVE ZonesInv'
  BY <1>3, NamesReadKeeps
<1>4. ASSUME PlaceAt(w, "updateZone", "write"),
             WritesZone(w, [zone EXCEPT ![placing[w].id] = SetZone(@, placing[w])])
      PROVE  ZonesInv'
  <2> DEFINE z == placing[w].id
             row == SetZone(zone[z], placing[w])
  <2>1. /\ z \in ZoneIds /\ zone[z] # None
        /\ placing[w].region \in RegionIds /\ placing[w].name \in PlaceNames
    BY <1>4, ZoneTaskKept DEF PlaceAt, ZoneRefers
  <2>2. zone[z] \in ZoneData
    BY <2>1 DEF ZonesInv, ZonesTabled
  <2>3. /\ row \in ZoneData /\ row.life = zone[z].life
        /\ row.region = zone[z].region \/ row.region = placing[w].region
    BY <2>1, <2>2 DEF ZoneData, SetZone
  <2>4. IsLive(row) => IsLive(zone[z])
    BY <2>1, <2>3 DEF IsLive
  <2>5. ZoneSaves(placing[w]) /\ WritesZone(w, [zone EXCEPT ![z] = row])
    BY <1>4 DEF PlaceAt, ZoneSaves
  <2> HIDE DEF z, row
  <2> QED BY <2>1, <2>3, <2>4, <2>5, ZoneWriteKeepsInv
<1> QED BY <1>1, <1>2, <1>3, <1>4 DEF UpdateZone

LEMMA RemoveZoneKeeps == ASSUME ZonesInv, NEW w \in Workers, RemoveZone(w) PROVE ZonesInv'
<1>1. ASSUME NEW z \in ZoneIds, IsLive(zone[z]),
             ReadsPlace(w, PlaceTask("removeZone", "write", z, None, None), {})
      PROVE  ZonesInv'
  <2> DEFINE t == PlaceTask("removeZone", "write", z, None, None)
  <2>1. t \in PlaceTasks /\ t.op = "removeZone" /\ t.id = z
    BY DEF PlaceTask, PlaceTasks, ZoneCalls
  <2>2. ZoneRefers(t) /\ ~ ZoneSaves(t) /\ ~ ZoneRemoves(t)
    BY <1>1, <2>1 DEF ZoneRefers, ZoneSaves, ZoneRemoves, IsLive
  <2> HIDE DEF t
  <2> QED BY <1>1, <2>1, <2>2, ZoneReadKeepsInv DEF t
<1>2. ASSUME PlaceAt(w, "removeZone", "write"),
             WritesZone(w, [zone EXCEPT ![placing[w].id] = SetLife(@, "deleted")])
      PROVE  ZonesInv'
  <2> DEFINE z == placing[w].id
             row == SetLife(zone[z], "deleted")
  <2>1. z \in ZoneIds /\ zone[z] # None
    BY <1>2, ZoneTaskKept DEF PlaceAt, ZoneRefers
  <2>2. zone[z] \in ZoneData
    BY <2>1 DEF ZonesInv, ZonesTabled
  <2>3. row \in ZoneData /\ row.region = zone[z].region
    BY <2>2 DEF ZoneData, SetLife
  <2>4. IsLive(row) => IsLive(zone[z])
    BY <2>1, <2>2 DEF IsLive, SetLife, Exists, IsDeleted, ZoneData
  <2>5. WritesZone(w, [zone EXCEPT ![z] = row])
    BY <1>2
  <2> HIDE DEF z, row
  <2> QED BY <2>1, <2>3, <2>4, <2>5, ZoneWriteKeepsInv
<1> QED BY <1>1, <1>2 DEF RemoveZone

LEMMA AbandonPlaceKeeps == ASSUME ZonesInv, NEW w \in Workers, AbandonPlace(w) PROVE ZonesInv'
<1>1. ReadsPlace(w, None, {}) /\ ~ ZoneSaves(None) /\ ~ ZoneRemoves(None)
  BY DEF AbandonPlace, ReadsPlace, ZoneSaves, ZoneRemoves
<1> QED BY <1>1, ZoneReadKeepsInv

LEMMA ZonesInvNext == ZonesInv /\ [ZonesNext]_zonesVars => ZonesInv'
<1> SUFFICES ASSUME ZonesInv, [ZonesNext]_zonesVars PROVE ZonesInv'
  OBVIOUS
<1>1. ASSUME NEW w \in Workers,
             \/ CreateRegion(w) \/ UpdateRegion(w) \/ RemoveRegion(w)
             \/ CreateZone(w) \/ UpdateZone(w) \/ RemoveZone(w) \/ AbandonPlace(w)
      PROVE  ZonesInv'
  BY <1>1, CreateRegionKeeps, UpdateRegionKeeps, RemoveRegionKeeps, CreateZoneKeeps, UpdateZoneKeeps,
     RemoveZoneKeeps, AbandonPlaceKeeps
<1>2. CASE UNCHANGED zonesVars
  BY <1>2 DEF zonesVars, ZonesInv, ZonesTabled, ZoneReferred, ZoneRefers, ZoneSaves, ZoneRemoves, CrossingSeen, ZoneStaleSeen, EmptySeen,
              LiveZonesHaveRegions
<1> QED BY <1>1, <1>2 DEF ZonesNext

LEMMA ZonesInvInit == ZonesInit => ZonesInv
BY ZonesAssumption DEF ZonesInit, ZonesInv, ZonesTabled, ZoneReferred, ZoneRefers, ZoneSaves, ZoneRemoves, CrossingSeen, ZoneStaleSeen,
   EmptySeen, LiveZonesHaveRegions, IsLive, IsDeleted

\* The invariant holds throughout.
THEOREM ZonesInvariant == ZonesSpec => []ZonesInv
<1>1. ZonesInit => ZonesInv
  BY ZonesInvInit
<1>2. ZonesInv /\ [ZonesNext]_zonesVars => ZonesInv'
  BY ZonesInvNext
<1> QED BY <1>1, <1>2, PTL DEF ZonesSpec

-----------------------------------------------------------------------------
\* removeRegion and the writers of zones of kernel/zone-region/handler.ts: for any
\* number of overlapping handlers a live zone is in a deleted region only if its
\* writing crossed the removal.
THEOREM LiveZonesAreInRegions == ZonesSpec => []LiveZonesHaveRegions
<1>1. ZonesInv => LiveZonesHaveRegions
  BY DEF ZonesInv
<1> QED BY <1>1, ZonesInvariant, PTL

\* Regions and zones keep their types, and the region of a zone is never gone.
THEOREM ZonesTypes == ZonesSpec => []ZonesTypeOK
<1>1. ZonesInv => ZonesTypeOK
  BY DEF ZonesInv, ZonesTabled, ZoneReferred, ZonesTypeOK
<1> QED BY <1>1, ZonesInvariant, PTL

-----------------------------------------------------------------------------
(* The platform *)

LEMMA PlatformInits ==
  PlatformInit => /\ TenancyInit /\ PropertiesInit /\ NotificationsInit /\ MeetingPartiesInit
                  /\ RolesInit /\ PlansInit /\ ZonesInit /\ StaffInit /\ SocketProxyInit
BY DEF PlatformInit

\* A step of the platform is a step of the busy component, and stutters elsewhere.
LEMMA PlatformSteps ==
  ASSUME [PlatformNext]_platformVars
  PROVE  /\ [TenancyNext]_tenancyVars /\ [PropertiesNext]_propertiesVars
         /\ [NotificationsNext]_notificationsVars /\ [MeetingPartiesNext]_meetingPartiesVars
         /\ [RolesNext]_rolesVars /\ [PlansNext]_plansVars /\ [ZonesNext]_zonesVars
         /\ [StaffNext]_staffVars /\ [SocketProxyNext]_proxyVars
<1>1. CASE UNCHANGED platformVars
  BY <1>1 DEF platformVars
<1>2. CASE PlatformNext
  BY <1>2 DEF PlatformNext, Still
<1> QED BY <1>1, <1>2

\* Each behaviour of the platform is one of every component: one that is not busy
\* stands still, with its tables as they were at first.
THEOREM Composition ==
  PlatformSpec => /\ TenancySpec /\ PropertiesSpec /\ NotificationsSpec /\ MeetingPartiesSpec
                  /\ RolesSpec /\ PlansSpec /\ ZonesSpec /\ StaffSpec /\ SocketProxySpec
<1>1. PlatformInit => /\ TenancyInit /\ PropertiesInit /\ NotificationsInit /\ MeetingPartiesInit
                      /\ RolesInit /\ PlansInit /\ ZonesInit /\ StaffInit /\ SocketProxyInit
  BY PlatformInits
<1>2. [PlatformNext]_platformVars =>
        /\ [TenancyNext]_tenancyVars /\ [PropertiesNext]_propertiesVars
        /\ [NotificationsNext]_notificationsVars /\ [MeetingPartiesNext]_meetingPartiesVars
        /\ [RolesNext]_rolesVars /\ [PlansNext]_plansVars /\ [ZonesNext]_zonesVars
        /\ [StaffNext]_staffVars /\ [SocketProxyNext]_proxyVars
  BY PlatformSteps
<1> QED BY <1>1, <1>2, PTL DEF PlatformSpec, TenancySpec, PropertiesSpec, NotificationsSpec,
          MeetingPartiesSpec, RolesSpec, PlansSpec, ZonesSpec, StaffSpec, SocketProxySpec

\* The tables of every component keep their types, their references and the cascades
\* of their foreign keys, however many handlers there are.
THEOREM PlatformTypes == PlatformSpec => []PlatformTypeOK
BY Composition, TenancyTypes, PropertiesTypes, NotificationsTypes, PartiesTypes, RolesTypes,
   PlansTypes, ZonesTypes, StaffTypes, ProxyTypes, PTL DEF PlatformTypeOK

\* What the components promise holds side by side: nobody but a founder is an owner,
\* limits are exceeded by overlapping handlers only, and so on through every invariant
\* of the platform.
THEOREM PlatformPromises ==
  PlatformSpec =>
    [](/\ OwnerIsFounder /\ BoundedOvershoot /\ CustomerIsOwn
       /\ OneKindOfDetails /\ BoundedProperties /\ PublishedIsAnnounced
       /\ QuietIsSubscribed /\ OneTokenPerDevice
       /\ RecordedLinkIsInvited
       /\ TwinsOverlapped /\ EveryRoleIsManaged
       /\ DeletedPlansAreUnused /\ LiveZonesHaveRegions /\ PhonesDiffer
       /\ ForwardedInOrder /\ ClosedTogether /\ ClosesWithValidCodes)
BY Composition, OwnersAreFounders, OvershootBounded, CustomersAreOwn, OneKind, BoundedByHandlers,
   Announced, QuietSubscription, OneToken, RecordedLink, RoleTwins, RolesManaged,
   DeletedPlansHaveNoSubscribers, LiveZonesAreInRegions, PhonesAreUnique,
   ProxyForwardsInOrder, ProxyClosesTogether, ProxyClosesWithValidCodes, PTL

\* And what no step of it does: a system template is not lost, an owner's role not
\* changed, a user who is no broker not written as one.
THEOREM PlatformSteadies ==
  PlatformSpec => SystemTemplateKept /\ OwnerRoleGuarded /\ BrokersOnly
BY Composition, SystemTemplate, OwnersGuarded, BrokersRouterWritesBrokers, PTL

=============================================================================
