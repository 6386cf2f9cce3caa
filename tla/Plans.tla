--------------------------------- MODULE Plans ---------------------------------
(***************************************************************************)
(* Subscription plans, and which plan an organization is on.  A plan names a   *)
(* plan of Razorpay; an organization subscribes to an active plan, and a later *)
(* synchronisation or notification finds the plan again by the Razorpay plan   *)
(* of the subscription.  A plan that has subscriptions is not deleted, by a count before the     *)
(* UPDATE.  Module Subscription has the subscriptions themselves in detail.      *)
(***************************************************************************)
EXTENDS Tables, Naturals, FiniteSets

CONSTANTS
  PlanIds,        \* primary keys (bounds the inserts)
  PlanCodes,      \* normalized codes
  RazorpayPlans,  \* plan ids of Razorpay
  Subscribers,    \* organizations
  PlanBodies,     \* what is sent: the columns a body names, with their values
  PlanScopes      \* a behaviour takes calls and bodies from one of these

\* When the discount ends: not at all, later, or by now.
Deadlines == {None, "ahead", "over"}

PlanCalls == {"createPlan", "updatePlan", "deletePlan", "subscribe", "sync", "webhook", "pause",
              "discountExpiry", "deadline"}

PlanData == [code : PlanCodes, razorpay : RazorpayPlans, recommended : BOOLEAN,
             active : BOOLEAN, deadline : Deadlines, life : {"live", "deleted"}]

\* A subscription whose Razorpay plan belongs to no plan may be on none.
Subscribed == [plan : PlanIds \cup {None}, paid : BOOLEAN]

ASSUME PlansAssumption ==
  /\ PlanIds \subseteq Nat
  /\ \A b \in PlanBodies :
       /\ DOMAIN b \subseteq {"code", "razorpay", "recommended", "active", "deadline"}
       /\ "code" \in DOMAIN b => b.code \in PlanCodes
       /\ "razorpay" \in DOMAIN b => b.razorpay \in RazorpayPlans
       /\ "recommended" \in DOMAIN b => b.recommended \in BOOLEAN
       /\ "active" \in DOMAIN b => b.active \in BOOLEAN
       /\ "deadline" \in DOMAIN b => b.deadline \in Deadlines
  /\ PlanScopes \subseteq [calls : SUBSET PlanCalls, bodies : SUBSET PlanBodies]
  /\ None \notin PlanIds /\ None \notin PlanCodes /\ None \notin RazorpayPlans /\ None \notin Subscribers
  /\ None \notin PlanData /\ None \notin Subscribed

VARIABLES
  plans,        \* table subscription_plans
  subscriber,   \* table organization_subscription: the row of each organization
  planning,     \* what each handler keeps across its awaits
  expiry,       \* the hourly run: "idle" or "running"
  beside,       \* organizations whose subscription was being saved while a plan was being deleted
  planScope     \* the scope of this behaviour

plansVars == <<plans, subscriber, planning, expiry, beside, planScope>>

-----------------------------------------------------------------------------
(* Reading *)

\* getPlanById
PlanById(p) == IsLive(plans[p])

\* getPlanByCode
PlanByCode(code) == {p \in PlanIds : IsLive(plans[p]) /\ plans[p].code = code}

\* getPlanByRazorpayPlanId
PlanByRazorpay(razorpay) == {p \in PlanIds : IsLive(plans[p]) /\ plans[p].razorpay = razorpay}

\* getRecommendedPlan
RecommendedPlan(except) ==
  {p \in PlanIds \ {except} : IsLive(plans[p]) /\ plans[p].recommended}

\* The unique indexes, each over the plans that are not deleted.
PlanIndexesHold(table) ==
  \A p, q \in PlanIds : p # q /\ IsLive(table[p]) /\ IsLive(table[q]) =>
    /\ table[p].code # table[q].code
    /\ table[p].razorpay # table[q].razorpay
    /\ ~ (table[p].recommended /\ table[q].recommended)

-----------------------------------------------------------------------------
(* The steps of a handler *)

Planning(w, task) ==
  /\ planning' = [planning EXCEPT ![w] = task]
  /\ UNCHANGED planScope

PlanStarts(w, op) == planning[w] = None /\ op \in planScope.calls
PlanAt(w, op, step) == planning[w] # None /\ planning[w].op = op /\ planning[w].step = step

PlanTask(op, step) ==
  [op |-> op, step |-> step, id |-> None, body |-> None, org |-> None, row |-> None]

DeletingPlan == {w \in Workers : planning[w] # None /\ planning[w].op = "deletePlan"}
SavingPlanOf == {planning[w].org : w \in {v \in Workers : planning[v] # None}} \ {None}

\* createPlanEndpoint
CreatePlan(w) ==
  \/ \E b \in planScope.bodies :
       /\ PlanStarts(w, "createPlan")
       /\ {"code", "razorpay", "recommended"} \subseteq DOMAIN b
       /\ PlanByCode(b.code) = {}
       /\ b.recommended => RecommendedPlan(None) = {}
       /\ Planning(w, [PlanTask("createPlan", "write") EXCEPT !.body = b])
       /\ UNCHANGED <<plans, subscriber, expiry, beside>>
  \/ /\ PlanAt(w, "createPlan", "write")
     /\ \E p \in PlanIds :
          /\ plans[p] = None /\ \A q \in PlanIds : q < p => plans[q] # None
          /\ LET b == planning[w].body
                 sent(f, default) == IF f \in DOMAIN b THEN b[f] ELSE default
             IN  plans' = [plans EXCEPT ![p] =
                   [code |-> b.code, razorpay |-> b.razorpay, recommended |-> b.recommended,
                    active |-> sent("active", TRUE), deadline |-> sent("deadline", None),
                    life |-> "live"]]
     /\ PlanIndexesHold(plans')
     /\ Planning(w, None)
     /\ UNCHANGED <<subscriber, expiry, beside>>

\* updatePlanEndpoint: the UPDATE is by id, also of a plan deleted since; a body
\* names no code, and always whether the plan is recommended.
UpdatePlan(w) ==
  \/ \E b \in planScope.bodies, p \in PlanIds :
       /\ PlanStarts(w, "updatePlan")
       /\ "recommended" \in DOMAIN b /\ "code" \notin DOMAIN b
       /\ PlanById(p)
       /\ b.recommended => RecommendedPlan(p) = {}
       /\ Planning(w, [PlanTask("updatePlan", "write") EXCEPT !.id = p, !.body = b])
       /\ UNCHANGED <<plans, subscriber, expiry, beside>>
  \/ /\ PlanAt(w, "updatePlan", "write")
     /\ LET b == planning[w].body
        IN  plans' = [plans EXCEPT ![planning[w].id] =
                        [f \in DOMAIN @ |-> IF f \in DOMAIN b THEN b[f] ELSE @[f]]]
     /\ PlanIndexesHold(plans')
     /\ Planning(w, None)
     /\ UNCHANGED <<subscriber, expiry, beside>>

DeletePlan_Uncounted(w) ==
  \/ \E p \in PlanIds :
       /\ PlanStarts(w, "deletePlan") /\ PlanById(p)
       /\ Planning(w, [PlanTask("deletePlan", "count") EXCEPT !.id = p])
       /\ beside' = beside \cup SavingPlanOf
       /\ UNCHANGED <<plans, subscriber, expiry>>
  \/ /\ PlanAt(w, "deletePlan", "count")
     /\ \A o \in Subscribers : subscriber[o] # None /\ subscriber[o].paid => subscriber[o].plan # planning[w].id
     /\ Planning(w, [planning[w] EXCEPT !.step = "write"])
     /\ UNCHANGED <<plans, subscriber, expiry, beside>>
  \/ /\ PlanAt(w, "deletePlan", "write")
     /\ plans' = [plans EXCEPT ![planning[w].id] = [@ EXCEPT !.life = "deleted", !.active = FALSE]]
     /\ Planning(w, None)
     /\ UNCHANGED <<subscriber, expiry, beside>>

\* deletePlanEndpoint: read, count, delete.
DeletePlan(w) ==
  \/ \E p \in PlanIds :
       /\ PlanStarts(w, "deletePlan") /\ PlanById(p)
       /\ Planning(w, [PlanTask("deletePlan", "count") EXCEPT !.id = p])
       /\ beside' = beside \cup SavingPlanOf
       /\ UNCHANGED <<plans, subscriber, expiry>>
  \/ /\ PlanAt(w, "deletePlan", "count")
     /\ \A o \in Subscribers : subscriber[o] # None => subscriber[o].plan # planning[w].id
     /\ Planning(w, [planning[w] EXCEPT !.step = "write"])
     /\ UNCHANGED <<plans, subscriber, expiry, beside>>
  \/ /\ PlanAt(w, "deletePlan", "write")
     /\ plans' = [plans EXCEPT ![planning[w].id] =
                    IF IsLive(@) THEN [@ EXCEPT !.life = "deleted", !.active = FALSE] ELSE @]
     /\ Planning(w, None)
     /\ UNCHANGED <<subscriber, expiry, beside>>

-----------------------------------------------------------------------------
(* Subscriptions, by what they take from a plan and when *)

\* A handler reads the row it will save, or finds none.
SaveBegin(w, o, row, task) ==
  /\ Planning(w, [task EXCEPT !.org = o, !.row = row])
  /\ beside' = IF DeletingPlan = {} THEN beside ELSE beside \cup {o}
  /\ UNCHANGED <<plans, subscriber, expiry>>

\* createSubscriptionEndpoint: an active plan, for an organization that has not
\* paid for another. Razorpay is called in between.
SubscribeToPlan(w) ==
  \E o \in Subscribers, p \in PlanIds :
    /\ PlanStarts(w, "subscribe")
    /\ PlanById(p) /\ plans[p].active
    /\ subscriber[o] # None => ~ subscriber[o].paid
    /\ SaveBegin(w, o, subscriber[o], [PlanTask("subscribe", "look") EXCEPT !.id = p])

\* syncSubscriptionEndpoint: the row, then Razorpay, then the plan.
Synchronise(w) ==
  \E o \in Subscribers :
    /\ PlanStarts(w, "sync") /\ subscriber[o] # None
    /\ SaveBegin(w, o, subscriber[o], PlanTask("sync", "find"))

\* webhookEndpoint: the subscription notified of is the one of the organization's
\* row, or one that no row names and whose notes name the organization.
Webhook(w) ==
  \E o \in Subscribers :
    /\ PlanStarts(w, "webhook")
    /\ \E row \in {None, subscriber[o]} : SaveBegin(w, o, row, PlanTask("webhook", "find"))

\* Razorpay has the subscription on any of its plans, one that no plan names or one
\* that was changed there included.
FindPlan(w) ==
  /\ planning[w] # None /\ planning[w].step = "find"
  /\ \E razorpay \in RazorpayPlans :
       Planning(w, [planning[w] EXCEPT !.step = "look",
         !.id = IF PlanByRazorpay(razorpay) = {} THEN None
                ELSE CHOOSE p \in PlanByRazorpay(razorpay) : TRUE])
  /\ UNCHANGED <<plans, subscriber, expiry, beside>>

\* pause, resume, cancel: the plan as the row had it, whether deleted or not.
PausePlan(w) ==
  \E o \in Subscribers :
    /\ PlanStarts(w, "pause") /\ subscriber[o] # None
    /\ SaveBegin(w, o, subscriber[o], PlanTask("pause", "look"))

\* The plan that was found, or else the one the row had when it was read, or none.
SavedPlan(t) == IF t.id # None \/ t.row = None THEN t.id ELSE t.row.plan

\* saveOrganizationSubscriptionRecord: without a row to go on from, it looks for
\* one again; then it writes to that row, or inserts one if nobody else has.
SavePlan(w) ==
  LET t == planning[w]
  IN  /\ t # None
      /\ \/ /\ t.step = "look"
            /\ Planning(w, [t EXCEPT !.step = "save", !.row = IF @ = None THEN subscriber[t.org] ELSE @])
            /\ UNCHANGED subscriber
         \/ /\ t.step = "save"
            /\ t.row = None => subscriber[t.org] = None
            /\ \E paid \in IF t.op = "subscribe" THEN {FALSE} ELSE BOOLEAN :
                 subscriber' = [subscriber EXCEPT ![t.org] = [plan |-> SavedPlan(t), paid |-> paid]]
            /\ Planning(w, None)
      /\ UNCHANGED <<plans, expiry, beside>>

\* A statement or a call to Razorpay fails.
AbandonPlan(w) ==
  /\ planning[w] # None
  /\ Planning(w, None)
  /\ UNCHANGED <<plans, subscriber, expiry, beside>>

-----------------------------------------------------------------------------
(* The hourly run *)

\* Time passes.
DeadlinePasses(p) ==
  /\ "deadline" \in planScope.calls
  /\ plans[p] # None /\ plans[p].deadline = "ahead"
  /\ plans' = [plans EXCEPT ![p].deadline = "over"]
  /\ UNCHANGED <<subscriber, planning, expiry, beside, planScope>>

\* runDiscountExpiryCron: not while the last run goes on.
RunDiscountExpiry ==
  /\ "discountExpiry" \in planScope.calls /\ expiry = "idle"
  /\ expiry' = "running"
  /\ UNCHANGED <<plans, subscriber, planning, beside, planScope>>

\* deactivateExpiredDiscountPlans: one UPDATE, which may fail.
DeactivateExpired ==
  /\ expiry = "running" /\ expiry' = "idle"
  /\ \/ plans' = [p \in PlanIds |-> IF IsLive(plans[p]) /\ plans[p].deadline = "over"
                                    THEN [plans[p] EXCEPT !.active = FALSE] ELSE plans[p]]
     \/ UNCHANGED plans
  /\ UNCHANGED <<subscriber, planning, beside, planScope>>

-----------------------------------------------------------------------------
PlansInit ==
  /\ plans = [p \in PlanIds |-> None]
  /\ subscriber = [o \in Subscribers |-> None]
  /\ planning = [w \in Workers |-> None]
  /\ expiry = "idle"
  /\ beside = {}
  /\ planScope \in PlanScopes

PlansNext ==
  \/ \E w \in Workers :
       \/ CreatePlan(w) \/ UpdatePlan(w) \/ DeletePlan(w)
       \/ SubscribeToPlan(w) \/ Synchronise(w) \/ Webhook(w) \/ PausePlan(w)
       \/ FindPlan(w) \/ SavePlan(w) \/ AbandonPlan(w)
  \/ \E p \in PlanIds : DeadlinePasses(p)
  \/ RunDiscountExpiry \/ DeactivateExpired

PlansSpec == PlansInit /\ [][PlansNext]_plansVars

-----------------------------------------------------------------------------
(* Properties *)

\* The tables have their types; a subscription is on a row of the plans, deleted
\* or not, or on none.
PlansTypeOK ==
  /\ plans \in [PlanIds -> {None} \cup PlanData]
  /\ subscriber \in [Subscribers -> {None} \cup Subscribed]
  /\ expiry \in {"idle", "running"} /\ beside \subseteq Subscribers
  /\ \A o \in Subscribers :
       subscriber[o] # None /\ subscriber[o].plan # None => plans[subscriber[o].plan] # None

\* "This plan has connected subscriptions and cannot be deleted": an organization
\* is on a deleted plan only if its subscription was being saved while some plan
\* was being deleted.
DeletedPlansAreUnused ==
  \A o \in Subscribers :
    subscriber[o] # None /\ subscriber[o].plan # None /\ IsDeleted(plans[subscriber[o].plan]) =>
      o \in beside

=============================================================================
