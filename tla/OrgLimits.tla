------------------------------- MODULE OrgLimits -------------------------------
(***************************************************************************)
(* The limits of an organization's plan.  A plan's features are JSON: a      *)
(* feature is a number, -1 for "unlimited", or missing; an organization      *)
(* without a plan, or with a plan that has no numeric feature, has no entry  *)
(* at all.                                                                   *)
(***************************************************************************)
EXTENDS Integers

CONSTANT Missing  \* a feature that the plan does not mention

ASSUME MissingAssumption == Missing \notin Int

Limits == Int \cup {Missing}

\* configured: the plan has a numeric feature.
PlanRow == [configured : BOOLEAN, maxUsers : Limits, maxProperties : Limits, additional : Nat]

NoEntry == [found |-> FALSE]

\* resolveFeatureTotal: bought properties come on top of the plan's own.
FeatureTotal(feature, limit, additional) ==
  IF feature = "maxProperties" /\ limit \notin {-1, Missing} THEN limit + additional ELSE limit

\* buildLimitEntry
LimitEntry(limit, used) ==
  IF limit \in {-1, Missing}
  THEN [found |-> TRUE, total |-> Missing, used |-> used, left |-> Missing,
        unlimited |-> limit = -1]
  ELSE [found |-> TRUE, total |-> limit, used |-> used,
        left |-> IF limit > used THEN limit - used ELSE 0, unlimited |-> FALSE]

\* getOrganizationSubscriptionLimits, for one feature of a plan.
ResolveEntry(plan, feature, used) ==
  IF ~ plan.configured THEN NoEntry
  ELSE LimitEntry(FeatureTotal(feature, plan[feature], plan.additional), used)

\* hasOrganizationLimitCapacity
HasCapacity(entry, quantity) ==
  \/ quantity <= 0
  \/ /\ entry.found
     /\ entry.unlimited \/ entry.total = Missing \/ entry.left >= quantity

\* checkOrganizationLimit(...).allowed
LimitAllows(plan, feature, used, quantity) ==
  HasCapacity(ResolveEntry(plan, feature, used), quantity)

=============================================================================
