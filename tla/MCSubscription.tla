---------------------------- MODULE MCSubscription ----------------------------
(* Instances of Subscription for TLC.                                         *)
EXTENDS Subscription, TLC

\* Every way from "created" to a paid and to a terminal status, through one
\* representative: "active" for the charged ones, "cancelled" for a cancellation
\* at the end of a cycle.
FewRzSteps == {<<"created", "active">>, <<"active", "cancelled">>}

\* With one change of each subscription.
RaceRzSteps == {<<"created", "active">>, <<"created", "cancelled">>}

SubscriptionOps == RowOps
SerialOps == RowOps \cup {"remove", "restore"}
RaceOps == {"create", "delete", "restore", "purge"}
DeletionOps == {"create", "delete", "remove", "restore"}

\* The notes in the body of a create: they leave the organization alone, name any
\* organization, or give an id of nobody or an empty string.
CONSTANT Nobody
NoNotes == {}
AnyNotes == Orgs \cup {None, Nobody}

\* Organizations, subscriptions, ids and handlers are interchangeable.
Symmetry == Permutations(Orgs) \cup Permutations(Subs) \cup Permutations(Rows)
            \cup Permutations(Workers)
=============================================================================
