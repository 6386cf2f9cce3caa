-------------------------- MODULE SubscriptionLedger --------------------------
(***************************************************************************)
(* What the subscription component promises the rest of the system, with   *)
(* no handlers, rows or notifications: Razorpay issues states of the        *)
(* subscriptions that an organization makes, one after the other, each      *)
(* naming one organization, and what is shown of an organization is at any  *)
(* time nothing or one of the states issued by it or naming it.  It may lag *)
(* behind, and it may even step back.                                       *)
(***************************************************************************)
EXTENDS Naturals

CONSTANTS Orgs, Names, Snapshots, None
VARIABLES issued, shown

Entry == [maker : Orgs, named : Names, snap : Snapshots]

Init ==
  /\ issued = {}
  /\ shown = [o \in Orgs |-> None]

\* A subscription keeps its maker and the name; its states are numbered.
Issue(x) ==
  /\ \A e \in issued : e.snap.sub = x.snap.sub =>
       /\ e.maker = x.maker /\ e.named = x.named
       /\ e.snap.rev < x.snap.rev
  /\ issued' = issued \cup {x}
  /\ UNCHANGED shown

Show(o, x) ==
  /\ x \in issued
  /\ o \in {x.maker, x.named}
  /\ shown' = [shown EXCEPT ![o] = x.snap]
  /\ UNCHANGED issued

Clear(o) ==
  /\ shown' = [shown EXCEPT ![o] = None]
  /\ UNCHANGED issued

Next ==
  \/ \E x \in issued' \cap Entry : Issue(x)
  \/ \E o \in Orgs : Clear(o) \/ \E x \in issued : Show(o, x)

Spec == Init /\ [][Next]_<<issued, shown>>
=============================================================================
