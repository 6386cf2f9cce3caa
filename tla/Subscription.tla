----------------------------- MODULE Subscription -----------------------------
(***************************************************************************)
(* Organization subscriptions: the organization_subscription table, the    *)
(* Razorpay subscriptions it mirrors, and the request handlers that keep   *)
(* the two together (services/auth, razorpay/subscriptions, and the company *)
(* handlers of services/kernel that soft delete and restore the rows).     *)
(*                                                                         *)
(* A handler is split at its awaits: what it read before an await may be    *)
(* stale when it writes.  No handler opens a transaction over its read and  *)
(* its write, and no UPDATE repeats the condition that was read.            *)
(***************************************************************************)
EXTENDS Naturals, FiniteSets

CONSTANTS
  Orgs,      \* organizations
  Subs,      \* Razorpay subscription ids
  Rows,      \* organization_subscription primary keys (bounds the inserts)
  Workers,   \* request handlers that may run at the same time
  Ops,       \* the endpoints that a run lets users call
  RzSteps,   \* status changes Razorpay makes on its own
  MaxRev,    \* bound: changes of one Razorpay subscription
  InOrder,   \* are notifications of one subscription delivered oldest first?
  BodyNotes, \* what the notes in the body of a create may give as organization:
             \* an organization, None (the empty string) or an id of nobody
  None       \* null

Status == {"created", "authenticated", "active", "pending", "halted",
           "paused", "cancelled", "completed", "expired"}
PaidStatuses == {"authenticated", "active", "pending", "halted", "paused"}
TerminalStatuses == {"cancelled", "completed", "expired"}

RowOps  == {"create", "sync", "cancel", "pause", "resume", "delete"}
CompanyOps == {"remove", "restore", "purge"}

ASSUME ConstantsAssumption ==
  /\ None \notin Orgs \cup Subs \cup Rows
  /\ Ops \subseteq RowOps \cup CompanyOps
  /\ RzSteps \subseteq Status \X Status
  /\ MaxRev \in Nat
  /\ InOrder \in BOOLEAN

VARIABLES
  owner,    \* Razorpay: the organization whose create made each subscription
  noted,    \* Razorpay: the organizationId in the notes of each subscription
  rz,       \* Razorpay: status of each subscription, and its change count
  sent,     \* Razorpay: every state of a subscription it has ever reported
  unacked,  \* Razorpay: the notifications it will still (re)deliver
  company,  \* the organization row: live, deleted (soft) or purged
  rows,     \* the organization_subscription table
  pc,       \* where each handler stands
  job       \* what each handler remembers across its awaits

razorpay == <<owner, noted, rz, sent, unacked>>
vars == <<owner, noted, rz, sent, unacked, company, rows, pc, job>>

\* What the code copies from a Razorpay entity.  paid_count, current_start and
\* the other copied fields change only with rev, which stands for all of them.
Snapshot == [sub : Subs, status : Status, rev : 0..MaxRev]
Snap(s) == [sub |-> s, status |-> rz[s].status, rev |-> rz[s].rev]

Row == [org : Orgs, snap : Snapshot, life : {"live", "deleted", "purged"}]

Job == [op   : RowOps \cup CompanyOps \cup {"webhook"},
        org  : Orgs \cup BodyNotes,
        row  : Rows \cup {None},        \* the existing record, by its id
        snap : Snapshot \cup {None}]    \* what is known of the subscription: as
                                        \* read from that record, then as
                                        \* Razorpay returned it

\* null is no record.
ASSUME NullAssumption == None \notin Snapshot /\ None \notin Row /\ None \notin Job

-----------------------------------------------------------------------------
(* The table *)

IsLive(table, r) == table[r] # None /\ table[r].life = "live"

\* Mutation: the lookup forgets the organization.
LiveRowsOf_AnyOrg(o) == {r \in Rows : IsLive(rows, r)}

LiveRowsOf(o) == {r \in Rows : IsLive(rows, r) /\ rows[r].org = o}
LiveRowsBySub(s) == {r \in Rows : IsLive(rows, r) /\ rows[r].snap.sub = s}

\* SELECT ... LIMIT 1: any of the rows found, null when there is none.
FirstOf(found, r) == IF found = {} THEN r = None ELSE r \in found

\* The two partial unique indexes WHERE is_deleted = false.
IndexesHold(table) ==
  \A r1, r2 \in Rows :
    /\ IsLive(table, r1)
    /\ IsLive(table, r2)
    /\ table[r1].org = table[r2].org \/ table[r1].snap.sub = table[r2].snap.sub
    => r1 = r2

-----------------------------------------------------------------------------
(* The steps of a handler *)

Goto(w, label) == pc' = [pc EXCEPT ![w] = label]

Start(w, op, o, r, snap, label) ==
  /\ pc[w] = "idle"
  /\ Goto(w, label)
  /\ job' = [job EXCEPT ![w] = [op |-> op, org |-> o, row |-> r, snap |-> snap]]

Respond(w) ==
  /\ Goto(w, "idle")
  /\ job' = [job EXCEPT ![w] = None]

CreateBegin(w, o) ==
  /\ "create" \in Ops
  /\ company[o] # "purged"
  /\ \E r \in Rows \cup {None} :
       /\ FirstOf(LiveRowsOf(o), r)
       /\ r # None => rows[r].snap.status \notin PaidStatuses
       /\ Start(w, "create", o, r, None, "call")
  /\ UNCHANGED <<razorpay, company, rows>>

\* sync, cancel, pause and resume need a record with a Razorpay subscription.
CallBegin(w, o) ==
  /\ \E op \in Ops \cap {"sync", "cancel", "pause", "resume"}, r \in LiveRowsOf(o) :
       Start(w, op, o, r, rows[r].snap, "call")
  /\ UNCHANGED <<razorpay, company, rows>>

DeleteBegin(w, o) ==
  /\ "delete" \in Ops
  /\ \E r \in LiveRowsOf(o) :
       /\ rows[r].snap.status = "cancelled"
       /\ Start(w, "delete", o, r, None, "delete")
  /\ UNCHANGED <<razorpay, company, rows>>

\* The notification that is delivered next.
Delivered(e) ==
  /\ e \in unacked
  /\ InOrder => \A f \in unacked : f.sub = e.sub => e.rev <= f.rev

\* The record is looked up by subscription.  The organization is the one in the
\* notes, else the record's; without a record the save looks one up by
\* organization (Reread).
WebhookBegin(w, e) ==
  /\ Delivered(e)
  /\ \E r \in Rows \cup {None} :
       /\ FirstOf(LiveRowsBySub(e.sub), r)
       /\ IF r = None
          THEN /\ noted[e.sub] # None
               /\ Start(w, "webhook", noted[e.sub], r, e, "reread")
          ELSE LET o == IF noted[e.sub] = None THEN rows[r].org ELSE noted[e.sub]
               IN  Start(w, "webhook", o, r, e, "write")
  /\ UNCHANGED <<razorpay, company, rows>>

\* Neither notes nor record name an organization: answered, without effect.
WebhookIgnore(w, e) ==
  /\ pc[w] = "idle"
  /\ Delivered(e)
  /\ noted[e.sub] = None
  /\ LiveRowsBySub(e.sub) = {}
  /\ unacked' = unacked \ {e}
  /\ UNCHANGED <<owner, noted, rz, sent, company, rows, pc, job>>

CompanyBegin(w, o) ==
  /\ \E op \in Ops \cap CompanyOps :
       /\ company[o] \in (IF op = "remove" THEN {"live"} ELSE {"live", "deleted"})
       /\ Start(w, op, o, None, None, "tx")
  /\ UNCHANGED <<razorpay, company, rows>>

-----------------------------------------------------------------------------
(* Razorpay *)

\* A change of a subscription: recorded, and announced by a notification.
Moves(s, status) ==
  LET e == [sub |-> s, status |-> status, rev |-> rz[s].rev + 1]
  IN  /\ rz[s].rev < MaxRev
      /\ rz' = [rz EXCEPT ![s] = [status |-> e.status, rev |-> e.rev]]
      /\ sent' = sent \cup {e}
      /\ unacked' = unacked \cup {e}
      /\ UNCHANGED <<owner, noted>>

\* The customer pays or authorises the mandate, a charge succeeds or fails, the
\* term or the link ends, a scheduled cancellation falls due, somebody cancels at
\* Razorpay.
RazorpayStep(s) ==
  /\ owner[s] # None
  /\ \E status \in Status : <<rz[s].status, status>> \in RzSteps /\ Moves(s, status)
  /\ UNCHANGED <<company, rows, pc, job>>

Returned(w, snap) ==
  /\ job' = [job EXCEPT ![w].snap = snap]
  /\ Goto(w, IF job[w].row = None THEN "reread" ELSE "write")

\* Mutation: the answer of the create call is saved though it is missing.
CallCreate_NoAnswer(w) ==
  /\ pc[w] = "call" /\ job[w].op = "create"
  /\ Returned(w, None)
  /\ UNCHANGED <<razorpay, company, rows>>

\* The notes of the body are spread last: they may name another organization.
CallCreate(w) ==
  /\ pc[w] = "call" /\ job[w].op = "create"
  /\ \E s \in Subs, o \in {job[w].org} \cup BodyNotes :
       LET new == [sub |-> s, status |-> "created", rev |-> 0]
       IN  /\ owner[s] = None
           /\ owner' = [owner EXCEPT ![s] = job[w].org]
           /\ noted' = [noted EXCEPT ![s] = o]
           /\ sent' = sent \cup {new}
           /\ Returned(w, new)
  /\ UNCHANGED <<rz, unacked, company, rows>>

CallFetch(w) ==
  /\ pc[w] = "call" /\ job[w].op = "sync"
  /\ Returned(w, Snap(job[w].snap.sub))
  /\ UNCHANGED <<razorpay, company, rows>>

\* A call that changes the subscription returns its new state.
CallChange(w, op, from, to) ==
  LET s == job[w].snap.sub
  IN  /\ pc[w] = "call" /\ job[w].op = op
      /\ rz[s].status \in from
      /\ Moves(s, to)
      /\ Returned(w, [sub |-> s, status |-> to, rev |-> rz[s].rev + 1])
      /\ UNCHANGED <<company, rows>>

CallCancel(w) == CallChange(w, "cancel", Status \ TerminalStatuses, "cancelled")
CallPause(w)  == CallChange(w, "pause", {"authenticated", "active"}, "paused")
CallResume(w) == CallChange(w, "resume", {"paused"}, "active")

\* cancelAtCycleEnd: only scheduled, the status changes later (RzSteps).  A
\* record that was "created" when read is cancelled at once.
CallCancelAtCycleEnd(w) ==
  /\ pc[w] = "call" /\ job[w].op = "cancel"
  /\ job[w].snap.status # "created"
  /\ rz[job[w].snap.sub].status \notin TerminalStatuses
  /\ Returned(w, Snap(job[w].snap.sub))
  /\ UNCHANGED <<razorpay, company, rows>>

-----------------------------------------------------------------------------
(* Saving *)

\* Mutation: the save inserts without looking for the organization's record.
Reread_Skipped(w) ==
  /\ pc[w] = "reread"
  /\ Goto(w, "write")
  /\ UNCHANGED <<razorpay, company, rows, job>>

Reread(w) ==
  /\ pc[w] = "reread"
  /\ \E r \in Rows \cup {None} :
       /\ FirstOf(LiveRowsOf(job[w].org), r)
       /\ job' = [job EXCEPT ![w].row = r]
  /\ Goto(w, "write")
  /\ UNCHANGED <<razorpay, company, rows>>

\* Mutation: an upsert that also writes isDeleted: false.
Updated_Revives(r, snap) ==
  IF rows[r].life = "purged" THEN rows
  ELSE [rows EXCEPT ![r].snap = snap, ![r].life = "live"]

\* Mutation: the fields are merged into the record instead of replaced.
Updated_KeepsStatus(r, snap) ==
  IF rows[r].life = "purged" THEN rows
  ELSE [rows EXCEPT ![r].snap = [snap EXCEPT !.status = rows[r].snap.status]]

\* UPDATE ... WHERE id: whatever the row holds by now, deleted or not; a row
\* that is gone is silently not updated.
Updated(r, snap) ==
  IF rows[r].life = "purged" THEN rows ELSE [rows EXCEPT ![r].snap = snap]

\* The response to a notification may get lost: Razorpay then sends it again.
Acknowledge(w) ==
  \/ UNCHANGED unacked
  \/ job[w].op = "webhook" /\ unacked' = unacked \ {job[w].snap}

Update(w) ==
  /\ pc[w] = "write"
  /\ job[w].row # None
  /\ rows' = Updated(job[w].row, job[w].snap)
  /\ IndexesHold(rows')
  /\ Acknowledge(w)
  /\ Respond(w)
  /\ UNCHANGED <<owner, noted, rz, sent, company>>

\* INSERT under a fresh id; the foreign key needs the organization's row.
Insert(w) ==
  /\ pc[w] = "write"
  /\ job[w].row = None
  /\ job[w].org \in Orgs /\ company[job[w].org] # "purged"
  /\ \E r \in Rows :
       /\ rows[r] = None
       /\ rows' = [rows EXCEPT ![r] = [org |-> job[w].org, snap |-> job[w].snap, life |-> "live"]]
  /\ IndexesHold(rows')
  /\ Acknowledge(w)
  /\ Respond(w)
  /\ UNCHANGED <<owner, noted, rz, sent, company>>

\* deleteOrganizationSubscriptionRecord: by id, the status is not read again.
DeleteRow(w) ==
  /\ pc[w] = "delete"
  /\ rows' = IF rows[job[w].row].life = "purged" THEN rows
             ELSE [rows EXCEPT ![job[w].row].life = "deleted"]
  /\ Respond(w)
  /\ UNCHANGED <<razorpay, company>>

\* The rows of an organization when all, live or not, change to a life.
WithLife(o, life) ==
  [r \in Rows |-> IF rows[r] # None /\ rows[r].org = o /\ rows[r].life # "purged"
                  THEN [rows[r] EXCEPT !.life = life] ELSE rows[r]]

CompanyTx(w, op, outcome, life) ==
  LET o == job[w].org
  IN  /\ pc[w] = "tx" /\ job[w].op = op
      /\ IF company[o] = "purged"
         THEN UNCHANGED <<company, rows>>
         ELSE /\ company' = [company EXCEPT ![o] = outcome]
              /\ rows' = WithLife(o, life)
      /\ IndexesHold(rows')
      /\ Respond(w)
      /\ UNCHANGED razorpay

CompanyRemove(w) == CompanyTx(w, "remove", "deleted", "deleted")
CompanyRestore(w) == CompanyTx(w, "restore", "live", "live")
CompanyPurge(w) == CompanyTx(w, "purge", "purged", "purged")

\* restore-only: the organization row alone.
CompanyRestoreOnly(w) ==
  /\ pc[w] = "tx" /\ job[w].op = "restore"
  /\ company' = [company EXCEPT ![job[w].org] = IF @ = "purged" THEN @ ELSE "live"]
  /\ Respond(w)
  /\ UNCHANGED <<razorpay, rows>>

\* Mutation: the webhook handler answers 200 whatever happened.
Fail_Acknowledged(w) ==
  /\ pc[w] # "idle"
  /\ Respond(w)
  /\ unacked' = unacked \ {job[w].snap}
  /\ UNCHANGED <<owner, noted, rz, sent, company, rows>>

\* A call is refused, a write violates an index, the database is down or the
\* process dies: the handler ends here and nothing undoes its earlier steps.
Fail(w) ==
  /\ pc[w] # "idle"
  /\ Respond(w)
  /\ UNCHANGED <<razorpay, company, rows>>

-----------------------------------------------------------------------------
Init ==
  /\ owner = [s \in Subs |-> None]
  /\ noted = [s \in Subs |-> None]
  /\ rz = [s \in Subs |-> [status |-> "created", rev |-> 0]]
  /\ sent = {}
  /\ unacked = {}
  /\ company = [o \in Orgs |-> "live"]
  /\ rows = [r \in Rows |-> None]
  /\ pc = [w \in Workers |-> "idle"]
  /\ job = [w \in Workers |-> None]

Begin(w) ==
  \/ \E o \in Orgs : CreateBegin(w, o) \/ CallBegin(w, o) \/ DeleteBegin(w, o) \/ CompanyBegin(w, o)
  \/ \E e \in unacked : WebhookBegin(w, e) \/ WebhookIgnore(w, e)

Call(w) ==
  CallCreate(w) \/ CallFetch(w) \/ CallCancel(w) \/ CallCancelAtCycleEnd(w)
  \/ CallPause(w) \/ CallResume(w)

Finish(w) ==
  Reread(w) \/ Update(w) \/ Insert(w) \/ DeleteRow(w)
  \/ CompanyRemove(w) \/ CompanyRestore(w) \/ CompanyRestoreOnly(w) \/ CompanyPurge(w)

Next ==
  \/ \E s \in Subs : RazorpayStep(s)
  \/ \E w \in Workers : Begin(w) \/ Call(w) \/ Finish(w) \/ Fail(w)

Spec == Init /\ [][Next]_vars

\* Razorpay repeats a notification until it is acknowledged, and a handler that
\* is retried for ever does not fail for ever.  Nothing is assumed of the users.
Saves(w) ==
  /\ job[w] # None /\ job[w].op = "webhook"
  /\ Update(w) \/ Insert(w)
  /\ job[w].snap \notin unacked'

FairSpec ==
  /\ Spec
  /\ \A s \in Subs :
       SF_vars(\E w \in Workers, e \in unacked :
                 e.sub = s /\ (WebhookBegin(w, e) \/ WebhookIgnore(w, e)))
  /\ \A w \in Workers : SF_vars(Reread(w)) /\ SF_vars(Saves(w)) /\ WF_vars(Fail(w))

-----------------------------------------------------------------------------
(* Properties *)

\* The tables, the handlers and Razorpay's side have their types; a handler
\* remembers a row exactly where the code holds an `existing` record.
TypeOK ==
  /\ owner \in [Subs -> Orgs \cup {None}]
  /\ noted \in [Subs -> Orgs \cup BodyNotes \cup {None}]
  /\ rz \in [Subs -> [status : Status, rev : 0..MaxRev]]
  /\ sent \subseteq Snapshot
  /\ unacked \subseteq sent
  /\ company \in [Orgs -> {"live", "deleted", "purged"}]
  /\ rows \in [Rows -> Row \cup {None}]
  /\ pc \in [Workers -> {"idle", "call", "reread", "write", "delete", "tx"}]
  /\ job \in [Workers -> Job \cup {None}]

\* Whatever the handlers interleave, a record only ever shows a state that
\* Razorpay reported, and only of a subscription that the record's organization
\* created or that names this organization in its notes.  Looking records up by
\* subscription, by organization or by id mixes the billing of no two others:
\* organizations meet in one record only through a create whose body overrides
\* the organizationId of the notes.
RecordsAreOwnSnapshots ==
  \A r \in Rows : rows[r] # None =>
    /\ rows[r].snap \in sent
    /\ rows[r].org \in {owner[rows[r].snap.sub], noted[rows[r].snap.sub]}

\* What is shown of an organization, and what Razorpay issued, as the abstract
\* ledger names them.
Shown(o) ==
  IF LiveRowsOf(o) = {} THEN None ELSE rows[CHOOSE r \in LiveRowsOf(o) : TRUE].snap

Ledger == INSTANCE SubscriptionLedger
  WITH Snapshots <- Snapshot,
       issued <- {[maker |-> owner[e.sub], named |-> noted[e.sub], snap |-> e] : e \in sent},
       Names <- Orgs \cup BodyNotes,
       shown <- [o \in Orgs |-> Shown(o)]

\* The table and its handlers implement the ledger: one record per organization
\* at most is live, each write replaces a whole state, and a state is shown only
\* of the organization that created its subscription or is named in its notes.
ImplementsLedger == Ledger!Spec

\* A soft-deleted record becomes live again only when the company is restored;
\* no late save (create, sync or notification) revives it.
OnlyRestoreRevives ==
  [][\A r \in Rows :
       /\ rows[r] # None /\ rows[r].life = "deleted"
       /\ rows'[r].life = "live"
       => \E w \in Workers : pc[w] = "tx" /\ job[w].op = "restore"
                            /\ job[w].org = rows[r].org]_vars

Quiet == unacked = {} /\ \A w \in Workers : pc[w] = "idle"

\* "Verifies Razorpay signature and syncs organization_subscription status":
\* once all notifications are acknowledged and no handler runs, every live
\* record shows the current state of its subscription.
SyncedWhenQuiet ==
  Quiet => \A r \in Rows : IsLive(rows, r) => rows[r].snap = Snap(rows[r].snap.sub)

\* "Block only if the subscription has already been authorized/paid": create
\* never overwrites the record of a paid subscription by another subscription.
PaidRecordNotReplaced ==
  [][\A w \in Workers, r \in Rows :
       /\ pc[w] = "write" /\ job[w].op = "create" /\ job[w].row = r /\ Update(w)
       /\ IsLive(rows, r)
       /\ rows[r].snap.sub # job[w].snap.sub
       => rows[r].snap.status \notin PaidStatuses]_vars

\* An organization is not charged twice: "Organization already has an active or
\* pending subscription." is the only thing that could stop a second one.
OnePaidSubscription ==
  \A s1, s2 \in Subs :
    /\ owner[s1] = owner[s2] /\ owner[s1] # None
    /\ rz[s1].status \in PaidStatuses /\ rz[s2].status \in PaidStatuses
    => s1 = s2

\* "Restore a deleted company with related soft-deleted records": the restore
\* of a deleted company would not be refused by the unique indexes.
RestoreIsPossible ==
  \A o \in Orgs : company[o] = "deleted" => IndexesHold(WithLife(o, "live"))

\* Nothing can be inserted for the subscription any more: the organization in its
\* notes is purged, or the ids of the instance are used up.
Undeliverable(s) ==
  \/ noted[s] \in Orgs /\ company[noted[s]] = "purged"
  \/ None \notin {rows[r] : r \in Rows}

\* Every notification is processed in the end, even when its first deliveries
\* fail: the unique indexes never refuse one for ever.
NotificationsDrain ==
  \A s \in Subs : []<>(Undeliverable(s) \/ \A e \in unacked : e.sub # s)

=============================================================================
