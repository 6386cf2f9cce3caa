--------------------------- MODULE SubscriptionProofs ---------------------------
(***************************************************************************)
(* For every number of organizations, subscriptions, rows and handlers, and *)
(* whatever the bodies of the creates write into the notes: the table is    *)
(* well typed, its records are snapshots of subscriptions that their own     *)
(* organization created or that name it, only a restore revives one, and    *)
(* the component implements SubscriptionLedger.                            *)
(***************************************************************************)
EXTENDS Subscription, TLAPS

(* The inductive invariant *)

\* Everything Razorpay reported is of a subscription that exists, is not newer
\* than its present state, and includes that present state.
SentInv ==
  /\ \A e \in sent : owner[e.sub] # None /\ e.rev <= rz[e.sub].rev
  /\ \A s \in Subs : owner[s] # None => Snap(s) \in sent
  /\ \A s \in Subs : owner[s] = None => rz[s] = [status |-> "created", rev |-> 0]
  /\ \A s \in Subs : owner[s] # None => noted[s] \in Orgs \cup BodyNotes

\* The organizations in whose record a subscription may be shown.
Parties(s) == {owner[s], noted[s]}

\* What a handler remembers, however stale, may be saved: the record is of a
\* party of the subscription, or the organization it will be sought by is one.
JobInv(w) ==
  /\ pc[w] # "idle" => job[w] # None
  /\ job[w] # None =>
       /\ pc[w] \in {"reread", "write"} => job[w].snap # None
       /\ pc[w] = "call" /\ job[w].op # "create" => job[w].snap # None
       /\ pc[w] = "delete" => job[w].row # None
       /\ pc[w] \in {"call", "tx"} => job[w].org \in Orgs
       /\ job[w].snap # None => job[w].snap \in sent
       /\ job[w].row # None => rows[job[w].row] # None
       /\ pc[w] = "call" /\ job[w].row # None => rows[job[w].row].org = job[w].org
       /\ job[w].snap # None /\ job[w].row # None =>
            rows[job[w].row].org \in Parties(job[w].snap.sub)
       /\ job[w].snap # None /\ (job[w].row = None \/ pc[w] = "reread") =>
            job[w].org \in Parties(job[w].snap.sub)

IInv ==
  /\ TypeOK
  /\ SentInv
  /\ RecordsAreOwnSnapshots
  /\ IndexesHold(rows)
  /\ \A w \in Workers : JobInv(w)

-----------------------------------------------------------------------------
LEMMA InitInv == Init => IInv
  <1> SUFFICES ASSUME Init PROVE IInv
    OBVIOUS
  <1>1. TypeOK
    BY ConstantsAssumption DEF Init, TypeOK, Status
  <1>2. SentInv
    BY DEF Init, SentInv, Snap
  <1>3. RecordsAreOwnSnapshots /\ IndexesHold(rows)
    BY DEF Init, RecordsAreOwnSnapshots, IndexesHold, IsLive
  <1>4. \A w \in Workers : JobInv(w)
    BY DEF Init, JobInv
  <1>. QED
    BY <1>1, <1>2, <1>3, <1>4 DEF IInv

\* Starting a handler: only its pc and job change, and they are consistent.
LEMMA StartInv ==
  ASSUME IInv, NEW w \in Workers, NEW op \in RowOps \cup CompanyOps \cup {"webhook"},
         NEW o \in Orgs \cup BodyNotes, NEW r \in Rows \cup {None},
         NEW snap \in Snapshot \cup {None},
         NEW label \in {"call", "reread", "write", "delete", "tx"},
         Start(w, op, o, r, snap, label),
         UNCHANGED <<razorpay, company, rows>>,
         label \in {"reread", "write"} => snap # None,
         label = "call" /\ op # "create" => snap # None,
         label = "delete" => r # None,
         label \in {"call", "tx"} => o \in Orgs,
         snap # None => snap \in sent,
         r # None => rows[r] # None,
         label = "call" /\ r # None => rows[r].org = o,
         snap # None /\ r # None => rows[r].org \in Parties(snap.sub),
         snap # None /\ (r = None \/ label = "reread") => o \in Parties(snap.sub)
  PROVE  IInv'
  <1>. USE DEF razorpay
  <1>1. TypeOK'
    BY DEF IInv, TypeOK, Start, Goto, Job
  <1>2. SentInv'
    BY DEF IInv, SentInv, Snap
  <1>3. RecordsAreOwnSnapshots' /\ IndexesHold(rows)'
    BY DEF IInv, RecordsAreOwnSnapshots, IndexesHold, IsLive
  <1>4. ASSUME NEW v \in Workers PROVE JobInv(v)'
    <2>1. CASE v = w
      <3>1. pc'[w] = label
            /\ job'[w] = [op |-> op, org |-> o, row |-> r, snap |-> snap]
        BY DEF IInv, TypeOK, Start, Goto
      <3>2. job'[w] # None
        BY <3>1, NullAssumption DEF Job
      <3>. QED
        BY <2>1, <3>1, <3>2 DEF JobInv, Parties
    <2>2. CASE v # w
      <3>1. pc'[v] = pc[v] /\ job'[v] = job[v]
        BY <2>2 DEF IInv, TypeOK, Start, Goto
      <3>. QED
        BY <3>1 DEF IInv, JobInv, Parties
    <2>. QED
      BY <2>1, <2>2
  <1>. QED
    BY <1>1, <1>2, <1>3, <1>4 DEF IInv

\* A handler that goes on or ends, while rows and Razorpay stay as they are.
LEMMA FrameInv ==
  ASSUME IInv, UNCHANGED <<owner, noted, rz, sent, rows>>, TypeOK',
         \A w \in Workers : JobInv(w)'
  PROVE  IInv'
  <1>1. SentInv'
    BY DEF IInv, SentInv, Snap
  <1>2. RecordsAreOwnSnapshots' /\ IndexesHold(rows)'
    BY DEF IInv, RecordsAreOwnSnapshots, IndexesHold, IsLive
  <1>. QED
    BY <1>1, <1>2 DEF IInv

\* The other handlers are not disturbed by a step of one of them that leaves
\* Razorpay's reports in place and changes no row's organization.
LEMMA OthersInv ==
  ASSUME IInv, NEW w \in Workers, NEW v \in Workers \ {w},
         pc'[v] = pc[v], job'[v] = job[v],
         sent \subseteq sent',
         \A s \in Subs : owner[s] # None => owner'[s] = owner[s] /\ noted'[s] = noted[s],
         \A r \in Rows : rows[r] # None => rows'[r] # None /\ rows'[r].org = rows[r].org
  PROVE  JobInv(v)'
  <1>1. JobInv(v) /\ job[v] \in Job \cup {None}
    BY DEF IInv, TypeOK
  <1>2. \A e \in sent : owner[e.sub] # None /\ e.sub \in Subs
    BY DEF IInv, SentInv, TypeOK, Snapshot
  <1>. QED
    BY <1>1, <1>2 DEF JobInv, Job, Parties

-----------------------------------------------------------------------------
(* One lemma per kind of step *)

LEMMA LiveRowsFacts ==
  ASSUME IInv, NEW r \in Rows, IsLive(rows, r)
  PROVE  /\ rows[r] \in Row
         /\ rows[r].snap \in sent
         /\ rows[r].org \in Parties(rows[r].snap.sub)
  BY DEF IInv, TypeOK, IsLive, RecordsAreOwnSnapshots, Parties

LEMMA BeginInv ==
  ASSUME IInv, NEW w \in Workers, Begin(w)
  PROVE  IInv'
  <1>1. ASSUME NEW o \in Orgs, CreateBegin(w, o) PROVE IInv'
    <2>1. PICK r \in Rows \cup {None} :
            FirstOf(LiveRowsOf(o), r) /\ Start(w, "create", o, r, None, "call")
      BY <1>1 DEF CreateBegin
    <2>2. r # None => rows[r] # None /\ rows[r].org = o
      BY <2>1 DEF FirstOf, LiveRowsOf, IsLive
    <2>. QED
      BY <1>1, <2>1, <2>2, StartInv DEF CreateBegin, RowOps
  <1>2. ASSUME NEW o \in Orgs, CallBegin(w, o) PROVE IInv'
    <2>1. PICK op \in Ops \cap {"sync", "cancel", "pause", "resume"}, r \in LiveRowsOf(o) :
            Start(w, op, o, r, rows[r].snap, "call")
      BY <1>2 DEF CallBegin
    <2>2. r \in Rows /\ IsLive(rows, r) /\ rows[r].org = o
      BY DEF LiveRowsOf
    <2>3. rows[r].snap \in Snapshot \cup {None} /\ rows[r].snap # None
      BY <2>2, LiveRowsFacts, NullAssumption DEF Row
    <2>4. op \in RowOps
      BY DEF RowOps
    <2>5. UNCHANGED <<razorpay, company, rows>>
      BY <1>2 DEF CallBegin
    <2>6. rows[r].snap \in sent /\ o \in Parties(rows[r].snap.sub) /\ rows[r] # None
      BY <2>2, LiveRowsFacts DEF IsLive
    <2>. QED
      BY <2>1, <2>2, <2>3, <2>4, <2>5, <2>6, StartInv
  <1>3. ASSUME NEW o \in Orgs, DeleteBegin(w, o) PROVE IInv'
    <2>1. PICK r \in LiveRowsOf(o) : Start(w, "delete", o, r, None, "delete")
      BY <1>3 DEF DeleteBegin
    <2>2. r \in Rows /\ IsLive(rows, r) /\ rows[r].org = o /\ r # None
      BY ConstantsAssumption DEF LiveRowsOf
    <2>. QED
      BY <1>3, <2>1, <2>2, StartInv DEF DeleteBegin, RowOps, IsLive
  <1>4. ASSUME NEW e \in unacked, WebhookBegin(w, e) PROVE IInv'
    <2> DEFINE Org(r) == IF noted[e.sub] = None THEN rows[r].org ELSE noted[e.sub]
    <2>1. PICK r \in Rows \cup {None} :
            /\ FirstOf(LiveRowsBySub(e.sub), r)
            /\ r = None => /\ noted[e.sub] # None
                           /\ Start(w, "webhook", noted[e.sub], r, e, "reread")
            /\ r # None => Start(w, "webhook", Org(r), r, e, "write")
      BY <1>4 DEF WebhookBegin
    <2>2. e \in sent /\ e \in Snapshot /\ e.sub \in Subs /\ e # None
      BY NullAssumption DEF IInv, TypeOK, Snapshot
    <2>3. noted[e.sub] \in Orgs \cup BodyNotes
      BY <2>2 DEF IInv, TypeOK, SentInv
    <2>4. UNCHANGED <<razorpay, company, rows>>
      BY <1>4 DEF WebhookBegin
    <2>5. CASE r = None
      BY <2>1, <2>2, <2>3, <2>4, <2>5, StartInv DEF Parties
    <2>6. CASE r # None
      <3>1. r \in Rows /\ IsLive(rows, r) /\ rows[r].snap.sub = e.sub
        BY <2>1, <2>6 DEF FirstOf, LiveRowsBySub
      <3>2. rows[r] # None /\ rows[r].org \in Orgs /\ rows[r].org \in Parties(e.sub)
        BY <3>1, LiveRowsFacts DEF IsLive, Row
      <3>3. Org(r) \in Orgs \cup BodyNotes
        BY <2>3, <3>2
      <3>4. Start(w, "webhook", Org(r), r, e, "write")
        BY <2>1, <2>6
      <3> HIDE DEF Org
      <3>. QED
        BY <2>2, <2>4, <2>6, <3>2, <3>3, <3>4, StartInv
    <2>. QED
      BY <2>5, <2>6
  <1>6. ASSUME NEW e \in unacked, WebhookIgnore(w, e) PROVE IInv'
    <2>1. UNCHANGED <<owner, noted, rz, sent, company, rows, pc, job>> /\ unacked' \subseteq unacked
      BY <1>6 DEF WebhookIgnore
    <2>2. TypeOK' /\ \A v \in Workers : JobInv(v)'
      BY <2>1 DEF IInv, TypeOK, JobInv, Parties
    <2>. QED
      BY <2>1, <2>2, FrameInv
  <1>5. ASSUME NEW o \in Orgs, CompanyBegin(w, o) PROVE IInv'
    <2>1. PICK op \in Ops \cap CompanyOps : Start(w, op, o, None, None, "tx")
      BY <1>5 DEF CompanyBegin
    <2>. QED
      BY <1>5, <2>1, StartInv DEF CompanyBegin
  <1>. QED
    BY <1>1, <1>2, <1>3, <1>4, <1>5, <1>6 DEF Begin

\* A change of a subscription at Razorpay keeps the types and the reports.
LEMMA MovesInv ==
  ASSUME IInv, NEW s \in Subs, NEW status \in Status, owner[s] # None, Moves(s, status)
  PROVE  /\ rz' \in [Subs -> [status : Status, rev : 0..MaxRev]]
         /\ sent' \subseteq Snapshot
         /\ unacked' \subseteq sent'
         /\ sent \subseteq sent'
         /\ SentInv'
         /\ [sub |-> s, status |-> status, rev |-> rz[s].rev + 1] \in sent'
  <1> DEFINE e == [sub |-> s, status |-> status, rev |-> rz[s].rev + 1]
  <1>1. /\ rz[s].rev < MaxRev
        /\ rz' = [rz EXCEPT ![s] = [status |-> status, rev |-> rz[s].rev + 1]]
        /\ sent' = sent \cup {e}
        /\ unacked' = unacked \cup {e}
        /\ owner' = owner /\ noted' = noted
    BY DEF Moves
  <1>2. rz[s].rev + 1 \in 0..MaxRev
    BY <1>1, ConstantsAssumption DEF IInv, TypeOK
  <1>3. e \in Snapshot
    BY <1>2 DEF Snapshot
  <1>4. SentInv'
    <2>1. ASSUME NEW f \in sent' PROVE owner'[f.sub] # None /\ f.rev <= rz'[f.sub].rev
      <3>1. CASE f = e
        BY <3>1, <1>1, <1>2 DEF IInv, TypeOK
      <3>2. CASE f \in sent
        <4>1. f \in Snapshot /\ f.sub \in Subs /\ f.rev \in Nat
          BY <3>2 DEF IInv, TypeOK, Snapshot
        <4>2. owner[f.sub] # None /\ f.rev <= rz[f.sub].rev
          BY <3>2 DEF IInv, SentInv
        <4>3. rz[f.sub].rev <= rz'[f.sub].rev
          BY <4>1, <1>1 DEF IInv, TypeOK
        <4>4. rz[f.sub].rev \in Nat /\ rz'[f.sub].rev \in Nat
          BY <4>1, <1>1, <1>2 DEF IInv, TypeOK
        <4>. QED
          BY <4>1, <4>2, <4>3, <4>4, <1>1
      <3>. QED
        BY <3>1, <3>2, <1>1
    <2>2. ASSUME NEW t \in Subs, owner'[t] # None PROVE Snap(t)' \in sent'
      <3>1. CASE t = s
        BY <3>1, <1>1 DEF Snap, IInv, TypeOK
      <3>2. CASE t # s
        <4>1. rz'[t] = rz[t]
          BY <3>2, <1>1 DEF IInv, TypeOK
        <4>. QED
          BY <4>1, <2>2, <1>1 DEF Snap, IInv, SentInv
      <3>. QED
        BY <3>1, <3>2
    <2>3. ASSUME NEW t \in Subs, owner'[t] = None
          PROVE rz'[t] = [status |-> "created", rev |-> 0]
      BY <2>3, <1>1 DEF IInv, TypeOK, SentInv
    <2>. QED
      BY <2>1, <2>2, <2>3, <1>1 DEF IInv, SentInv
  <1>. QED
    BY <1>1, <1>2, <1>3, <1>4 DEF IInv, TypeOK

LEMMA RazorpayStepInv ==
  ASSUME IInv, NEW s \in Subs, RazorpayStep(s)
  PROVE  IInv'
  <1>1. PICK status \in Status : Moves(s, status)
    BY DEF RazorpayStep
  <1>2. owner[s] # None /\ owner' = owner /\ noted' = noted
        /\ UNCHANGED <<company, rows, pc, job>>
    BY <1>1 DEF RazorpayStep, Moves
  <1>3. sent \subseteq sent' /\ SentInv'
    BY <1>1, <1>2, MovesInv
  <1>4. TypeOK'
    BY <1>1, <1>2, MovesInv DEF IInv, TypeOK
  <1>5. RecordsAreOwnSnapshots' /\ IndexesHold(rows)'
    BY <1>2, <1>3 DEF IInv, RecordsAreOwnSnapshots, IndexesHold, IsLive
  <1>6. \A w \in Workers : JobInv(w)'
    BY <1>2, <1>3 DEF IInv, JobInv, Parties
  <1>. QED
    BY <1>3, <1>4, <1>5, <1>6 DEF IInv

\* What a handler holds after Razorpay's answer.
LEMMA ReturnedInv ==
  ASSUME IInv, NEW w \in Workers, NEW snap \in Snapshot, pc[w] = "call", Returned(w, snap),
         snap \in sent', sent \subseteq sent', rows' = rows,
         IF job[w].row = None THEN job[w].org \in {owner'[snap.sub], noted'[snap.sub]}
         ELSE rows[job[w].row].org \in {owner'[snap.sub], noted'[snap.sub]},
         \A s \in Subs : owner[s] # None => owner'[s] = owner[s] /\ noted'[s] = noted[s]
  PROVE  /\ pc' \in [Workers -> {"idle", "call", "reread", "write", "delete", "tx"}]
         /\ job' \in [Workers -> Job \cup {None}]
         /\ \A v \in Workers : JobInv(v)'
  <1>1. job[w] \in Job
    BY DEF IInv, TypeOK, JobInv
  <1>2. /\ pc'[w] = IF job[w].row = None THEN "reread" ELSE "write"
        /\ job'[w] = [op |-> job[w].op, org |-> job[w].org, row |-> job[w].row, snap |-> snap]
    BY <1>1 DEF Returned, Goto, IInv, TypeOK, Job
  <1>3. job'[w] \in Job
    BY <1>1, <1>2 DEF Job
  <1>4. JobInv(w)'
    BY <1>1, <1>2, <1>3, NullAssumption DEF JobInv, IInv, Parties
  <1>5. ASSUME NEW v \in Workers \ {w} PROVE JobInv(v)'
    <2>1. pc'[v] = pc[v] /\ job'[v] = job[v]
      BY DEF Returned, Goto, IInv, TypeOK
    <2>. QED
      BY <2>1, OthersInv
  <1>6. /\ pc' \in [Workers -> {"idle", "call", "reread", "write", "delete", "tx"}]
        /\ job' \in [Workers -> Job \cup {None}]
    <2>1. /\ pc' = [pc EXCEPT ![w] = pc'[w]]
          /\ job' = [job EXCEPT ![w] = job'[w]]
      BY DEF Returned, Goto, IInv, TypeOK
    <2>. QED
      BY <2>1, <1>2, <1>3 DEF IInv, TypeOK
  <1>. QED
    BY <1>4, <1>5, <1>6

\* The subscription that a handler holds exists, and may be saved where the
\* handler is going to save it.
LEMMA HeldSub ==
  ASSUME IInv, NEW w \in Workers, job[w] \in Job, job[w].snap # None
  PROVE  /\ job[w].snap.sub \in Subs /\ owner[job[w].snap.sub] # None
         /\ IF job[w].row = None
            THEN job[w].org \in {owner[job[w].snap.sub], noted[job[w].snap.sub]}
            ELSE rows[job[w].row].org \in {owner[job[w].snap.sub], noted[job[w].snap.sub]}
  <1>1. job[w].snap \in Snapshot /\ job[w] # None
    BY NullAssumption DEF Job
  <1>2. job[w].snap \in sent
    BY <1>1 DEF IInv, JobInv
  <1>3. owner[job[w].snap.sub] # None
    BY <1>2 DEF IInv, SentInv
  <1>. QED
    BY <1>1, <1>3 DEF Snapshot, IInv, JobInv, Parties

LEMMA CallInv ==
  ASSUME IInv, NEW w \in Workers, Call(w)
  PROVE  IInv'
  <1>1. CASE CallCreate(w)
    <2>1. /\ job[w] \in Job /\ job[w].org \in Orgs /\ pc[w] = "call"
          /\ job[w].row # None => rows[job[w].row].org = job[w].org
      BY <1>1, NullAssumption DEF CallCreate, IInv, TypeOK, JobInv, Job
    <2> DEFINE new(s) == [sub |-> s, status |-> "created", rev |-> 0]
    <2>2. PICK s \in Subs, o \in Orgs \cup BodyNotes :
                           /\ owner[s] = None
                           /\ owner' = [owner EXCEPT ![s] = job[w].org]
                           /\ noted' = [noted EXCEPT ![s] = o]
                           /\ sent' = sent \cup {new(s)}
                           /\ Returned(w, new(s))
      BY <1>1, <2>1 DEF CallCreate
    <2>3. UNCHANGED <<rz, unacked, company, rows>>
      BY <1>1 DEF CallCreate
    <2>4. new(s) \in Snapshot
      BY ConstantsAssumption DEF Snapshot, Status
    <2>5. /\ owner' \in [Subs -> Orgs \cup {None}] /\ owner'[s] = job[w].org /\ job[w].org # None
          /\ noted' \in [Subs -> Orgs \cup BodyNotes \cup {None}] /\ noted'[s] = o
      BY <2>1, <2>2, ConstantsAssumption DEF IInv, TypeOK
    <2>6. \A t \in Subs : owner[t] # None => owner'[t] = owner[t] /\ noted'[t] = noted[t]
      BY <2>2 DEF IInv, TypeOK
    <2>7. SentInv'
      <3>1. ASSUME NEW e \in sent' PROVE owner'[e.sub] # None /\ e.rev <= rz'[e.sub].rev
        <4>1. CASE e = new(s)
          BY <4>1, <2>2, <2>3, <2>5 DEF IInv, SentInv
        <4>2. CASE e \in sent
          <5>1. e.sub \in Subs
            BY <4>2 DEF IInv, TypeOK, Snapshot
          <5>. QED
            BY <4>2, <5>1, <2>3, <2>6 DEF IInv, SentInv
        <4>. QED
          BY <4>1, <4>2, <2>2
      <3>2. ASSUME NEW t \in Subs, owner'[t] # None PROVE Snap(t)' \in sent'
        <4>1. CASE t = s
          BY <4>1, <2>2, <2>3 DEF Snap, IInv, SentInv
        <4>2. CASE t # s
          BY <4>2, <3>2, <2>2, <2>3 DEF Snap, IInv, SentInv, TypeOK
        <4>. QED
          BY <4>1, <4>2
      <3>3. ASSUME NEW t \in Subs, owner'[t] = None
            PROVE rz'[t] = [status |-> "created", rev |-> 0]
        BY <3>3, <2>2, <2>3, <2>5 DEF IInv, SentInv, TypeOK
      <3>4. ASSUME NEW t \in Subs, owner'[t] # None PROVE noted'[t] \in Orgs \cup BodyNotes
        BY <3>4, <2>2, <2>5, <2>6 DEF IInv, SentInv, TypeOK
      <3>. QED
        BY <3>1, <3>2, <3>3, <3>4 DEF SentInv
    <2>8. RecordsAreOwnSnapshots' /\ IndexesHold(rows)'
      <3>1. \A r \in Rows : rows[r] # None =>
              rows[r].snap.sub \in Subs /\ owner[rows[r].snap.sub] # None
        BY DEF IInv, TypeOK, Row, Snapshot, SentInv, RecordsAreOwnSnapshots
      <3>. QED
        BY <2>2, <2>3, <2>6, <3>1 DEF IInv, RecordsAreOwnSnapshots, IndexesHold, IsLive
    <2>9. /\ new(s) \in sent' /\ owner'[new(s).sub] = job[w].org /\ sent \subseteq sent'
          /\ IF job[w].row = None THEN job[w].org \in {owner'[new(s).sub], noted'[new(s).sub]}
             ELSE rows[job[w].row].org \in {owner'[new(s).sub], noted'[new(s).sub]}
      BY <2>1, <2>2, <2>5
    <2>10. /\ pc' \in [Workers -> {"idle", "call", "reread", "write", "delete", "tx"}]
           /\ job' \in [Workers -> Job \cup {None}]
           /\ \A v \in Workers : JobInv(v)'
      BY <2>1, <2>2, <2>3, <2>4, <2>6, <2>9, ReturnedInv
    <2>11. TypeOK'
      BY <2>2, <2>3, <2>4, <2>5, <2>10 DEF IInv, TypeOK
    <2>. QED
      BY <2>7, <2>8, <2>10, <2>11 DEF IInv
  <1>2. ASSUME NEW op \in {"sync", "cancel"}, pc[w] = "call", job[w].op = op,
               Returned(w, Snap(job[w].snap.sub)), UNCHANGED <<razorpay, company, rows>>
        PROVE  IInv'
    <2> DEFINE s == job[w].snap.sub
    <2>1. job[w] \in Job /\ job[w].snap # None
      BY <1>2 DEF IInv, TypeOK, JobInv
    <2>2. /\ s \in Subs /\ owner[s] # None
          /\ IF job[w].row = None THEN job[w].org \in {owner[s], noted[s]}
             ELSE rows[job[w].row].org \in {owner[s], noted[s]}
      BY <2>1, HeldSub
    <2>3. Snap(s) \in sent /\ Snap(s) \in Snapshot /\ Snap(s).sub = s
      BY <2>2, ConstantsAssumption DEF IInv, SentInv, TypeOK, Snap
    <2>4. /\ pc' \in [Workers -> {"idle", "call", "reread", "write", "delete", "tx"}]
          /\ job' \in [Workers -> Job \cup {None}]
          /\ \A v \in Workers : JobInv(v)'
      BY <1>2, <2>2, <2>3, ReturnedInv DEF razorpay
    <2>5. TypeOK'
      BY <1>2, <2>4 DEF IInv, TypeOK, razorpay
    <2>. QED
      BY <1>2, <2>4, <2>5, FrameInv DEF razorpay
  <1>3. ASSUME NEW op \in {"cancel", "pause", "resume"}, NEW from, NEW to \in Status,
               CallChange(w, op, from, to)
        PROVE  IInv'
    <2> DEFINE s == job[w].snap.sub
               new == [sub |-> s, status |-> to, rev |-> rz[s].rev + 1]
    <2>1. pc[w] = "call" /\ job[w].op = op /\ Moves(s, to) /\ Returned(w, new)
          /\ UNCHANGED <<company, rows>>
      BY <1>3 DEF CallChange
    <2>2. job[w] \in Job /\ job[w].snap # None
      BY <2>1 DEF IInv, TypeOK, JobInv
    <2>3. /\ s \in Subs /\ owner[s] # None
          /\ IF job[w].row = None THEN job[w].org \in {owner[s], noted[s]}
             ELSE rows[job[w].row].org \in {owner[s], noted[s]}
      BY <2>2, HeldSub
    <2>4. owner' = owner /\ noted' = noted /\ owner[s] # None
      BY <2>1, <2>3 DEF Moves
    <2>5. /\ rz' \in [Subs -> [status : Status, rev : 0..MaxRev]]
          /\ sent' \subseteq Snapshot
          /\ unacked' \subseteq sent'
          /\ sent \subseteq sent'
          /\ SentInv'
          /\ new \in sent'
      BY <2>1, <2>3, <2>4, MovesInv
    <2>6. /\ pc' \in [Workers -> {"idle", "call", "reread", "write", "delete", "tx"}]
          /\ job' \in [Workers -> Job \cup {None}]
          /\ \A v \in Workers : JobInv(v)'
      <3>1. new \in Snapshot /\ new.sub = s
        BY <2>5
      <3>2. IF job[w].row = None THEN job[w].org \in {owner'[new.sub], noted'[new.sub]}
            ELSE rows[job[w].row].org \in {owner'[new.sub], noted'[new.sub]}
        BY <2>3, <2>4, <3>1
      <3>. QED
        BY <2>1, <2>4, <2>5, <3>1, <3>2, ReturnedInv
    <2>7. TypeOK'
      BY <2>1, <2>4, <2>5, <2>6 DEF IInv, TypeOK
    <2>8. RecordsAreOwnSnapshots' /\ IndexesHold(rows)'
      BY <2>1, <2>4, <2>5 DEF IInv, RecordsAreOwnSnapshots, IndexesHold, IsLive
    <2>. QED
      BY <2>5, <2>6, <2>7, <2>8 DEF IInv
  <1>4. CASE CallFetch(w)
    BY <1>4, <1>2 DEF CallFetch
  <1>5. CASE CallCancelAtCycleEnd(w)
    BY <1>5, <1>2 DEF CallCancelAtCycleEnd
  <1>6. CASE CallCancel(w)
    <2>1. CallChange(w, "cancel", Status \ TerminalStatuses, "cancelled")
      BY <1>6 DEF CallCancel
    <2>. QED
      BY <2>1, <1>3 DEF Status
  <1>7. CASE CallPause(w)
    <2>1. CallChange(w, "pause", {"authenticated", "active"}, "paused")
      BY <1>7 DEF CallPause
    <2>. QED
      BY <2>1, <1>3 DEF Status
  <1>8. CASE CallResume(w)
    <2>1. CallChange(w, "resume", {"paused"}, "active")
      BY <1>8 DEF CallResume
    <2>. QED
      BY <2>1, <1>3 DEF Status
  <1>. QED
    BY <1>1, <1>4, <1>5, <1>6, <1>7, <1>8 DEF Call

\* A handler that ends while no row changes its organization.
LEMMA RespondInv ==
  ASSUME IInv, NEW w \in Workers, Respond(w), UNCHANGED <<owner, noted, rz, sent>>,
         \A r \in Rows : rows[r] # None => rows'[r] # None /\ rows'[r].org = rows[r].org
  PROVE  /\ pc' \in [Workers -> {"idle", "call", "reread", "write", "delete", "tx"}]
         /\ job' \in [Workers -> Job \cup {None}]
         /\ \A v \in Workers : JobInv(v)'
         /\ SentInv'
  <1>1. pc'[w] = "idle" /\ job'[w] = None
    BY DEF Respond, Goto, IInv, TypeOK
  <1>2. ASSUME NEW v \in Workers \ {w} PROVE JobInv(v)'
    <2>1. pc'[v] = pc[v] /\ job'[v] = job[v]
      BY DEF Respond, Goto, IInv, TypeOK
    <2>. QED
      BY <2>1, OthersInv
  <1>3. JobInv(w)'
    BY <1>1 DEF JobInv
  <1>4. SentInv'
    BY DEF IInv, SentInv, Snap
  <1>5. /\ pc' \in [Workers -> {"idle", "call", "reread", "write", "delete", "tx"}]
        /\ job' \in [Workers -> Job \cup {None}]
    BY DEF Respond, Goto, IInv, TypeOK
  <1>. QED
    BY <1>2, <1>3, <1>4, <1>5

LEMMA RereadInv ==
  ASSUME IInv, NEW w \in Workers, Reread(w)
  PROVE  IInv'
  <1>1. PICK r \in Rows \cup {None} :
          FirstOf(LiveRowsOf(job[w].org), r) /\ job' = [job EXCEPT ![w].row = r]
    BY DEF Reread
  <1>2. pc[w] = "reread" /\ pc' = [pc EXCEPT ![w] = "write"]
        /\ UNCHANGED <<razorpay, company, rows>>
    BY DEF Reread, Goto
  <1>3. job[w] \in Job /\ job[w].snap # None
    BY <1>2 DEF IInv, TypeOK, JobInv
  <1>4. job'[w] = [op |-> job[w].op, org |-> job[w].org, row |-> r, snap |-> job[w].snap]
    BY <1>1, <1>3 DEF IInv, TypeOK, Job
  <1>5. job'[w] \in Job
    BY <1>3, <1>4 DEF Job
  <1>6. r # None => rows[r] # None /\ rows[r].org = job[w].org
    BY <1>1 DEF FirstOf, LiveRowsOf, IsLive
  <1>7. TypeOK'
    <2>1. job' = [job EXCEPT ![w] = job'[w]]
      BY <1>1 DEF IInv, TypeOK
    <2>. QED
      BY <1>2, <1>5, <2>1 DEF IInv, TypeOK, razorpay
  <1>8. JobInv(w)'
    <2>1. pc'[w] = "write"
      BY <1>2 DEF IInv, TypeOK
    <2>2. job[w] # None /\ job'[w] # None
      BY <1>3, <1>5, NullAssumption
    <2>3. job[w].snap \in sent /\ job[w].org \in Parties(job[w].snap.sub)
      BY <1>2, <1>3, <2>2 DEF IInv, JobInv
    <2>4. /\ job'[w].row = r /\ job'[w].org = job[w].org /\ job'[w].snap = job[w].snap
      BY <1>4
    <2>. QED
      BY <1>2, <1>3, <1>6, <2>1, <2>2, <2>3, <2>4 DEF JobInv, razorpay, Parties
  <1>9. ASSUME NEW v \in Workers \ {w} PROVE JobInv(v)'
    <2>1. pc'[v] = pc[v] /\ job'[v] = job[v]
      BY <1>1, <1>2 DEF IInv, TypeOK
    <2>. QED
      BY <1>2, <2>1, OthersInv DEF razorpay
  <1>. QED
    BY <1>2, <1>7, <1>8, <1>9, FrameInv DEF razorpay

\* A write that ends its handler: it suffices that the new table is typed, has
\* records of their own organization and keeps the organization of each row.
LEMMA WriteInv ==
  ASSUME IInv, NEW w \in Workers, Respond(w), UNCHANGED <<owner, noted, rz, sent>>,
         unacked' \subseteq unacked,
         company' \in [Orgs -> {"live", "deleted", "purged"}],
         rows' \in [Rows -> Row \cup {None}],
         IndexesHold(rows'),
         \A r \in Rows : rows[r] # None => rows'[r] # None /\ rows'[r].org = rows[r].org,
         \A r \in Rows : rows'[r] # None =>
           rows'[r].snap \in sent /\ rows'[r].org \in Parties(rows'[r].snap.sub)
  PROVE  IInv'
  <1>1. /\ pc' \in [Workers -> {"idle", "call", "reread", "write", "delete", "tx"}]
        /\ job' \in [Workers -> Job \cup {None}]
        /\ \A v \in Workers : JobInv(v)'
        /\ SentInv'
    BY RespondInv
  <1>2. TypeOK'
    BY <1>1 DEF IInv, TypeOK
  <1>3. RecordsAreOwnSnapshots' /\ IndexesHold(rows)'
    BY DEF RecordsAreOwnSnapshots, IndexesHold, IsLive, Parties
  <1>. QED
    BY <1>1, <1>2, <1>3 DEF IInv

\* What a handler that is about to write knows.
LEMMA WriterFacts ==
  ASSUME IInv, NEW w \in Workers, pc[w] = "write"
  PROVE  /\ job[w] \in Job
         /\ job[w].snap \in Snapshot /\ job[w].snap \in sent
         /\ job[w].row = None => job[w].org \in Parties(job[w].snap.sub)
         /\ job[w].row # None =>
              job[w].row \in Rows /\ rows[job[w].row] \in Row
              /\ rows[job[w].row].org \in Parties(job[w].snap.sub)
  <1>1. job[w] \in Job /\ job[w] # None
    BY NullAssumption DEF IInv, TypeOK, JobInv
  <1>2. job[w].snap \in Snapshot \cup {None} /\ job[w].row \in Rows \cup {None}
    BY <1>1 DEF Job
  <1>3. /\ job[w].snap # None /\ job[w].snap \in sent
        /\ job[w].row = None => job[w].org \in Parties(job[w].snap.sub)
    BY <1>1 DEF IInv, JobInv
  <1>4. job[w].row # None => /\ rows[job[w].row] # None
                             /\ rows[job[w].row].org \in Parties(job[w].snap.sub)
    BY <1>1, <1>3 DEF IInv, JobInv
  <1>5. job[w].row # None => rows[job[w].row] \in Row
    BY <1>2, <1>4 DEF IInv, TypeOK
  <1>. QED
    BY <1>1, <1>2, <1>3, <1>4, <1>5

LEMMA UpdateInv ==
  ASSUME IInv, NEW w \in Workers, Update(w)
  PROVE  IInv'
  <1> DEFINE t == job[w].row
             snap == job[w].snap
  <1>1. /\ pc[w] = "write" /\ t # None /\ rows' = Updated(t, snap)
        /\ IndexesHold(rows') /\ Acknowledge(w) /\ Respond(w)
        /\ UNCHANGED <<owner, noted, rz, sent, company>>
    BY DEF Update
  <1>2. /\ t \in Rows /\ rows[t] \in Row /\ snap \in Snapshot /\ snap \in sent
        /\ rows[t].org \in Parties(snap.sub)
    BY <1>1, WriterFacts
  <1>3. unacked' \subseteq unacked
    BY <1>1 DEF Acknowledge
  <1>4. CASE rows[t].life = "purged"
    <2>1. rows' = rows
      BY <1>4, <1>1 DEF Updated
    <2>. QED
      BY <1>1, <1>3, <2>1, WriteInv DEF IInv, TypeOK, RecordsAreOwnSnapshots, Parties
  <1>5. CASE rows[t].life # "purged"
    <2> DEFINE new == [org |-> rows[t].org, snap |-> snap, life |-> rows[t].life]
    <2>1. rows' = [rows EXCEPT ![t] = new]
      <3>1. rows' = [rows EXCEPT ![t] = [rows[t] EXCEPT !.snap = snap]]
        BY <1>5, <1>1 DEF Updated
      <3>2. [rows[t] EXCEPT !.snap = snap] = new
        BY <1>2 DEF Row
      <3>. QED
        BY <3>1, <3>2
    <2>2. new \in Row /\ new # None
      BY <1>2, NullAssumption DEF Row
    <2>3. rows' \in [Rows -> Row \cup {None}] /\ rows'[t] = new
      BY <1>2, <2>1, <2>2 DEF IInv, TypeOK
    <2>4. \A r \in Rows \ {t} : rows'[r] = rows[r]
      BY <2>1 DEF IInv, TypeOK
    <2>5. \A r \in Rows : rows[r] # None => rows'[r] # None /\ rows'[r].org = rows[r].org
      BY <2>2, <2>3, <2>4
    <2>6. \A r \in Rows : rows'[r] # None =>
            rows'[r].snap \in sent /\ rows'[r].org \in Parties(rows'[r].snap.sub)
      BY <1>2, <2>3, <2>4 DEF IInv, RecordsAreOwnSnapshots, Parties
    <2>7. company' \in [Orgs -> {"live", "deleted", "purged"}]
      BY <1>1 DEF IInv, TypeOK
    <2>. QED
      BY <1>1, <1>3, <2>3, <2>5, <2>6, <2>7, WriteInv
  <1>. QED
    BY <1>4, <1>5

LEMMA InsertInv ==
  ASSUME IInv, NEW w \in Workers, Insert(w)
  PROVE  IInv'
  <1> DEFINE new == [org |-> job[w].org, snap |-> job[w].snap, life |-> "live"]
  <1>1. PICK t \in Rows : rows[t] = None /\ rows' = [rows EXCEPT ![t] = new]
    BY DEF Insert
  <1>2. /\ pc[w] = "write" /\ IndexesHold(rows') /\ Acknowledge(w) /\ Respond(w)
        /\ UNCHANGED <<owner, noted, rz, sent, company>>
    BY DEF Insert
  <1>3. /\ new \in Row /\ new.snap \in sent /\ new.org \in Parties(new.snap.sub)
    BY <1>2, WriterFacts DEF Row, Insert
  <1>4. rows' \in [Rows -> Row \cup {None}] /\ rows'[t] = new
    BY <1>1, <1>3 DEF IInv, TypeOK
  <1>5. \A r \in Rows \ {t} : rows'[r] = rows[r]
    BY <1>1 DEF IInv, TypeOK
  <1>6. \A r \in Rows : rows'[r] # None =>
          rows'[r].snap \in sent /\ rows'[r].org \in Parties(rows'[r].snap.sub)
    BY <1>3, <1>4, <1>5 DEF IInv, RecordsAreOwnSnapshots, Parties
  <1>7. \A r \in Rows : rows[r] # None => rows'[r] # None /\ rows'[r].org = rows[r].org
    BY <1>1, <1>5
  <1>8. company' \in [Orgs -> {"live", "deleted", "purged"}] /\ unacked' \subseteq unacked
    BY <1>2 DEF IInv, TypeOK, Acknowledge
  <1>. QED
    BY <1>2, <1>4, <1>6, <1>7, <1>8, WriteInv

LEMMA DeleteRowInv ==
  ASSUME IInv, NEW w \in Workers, DeleteRow(w)
  PROVE  IInv'
  <1> DEFINE t == job[w].row
  <1>1. /\ pc[w] = "delete" /\ Respond(w) /\ UNCHANGED <<owner, noted, rz, sent, unacked, company>>
        /\ rows' = IF rows[t].life = "purged" THEN rows
                   ELSE [rows EXCEPT ![t].life = "deleted"]
    BY DEF DeleteRow, razorpay
  <1>2. job[w] \in Job /\ job[w] # None
    BY <1>1, NullAssumption DEF IInv, TypeOK, JobInv
  <1>3. t \in Rows /\ rows[t] \in Row
    <2>1. t # None /\ rows[t] # None
      BY <1>1, <1>2 DEF IInv, JobInv
    <2>2. t \in Rows
      BY <1>2, <2>1 DEF Job
    <2>. QED
      BY <2>1, <2>2 DEF IInv, TypeOK
  <1>4. CASE rows[t].life = "purged"
    <2>1. rows' = rows
      BY <1>4, <1>1
    <2>. QED
      BY <1>1, <2>1, WriteInv DEF IInv, TypeOK, RecordsAreOwnSnapshots, Parties
  <1>5. CASE rows[t].life # "purged"
    <2> DEFINE new == [org |-> rows[t].org, snap |-> rows[t].snap, life |-> "deleted"]
    <2>1. rows' = [rows EXCEPT ![t] = new]
      <3>1. rows' = [rows EXCEPT ![t] = [rows[t] EXCEPT !.life = "deleted"]]
        BY <1>5, <1>1
      <3>2. [rows[t] EXCEPT !.life = "deleted"] = new
        BY <1>3 DEF Row
      <3>. QED
        BY <3>1, <3>2
    <2>2. new \in Row /\ new # None
      BY <1>3, NullAssumption DEF Row
    <2>3. rows' \in [Rows -> Row \cup {None}] /\ rows'[t] = new
      BY <1>3, <2>1, <2>2 DEF IInv, TypeOK
    <2>4. \A r \in Rows \ {t} : rows'[r] = rows[r]
      BY <2>1 DEF IInv, TypeOK
    <2>5. \A r \in Rows : rows[r] # None => rows'[r] # None /\ rows'[r].org = rows[r].org
      BY <2>2, <2>3, <2>4
    <2>6. \A r \in Rows : rows'[r] # None =>
            rows'[r].snap \in sent /\ rows'[r].org \in Parties(rows'[r].snap.sub)
      BY <1>3, <2>3, <2>4, NullAssumption DEF IInv, RecordsAreOwnSnapshots, Parties
    <2>7. IndexesHold(rows')
      <3>1. IndexesHold(rows) /\ ~ IsLive(rows', t)
        BY <2>3 DEF IInv, IsLive
      <3>2. \A r \in Rows : IsLive(rows', r) => IsLive(rows, r) /\ rows'[r] = rows[r]
        BY <2>4, <3>1 DEF IsLive
      <3>. QED
        BY <3>1, <3>2 DEF IndexesHold
    <2>. QED
      BY <1>1, <2>3, <2>5, <2>6, <2>7, WriteInv DEF IInv, TypeOK
  <1>. QED
    BY <1>4, <1>5

\* What WithLife keeps of the rows, and what it changes.
LEMMA WithLifeFacts ==
  ASSUME IInv, NEW o \in Orgs, NEW life \in {"live", "deleted", "purged"}
  PROVE  /\ WithLife(o, life) \in [Rows -> Row \cup {None}]
         /\ \A r \in Rows :
              /\ rows[r] = None => WithLife(o, life)[r] = None
              /\ rows[r] # None =>
                   /\ WithLife(o, life)[r] # None
                   /\ WithLife(o, life)[r].org = rows[r].org
                   /\ WithLife(o, life)[r].snap = rows[r].snap
                   /\ rows[r].org # o => WithLife(o, life)[r] = rows[r]
                   /\ rows[r].org = o =>
                        WithLife(o, life)[r].life \in {life, "purged"}
  <1> DEFINE new(r) == [org |-> rows[r].org, snap |-> rows[r].snap, life |-> life]
  <1>1. ASSUME NEW r \in Rows, rows[r] # None
        PROVE  rows[r] \in Row /\ [rows[r] EXCEPT !.life = life] = new(r)
               /\ new(r) \in Row /\ new(r) # None
    <2>1. rows[r] \in Row
      BY <1>1 DEF IInv, TypeOK
    <2>. QED
      BY <2>1, NullAssumption DEF Row
  <1>2. ASSUME NEW r \in Rows
        PROVE  WithLife(o, life)[r] =
                 IF rows[r] # None /\ rows[r].org = o /\ rows[r].life # "purged"
                 THEN new(r) ELSE rows[r]
    BY <1>1 DEF WithLife
  <1>3. \A r \in Rows : WithLife(o, life)[r] \in Row \cup {None}
    BY <1>1, <1>2
  <1>4. WithLife(o, life) \in [Rows -> Row \cup {None}]
    BY <1>3 DEF WithLife
  <1>5. ASSUME NEW r \in Rows, rows[r] # None
        PROVE  /\ WithLife(o, life)[r] # None
               /\ WithLife(o, life)[r].org = rows[r].org
               /\ WithLife(o, life)[r].snap = rows[r].snap
               /\ rows[r].org # o => WithLife(o, life)[r] = rows[r]
               /\ rows[r].org = o => WithLife(o, life)[r].life \in {life, "purged"}
    BY <1>5, <1>1, <1>2
  <1>. QED
    BY <1>2, <1>4, <1>5

LEMMA CompanyTxInv ==
  ASSUME IInv, NEW w \in Workers, NEW op, NEW life \in {"live", "deleted", "purged"},
         NEW outcome \in {"live", "deleted", "purged"}, CompanyTx(w, op, outcome, life)
  PROVE  IInv'
  <1> DEFINE o == job[w].org
  <1>1. /\ pc[w] = "tx" /\ IndexesHold(rows') /\ Respond(w)
        /\ UNCHANGED <<owner, noted, rz, sent, unacked>>
    BY DEF CompanyTx, razorpay
  <1>2. o \in Orgs
    BY <1>1 DEF IInv, TypeOK, JobInv, Job
  <1>3. CASE company[o] = "purged"
    <2>1. UNCHANGED <<company, rows>>
      BY <1>3 DEF CompanyTx
    <2>. QED
      BY <1>1, <2>1, WriteInv DEF IInv, TypeOK, RecordsAreOwnSnapshots, Parties
  <1>4. CASE company[o] # "purged"
    <2>1. company' = [company EXCEPT ![o] = outcome] /\ rows' = WithLife(o, life)
      BY <1>4 DEF CompanyTx
    <2>2. company' \in [Orgs -> {"live", "deleted", "purged"}]
      BY <2>1 DEF IInv, TypeOK
    <2>3. /\ rows' \in [Rows -> Row \cup {None}]
          /\ \A r \in Rows : rows[r] # None => rows'[r] # None /\ rows'[r].org = rows[r].org
          /\ \A r \in Rows : rows'[r] # None =>
               rows'[r].snap \in sent /\ rows'[r].org \in Parties(rows'[r].snap.sub)
      BY <1>2, <2>1, WithLifeFacts DEF IInv, RecordsAreOwnSnapshots, Parties
    <2>. QED
      BY <1>1, <2>2, <2>3, WriteInv
  <1>. QED
    BY <1>3, <1>4

LEMMA EndInv ==
  ASSUME IInv, NEW w \in Workers, Respond(w), UNCHANGED <<razorpay, rows>>,
         company' \in [Orgs -> {"live", "deleted", "purged"}]
  PROVE  IInv'
  BY WriteInv DEF IInv, TypeOK, RecordsAreOwnSnapshots, Parties, razorpay

-----------------------------------------------------------------------------
LEMMA NextInv == IInv /\ [Next]_vars => IInv'
  <1> SUFFICES ASSUME IInv, [Next]_vars PROVE IInv'
    OBVIOUS
  <1>1. ASSUME NEW s \in Subs, RazorpayStep(s) PROVE IInv'
    BY <1>1, RazorpayStepInv
  <1>2. ASSUME NEW w \in Workers, Begin(w) PROVE IInv'
    BY <1>2, BeginInv
  <1>3. ASSUME NEW w \in Workers, Call(w) PROVE IInv'
    BY <1>3, CallInv
  <1>4. ASSUME NEW w \in Workers, Finish(w) PROVE IInv'
    <2>1. CASE CompanyRemove(w)
      BY <2>1, CompanyTxInv DEF CompanyRemove
    <2>2. CASE CompanyRestore(w)
      BY <2>2, CompanyTxInv DEF CompanyRestore
    <2>3. CASE CompanyPurge(w)
      BY <2>3, CompanyTxInv DEF CompanyPurge
    <2>4. CASE CompanyRestoreOnly(w)
      <3>1. company' \in [Orgs -> {"live", "deleted", "purged"}]
        BY <2>4 DEF CompanyRestoreOnly, IInv, TypeOK
      <3>. QED
        BY <2>4, <3>1, EndInv DEF CompanyRestoreOnly
    <2>. QED
      BY <1>4, <2>1, <2>2, <2>3, <2>4, RereadInv, UpdateInv, InsertInv, DeleteRowInv
      DEF Finish
  <1>5. ASSUME NEW w \in Workers, Fail(w) PROVE IInv'
    BY <1>5, EndInv DEF Fail, IInv, TypeOK
  <1>6. CASE UNCHANGED vars
    <2>1. TypeOK' /\ \A w \in Workers : JobInv(w)'
      BY <1>6 DEF IInv, TypeOK, JobInv, Parties, vars
    <2>. QED
      BY <1>6, <2>1, FrameInv DEF vars
  <1>. QED
    BY <1>1, <1>2, <1>3, <1>4, <1>5, <1>6 DEF Next

LEMMA Invariance == Spec => []IInv
  BY InitInv, NextInv, PTL DEF Spec

\* Type correctness: in particular a handler that is about to save holds a whole
\* snapshot, and an `existing` record it remembers is a row.
THEOREM TypeCorrect == Spec => []TypeOK
  <1>1. IInv => TypeOK
    BY DEF IInv
  <1>. QED
    BY <1>1, Invariance, PTL

\* No record ever shows a state that Razorpay did not report, nor one of a
\* subscription that its organization neither created nor is named by.
THEOREM RecordsAreOwn == Spec => []RecordsAreOwnSnapshots
  <1>1. IInv => RecordsAreOwnSnapshots
    BY DEF IInv
  <1>. QED
    BY <1>1, Invariance, PTL

-----------------------------------------------------------------------------
(* Only a restore revives *)

\* The only writes that reach a soft-deleted row are an UPDATE, which keeps its
\* life, another deletion, and the company transactions.
LEMMA ReviveStep ==
  ASSUME IInv, [Next]_vars, NEW r \in Rows,
         rows[r] # None, rows[r].life = "deleted", rows'[r].life = "live"
  PROVE  \E w \in Workers : pc[w] = "tx" /\ job[w].op = "restore" /\ job[w].org = rows[r].org
  <1>1. rows'[r] # rows[r] /\ rows' # rows
    OBVIOUS
  <1>2. ASSUME NEW w \in Workers, Finish(w)
        PROVE  pc[w] = "tx" /\ job[w].op = "restore" /\ job[w].org = rows[r].org
    <2>1. CASE Update(w)
      <3>1. job[w].row \in Rows /\ rows[job[w].row] \in Row
        BY <2>1, WriterFacts DEF Update
      <3>2. rows' = rows \/ rows' = [rows EXCEPT ![job[w].row] =
                                       [rows[job[w].row] EXCEPT !.snap = job[w].snap]]
        BY <2>1 DEF Update, Updated
      <3>3. [rows[job[w].row] EXCEPT !.snap = job[w].snap].life = rows[job[w].row].life
        BY <3>1 DEF Row
      <3>. QED
        BY <1>1, <3>1, <3>2, <3>3 DEF IInv, TypeOK
    <2>2. CASE Insert(w)
      <3>1. PICK t \in Rows :
              rows[t] = None
              /\ rows' = [rows EXCEPT ![t] = [org |-> job[w].org, snap |-> job[w].snap, life |-> "live"]]
        BY <2>2 DEF Insert
      <3>. QED
        BY <1>1, <3>1 DEF IInv, TypeOK
    <2>3. CASE DeleteRow(w)
      <3>1. rows' = rows \/ rows' = [rows EXCEPT ![job[w].row] =
                                       [rows[job[w].row] EXCEPT !.life = "deleted"]]
        BY <2>3 DEF DeleteRow
      <3>2. CASE r = job[w].row
        <4>1. [rows[r] EXCEPT !.life = "deleted"].life = "deleted"
          BY DEF IInv, TypeOK, Row
        <4>. QED
          BY <1>1, <3>1, <3>2, <4>1 DEF IInv, TypeOK
      <3>. QED
        BY <1>1, <3>1, <3>2 DEF IInv, TypeOK
    <2>4. ASSUME NEW op, NEW outcome \in {"live", "deleted", "purged"},
                 NEW life \in {"live", "deleted", "purged"}, CompanyTx(w, op, outcome, life)
          PROVE  pc[w] = "tx" /\ job[w].op = op /\ job[w].org = rows[r].org /\ life = "live"
      <3>1. pc[w] = "tx" /\ job[w].op = op /\ job[w].org \in Orgs
        BY <2>4 DEF CompanyTx, IInv, TypeOK, JobInv, Job
      <3>2. rows' = WithLife(job[w].org, life)
        BY <1>1, <2>4 DEF CompanyTx
      <3>3. rows[r].org = job[w].org /\ rows'[r].life \in {life, "purged"}
        BY <1>1, <3>1, <3>2, WithLifeFacts
      <3>. QED
        BY <3>1, <3>3
    <2>5. CASE CompanyRemove(w)
      BY <2>4, <2>5 DEF CompanyRemove
    <2>6. CASE CompanyPurge(w)
      BY <2>4, <2>6 DEF CompanyPurge
    <2>7. CASE CompanyRestore(w)
      BY <2>4, <2>7 DEF CompanyRestore
    <2>. QED
      BY <1>1, <1>2, <2>1, <2>2, <2>3, <2>5, <2>6, <2>7
      DEF Finish, Reread, CompanyRestoreOnly
  <1>3. ASSUME NEW w \in Workers, Begin(w) PROVE rows' = rows
    BY <1>3 DEF Begin, CreateBegin, CallBegin, DeleteBegin, WebhookBegin, WebhookIgnore,
                CompanyBegin
  <1>4. ASSUME NEW w \in Workers, Call(w) PROVE rows' = rows
    BY <1>4 DEF Call, CallCreate, CallFetch, CallCancel, CallCancelAtCycleEnd, CallPause,
                CallResume, CallChange
  <1>. QED
    BY <1>1, <1>2, <1>3, <1>4 DEF Next, RazorpayStep, Fail, vars

\* No late save revives a soft-deleted record.
THEOREM OnlyRestore == Spec => OnlyRestoreRevives
  <1>1. IInv /\ [Next]_vars =>
          [\A r \in Rows :
             /\ rows[r] # None /\ rows[r].life = "deleted"
             /\ rows'[r].life = "live"
             => \E w \in Workers : pc[w] = "tx" /\ job[w].op = "restore"
                                  /\ job[w].org = rows[r].org]_vars
    BY ReviveStep
  <1>. QED
    BY <1>1, Invariance, PTL DEF Spec, OnlyRestoreRevives

-----------------------------------------------------------------------------
(* The component implements the ledger *)

\* Shown, for any table.
LiveIn(table, o) == {r \in Rows : IsLive(table, r) /\ table[r].org = o}
ShownIn(table, o) ==
  IF LiveIn(table, o) = {} THEN None ELSE table[CHOOSE r \in LiveIn(table, o) : TRUE].snap

\* At most one row of an organization is live, so the choice does not matter.
LEMMA ShownRow ==
  ASSUME NEW table, IndexesHold(table), NEW o \in Orgs, NEW r \in LiveIn(table, o)
  PROVE  ShownIn(table, o) = table[r].snap
  <1>1. \A q \in LiveIn(table, o) : q = r
    BY DEF LiveIn, IndexesHold
  <1>2. (CHOOSE q \in LiveIn(table, o) : TRUE) = r
    BY <1>1
  <1>. QED
    BY <1>2 DEF ShownIn

LEMMA ShownNone ==
  ASSUME NEW table, NEW o \in Orgs, LiveIn(table, o) = {}
  PROVE  ShownIn(table, o) = None
  BY DEF ShownIn

\* A step that writes rows of one organization only shows or clears that one.
LEMMA TableStep ==
  ASSUME IInv, IInv', UNCHANGED <<owner, noted, sent>>, NEW o \in Orgs,
         \A r \in Rows : \/ rows'[r] = rows[r]
                         \/ /\ rows'[r] # None /\ rows'[r].org = o
                            /\ rows[r] = None \/ rows[r].org = o
  PROVE  Ledger!Next
  <1>1. IndexesHold(rows) /\ IndexesHold(rows')
    BY DEF IInv, IndexesHold, IsLive
  <1>2. ASSUME NEW p \in Orgs \ {o} PROVE Shown(p)' = Shown(p)
    <2>1. LiveIn(rows', p) = LiveIn(rows, p) /\ \A r \in LiveIn(rows, p) : rows'[r] = rows[r]
      BY DEF LiveIn, IsLive
    <2>2. ShownIn(rows', p) = ShownIn(rows, p)
      <3>1. CASE LiveIn(rows, p) = {}
        BY <3>1, <2>1, ShownNone
      <3>2. CASE LiveIn(rows, p) # {}
        <4>1. PICK r \in LiveIn(rows, p) : TRUE
          BY <3>2
        <4>2. ShownIn(rows', p) = rows'[r].snap /\ ShownIn(rows, p) = rows[r].snap
          BY <4>1, <2>1, <1>1, ShownRow
        <4>. QED
          BY <4>1, <4>2, <2>1
      <3>. QED
        BY <3>1, <3>2
    <2>. QED
      BY <2>2 DEF Shown, ShownIn, LiveRowsOf, LiveIn
  <1>3. Shown(o)' = ShownIn(rows', o)
    BY DEF Shown, ShownIn, LiveRowsOf, LiveIn
  <1>4. [p \in Orgs |-> Shown(p)]' = [[p \in Orgs |-> Shown(p)] EXCEPT ![o] = ShownIn(rows', o)]
    BY <1>2, <1>3
  <1>5. UNCHANGED {[maker |-> owner[e.sub], named |-> noted[e.sub], snap |-> e] : e \in sent}
    OBVIOUS
  <1>6. CASE LiveIn(rows', o) = {}
    <2>1. Ledger!Clear(o)
      BY <1>4, <1>5, <1>6, ShownNone DEF Ledger!Clear
    <2>. QED
      BY <2>1 DEF Ledger!Next
  <1>7. CASE LiveIn(rows', o) # {}
    <2>1. PICK r \in LiveIn(rows', o) : TRUE
      BY <1>7
    <2>2. ShownIn(rows', o) = rows'[r].snap
      BY <2>1, <1>1, ShownRow
    <2>3. r \in Rows /\ rows'[r] # None /\ rows'[r].org = o
      BY <2>1 DEF LiveIn, IsLive
    <2>4. /\ rows'[r].snap \in sent
          /\ o \in {owner[rows'[r].snap.sub], noted[rows'[r].snap.sub]}
      <3>1. rows'[r].snap \in sent'
            /\ rows'[r].org \in {owner'[rows'[r].snap.sub], noted'[rows'[r].snap.sub]}
        BY <2>3 DEF IInv, RecordsAreOwnSnapshots
      <3>. QED
        BY <3>1, <2>3
    <2> DEFINE y == rows'[r].snap
               x == [maker |-> owner[y.sub], named |-> noted[y.sub], snap |-> y]
               issued == {[maker |-> owner[e.sub], named |-> noted[e.sub], snap |-> e] : e \in sent}
    <2>5. x \in issued /\ o \in {x.maker, x.named} /\ x.snap = y
      BY <2>4
    <2>6. Ledger!Show(o, x)
      BY <1>4, <1>5, <2>2, <2>5 DEF Ledger!Show
    <2>. QED
      BY <2>5, <2>6 DEF Ledger!Next
  <1>. QED
    BY <1>6, <1>7

\* A step that adds one report to those of Razorpay issues it.
LEMMA IssueStep ==
  ASSUME IInv, rows' = rows, NEW o \in Orgs, NEW n \in Orgs \cup BodyNotes, NEW x \in Snapshot,
         sent' = sent \cup {x}, owner'[x.sub] = o, noted'[x.sub] = n,
         \A e \in sent : owner'[e.sub] = owner[e.sub] /\ noted'[e.sub] = noted[e.sub],
         \A e \in sent : e.sub = x.sub =>
           owner[e.sub] = o /\ noted[e.sub] = n /\ e.rev < x.rev
  PROVE  Ledger!Next
  <1> DEFINE issued == {[maker |-> owner[e.sub], named |-> noted[e.sub], snap |-> e] : e \in sent}
             new == [maker |-> o, named |-> n, snap |-> x]
  <1>1. issued' = issued \cup {new}
    OBVIOUS
  <1>2. UNCHANGED [p \in Orgs |-> Shown(p)]
    BY DEF Shown, LiveRowsOf, IsLive
  <1>3. \A i \in issued : i.snap.sub = new.snap.sub =>
          i.maker = new.maker /\ i.named = new.named /\ i.snap.rev < new.snap.rev
    OBVIOUS
  <1>4. new \in Ledger!Entry
    BY DEF Ledger!Entry
  <1>5. Ledger!Issue(new)
    BY <1>1, <1>2, <1>3 DEF Ledger!Issue
  <1>6. new \in issued'
    BY <1>1
  <1>. QED
    BY <1>4, <1>5, <1>6 DEF Ledger!Next

LEMMA MovesIssues ==
  ASSUME IInv, rows' = rows, NEW s \in Subs, NEW status \in Status, owner[s] # None,
         Moves(s, status)
  PROVE  Ledger!Next
  <1>1. /\ sent' = sent \cup {[sub |-> s, status |-> status, rev |-> rz[s].rev + 1]}
        /\ owner' = owner /\ noted' = noted /\ rz[s].rev < MaxRev
    BY DEF Moves
  <1>2. rz[s].rev \in 0..MaxRev /\ owner[s] \in Orgs /\ noted[s] \in Orgs \cup BodyNotes
    BY DEF IInv, TypeOK, SentInv
  <1>3. [sub |-> s, status |-> status, rev |-> rz[s].rev + 1] \in Snapshot
    BY <1>1, <1>2, ConstantsAssumption DEF Snapshot
  <1>4. PICK o \in Orgs, n \in Orgs \cup BodyNotes : o = owner[s] /\ n = noted[s]
    BY <1>2
  <1>5. PICK x \in Snapshot : x = [sub |-> s, status |-> status, rev |-> rz[s].rev + 1]
    BY <1>3
  <1>6. \A e \in sent : e.sub = x.sub => owner[e.sub] = o /\ noted[e.sub] = n /\ e.rev < x.rev
    <2>1. \A e \in sent : e.sub = s => e.rev <= rz[s].rev /\ e.rev \in 0..MaxRev
      BY DEF IInv, SentInv, TypeOK, Snapshot
    <2>. QED
      BY <2>1, <1>2, <1>4, <1>5, ConstantsAssumption
  <1>7. /\ sent' = sent \cup {x} /\ owner'[x.sub] = o /\ noted'[x.sub] = n
        /\ \A e \in sent : owner'[e.sub] = owner[e.sub] /\ noted'[e.sub] = noted[e.sub]
    BY <1>1, <1>4, <1>5
  <1>. QED
    BY <1>6, <1>7, IssueStep

LEMMA LedgerStutters ==
  ASSUME UNCHANGED <<owner, noted, sent, rows>>
  PROVE  UNCHANGED <<{[maker |-> owner[e.sub], named |-> noted[e.sub], snap |-> e] : e \in sent},
                     [o \in Orgs |-> Shown(o)]>>
  BY DEF Shown, LiveRowsOf, IsLive

LEMMA CreateIssues ==
  ASSUME IInv, NEW w \in Workers, CallCreate(w)
  PROVE  Ledger!Next
  <1>1. job[w].org \in Orgs /\ rows' = rows
    BY DEF CallCreate, IInv, TypeOK, JobInv, Job
  <1>2. PICK s \in Subs, n \in Orgs \cup BodyNotes :
          /\ owner[s] = None
          /\ owner' = [owner EXCEPT ![s] = job[w].org]
          /\ noted' = [noted EXCEPT ![s] = n]
          /\ sent' = sent \cup {[sub |-> s, status |-> "created", rev |-> 0]}
    BY <1>1 DEF CallCreate
  <1>3. PICK x \in Snapshot : x = [sub |-> s, status |-> "created", rev |-> 0]
    <2>1. [sub |-> s, status |-> "created", rev |-> 0] \in Snapshot
      BY ConstantsAssumption DEF Snapshot, Status
    <2>. QED
      BY <2>1
  <1>4. PICK o \in Orgs : o = job[w].org
    BY <1>1
  <1>5. \A e \in sent : e.sub # s /\ e.sub \in Subs
    BY <1>2 DEF IInv, SentInv, TypeOK, Snapshot
  <1>6. /\ owner'[s] = o /\ noted'[s] = n
        /\ \A e \in sent : owner'[e.sub] = owner[e.sub] /\ noted'[e.sub] = noted[e.sub]
    BY <1>2, <1>4, <1>5 DEF IInv, TypeOK
  <1>7. /\ sent' = sent \cup {x} /\ owner'[x.sub] = o /\ noted'[x.sub] = n
        /\ \A e \in sent : e.sub # x.sub
    BY <1>2, <1>3, <1>5, <1>6
  <1>. QED
    BY <1>1, <1>6, <1>7, IssueStep

\* The rows written by a step of a handler are those of one organization.
LEMMA FinishWrites ==
  ASSUME IInv, NEW w \in Workers, Finish(w), rows' # rows
  PROVE  /\ UNCHANGED <<owner, noted, sent>>
         /\ \E o \in Orgs : \A r \in Rows :
              \/ rows'[r] = rows[r]
              \/ /\ rows'[r] # None /\ rows'[r].org = o
                 /\ rows[r] = None \/ rows[r].org = o
  <1> DEFINE Own(r, o) == \/ rows'[r] = rows[r]
                          \/ /\ rows'[r] # None /\ rows'[r].org = o
                             /\ rows[r] = None \/ rows[r].org = o
  <1>1. IInv'
    BY NextInv DEF Next
  <1>2. CASE Update(w) \/ DeleteRow(w)
    <2> DEFINE t == job[w].row
    <2>1. t \in Rows /\ rows[t] # None /\ rows[t].org \in Orgs
      BY <1>2, NullAssumption DEF Update, DeleteRow, IInv, TypeOK, JobInv, Job, Row
    <2>2. PICK new : rows' = [rows EXCEPT ![t] = new]
      <3>1. rows' = [rows EXCEPT ![t] = [rows[t] EXCEPT !.snap = job[w].snap]]
            \/ rows' = [rows EXCEPT ![t] = [rows[t] EXCEPT !.life = "deleted"]]
        BY <1>2 DEF Update, Updated, DeleteRow
      <3>. QED
        BY <3>1
    <2>3. \A r \in Rows : rows[r] # None => rows'[r] # None /\ rows'[r].org = rows[r].org
      <3>1. CASE Update(w)
        <4>1. rows' = [rows EXCEPT ![t] = [rows[t] EXCEPT !.snap = job[w].snap]]
          BY <3>1 DEF Update, Updated
        <4>2. [rows[t] EXCEPT !.snap = job[w].snap] \in Row
              /\ [rows[t] EXCEPT !.snap = job[w].snap].org = rows[t].org
          BY <2>1, <3>1, WriterFacts DEF Update, Row
        <4>. QED
          BY <2>1, <4>1, <4>2, NullAssumption DEF IInv, TypeOK
      <3>2. CASE DeleteRow(w)
        <4>1. rows' = [rows EXCEPT ![t] = [rows[t] EXCEPT !.life = "deleted"]]
          BY <3>2 DEF DeleteRow
        <4>2. [rows[t] EXCEPT !.life = "deleted"] \in Row
              /\ [rows[t] EXCEPT !.life = "deleted"].org = rows[t].org
          BY <2>1 DEF IInv, TypeOK, Row
        <4>. QED
          BY <2>1, <4>1, <4>2, NullAssumption DEF IInv, TypeOK
      <3>. QED
        BY <1>2, <3>1, <3>2
    <2>4. \A r \in Rows \ {t} : rows'[r] = rows[r]
      BY <2>2 DEF IInv, TypeOK
    <2>5. UNCHANGED <<owner, noted, sent>>
      BY <1>2 DEF Update, DeleteRow, razorpay
    <2>6. \A r \in Rows : Own(r, rows[t].org)
      BY <2>1, <2>3, <2>4
    <2>. QED
      BY <2>1, <2>5, <2>6
  <1>3. CASE Insert(w)
    <2>1. PICK t \in Rows :
            rows[t] = None
            /\ rows' = [rows EXCEPT ![t] = [org |-> job[w].org, snap |-> job[w].snap,
                                            life |-> "live"]]
      BY <1>3 DEF Insert
    <2>2. [org |-> job[w].org, snap |-> job[w].snap, life |-> "live"] \in Row
          /\ job[w].org \in Orgs
      BY <1>3, WriterFacts DEF Insert, Row
    <2>3. /\ rows'[t] # None /\ rows'[t].org = job[w].org
          /\ \A r \in Rows \ {t} : rows'[r] = rows[r]
      BY <2>1, <2>2, NullAssumption DEF IInv, TypeOK
    <2>4. UNCHANGED <<owner, noted, sent>>
      BY <1>3 DEF Insert
    <2>5. \A r \in Rows : Own(r, job[w].org)
      BY <2>1, <2>3
    <2>. QED
      BY <2>2, <2>4, <2>5
  <1>4. ASSUME NEW op, NEW outcome \in {"live", "deleted", "purged"},
               NEW life \in {"live", "deleted", "purged"}, CompanyTx(w, op, outcome, life)
        PROVE  /\ UNCHANGED <<owner, noted, sent>>
               /\ \E o \in Orgs : \A r \in Rows : Own(r, o)
    <2>1. /\ UNCHANGED <<owner, noted, sent>> /\ rows' = WithLife(job[w].org, life)
          /\ job[w].org \in Orgs
      BY <1>4 DEF CompanyTx, razorpay, IInv, TypeOK, JobInv
    <2>2. \A r \in Rows : Own(r, job[w].org)
      BY <2>1, WithLifeFacts
    <2>. QED
      BY <2>1, <2>2
  <1>5. CASE CompanyRemove(w)
    BY <1>4, <1>5 DEF CompanyRemove
  <1>6. CASE CompanyPurge(w)
    BY <1>4, <1>6 DEF CompanyPurge
  <1>7. CASE CompanyRestore(w)
    BY <1>4, <1>7 DEF CompanyRestore
  <1>. QED
    BY <1>2, <1>3, <1>5, <1>6, <1>7 DEF Finish, Reread, CompanyRestoreOnly

\* Whatever a handler does is one step of the ledger, or none.
LEMMA LedgerStep ==
  IInv /\ IInv' /\ [Next]_vars =>
    [Ledger!Next]_<<{[maker |-> owner[e.sub], named |-> noted[e.sub], snap |-> e] : e \in sent},
                    [o \in Orgs |-> Shown(o)]>>
  <1> SUFFICES ASSUME IInv, IInv', [Next]_vars
               PROVE  \/ Ledger!Next
                      \/ UNCHANGED <<{[maker |-> owner[e.sub], named |-> noted[e.sub], snap |-> e] : e \in sent},
                                    [o \in Orgs |-> Shown(o)]>>
    OBVIOUS
  <1>1. ASSUME NEW s \in Subs, RazorpayStep(s) PROVE Ledger!Next
    <2>1. PICK status \in Status : Moves(s, status)
      BY <1>1 DEF RazorpayStep
    <2>2. owner[s] # None /\ rows' = rows
      BY <1>1 DEF RazorpayStep
    <2>. QED
      BY <2>1, <2>2, MovesIssues
  <1>2. ASSUME NEW w \in Workers, NEW op, NEW from, NEW to \in Status,
               CallChange(w, op, from, to), op # "create"
        PROVE  Ledger!Next
    <2> DEFINE s == job[w].snap.sub
    <2>1. pc[w] = "call" /\ job[w].op = op /\ Moves(s, to) /\ rows' = rows
      BY <1>2 DEF CallChange
    <2>2. job[w] \in Job /\ job[w].snap # None
      BY <2>1, <1>2, NullAssumption DEF IInv, TypeOK, JobInv
    <2>3. s \in Subs /\ owner[s] # None
      BY <2>2, HeldSub
    <2>. QED
      BY <2>1, <2>3, MovesIssues
  <1>3. ASSUME NEW w \in Workers, Call(w)
        PROVE  Ledger!Next \/ UNCHANGED <<owner, noted, sent, rows>>
    <2>1. CASE CallCreate(w)
      BY <2>1, CreateIssues
    <2>2. CASE CallCancel(w)
      <3>1. CallChange(w, "cancel", Status \ TerminalStatuses, "cancelled")
        BY <2>2 DEF CallCancel
      <3>. QED
        BY <3>1, <1>2 DEF Status
    <2>3. CASE CallPause(w)
      <3>1. CallChange(w, "pause", {"authenticated", "active"}, "paused")
        BY <2>3 DEF CallPause
      <3>. QED
        BY <3>1, <1>2 DEF Status
    <2>4. CASE CallResume(w)
      <3>1. CallChange(w, "resume", {"paused"}, "active")
        BY <2>4 DEF CallResume
      <3>. QED
        BY <3>1, <1>2 DEF Status
    <2>. QED
      BY <1>3, <2>1, <2>2, <2>3, <2>4 DEF Call, CallFetch, CallCancelAtCycleEnd, razorpay
  <1>4. ASSUME NEW w \in Workers, Finish(w)
        PROVE  Ledger!Next \/ UNCHANGED <<owner, noted, sent, rows>>
    <2>1. CASE rows' = rows
      <3>1. ASSUME NEW op, NEW outcome, NEW life, CompanyTx(w, op, outcome, life)
            PROVE  UNCHANGED <<owner, noted, sent>>
        BY <3>1 DEF CompanyTx, razorpay
      <3>2. CASE CompanyRemove(w) \/ CompanyPurge(w) \/ CompanyRestore(w)
        BY <2>1, <3>1, <3>2 DEF CompanyRemove, CompanyPurge, CompanyRestore
      <3>. QED
        BY <1>4, <2>1, <3>2 DEF Finish, Reread, Update, Insert, DeleteRow, CompanyRestoreOnly,
                                razorpay
    <2>2. CASE rows' # rows
      <3>1. PICK o \in Orgs : \A r \in Rows :
              \/ rows'[r] = rows[r]
              \/ /\ rows'[r] # None /\ rows'[r].org = o
                 /\ rows[r] = None \/ rows[r].org = o
        BY <1>4, <2>2, FinishWrites
      <3>2. UNCHANGED <<owner, noted, sent>>
        BY <1>4, <2>2, FinishWrites
      <3>. QED
        BY <3>1, <3>2, TableStep
    <2>. QED
      BY <2>1, <2>2
  <1>5. ASSUME NEW w \in Workers, Begin(w) \/ Fail(w) PROVE UNCHANGED <<owner, noted, sent, rows>>
    BY <1>5 DEF Begin, CreateBegin, CallBegin, DeleteBegin, WebhookBegin, WebhookIgnore,
                CompanyBegin, Fail, razorpay
  <1>6. CASE UNCHANGED vars
    BY <1>6, LedgerStutters DEF vars
  <1>. QED
    BY <1>1, <1>3, <1>4, <1>5, <1>6, LedgerStutters DEF Next

\* One record per organization at most, whole states of subscriptions it created
\* or that name it, issued in order: the component implements SubscriptionLedger.
THEOREM Refinement == Spec => ImplementsLedger
  <1>1. Init => Ledger!Init
    <2> SUFFICES ASSUME Init PROVE Ledger!Init
      OBVIOUS
    <2>1. \A o \in Orgs : LiveIn(rows, o) = {}
      BY DEF Init, LiveIn, IsLive
    <2>2. \A o \in Orgs : Shown(o) = None
      BY <2>1 DEF Shown, LiveRowsOf, LiveIn
    <2>. QED
      BY <2>2 DEF Init, Ledger!Init
  <1>. QED
    BY <1>1, LedgerStep, Invariance, PTL DEF Spec, ImplementsLedger, Ledger!Spec

=============================================================================
