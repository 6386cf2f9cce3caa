----------------------------- MODULE TenancyProofs -----------------------------
(***************************************************************************)
(* Proofs about Tenancy, for any number of handlers, companies and members.  The   *)
(* role a handler read may be another one when it writes, companies and members     *)
(* may be gone by then: the invariant says what a handler still knows.               *)
(***************************************************************************)
EXTENDS Tenancy, FiniteSetTheorems, TLAPS

Stages == {"idle", "number", "write", "customer", "ensure", "newCustomer", "saveCustomer"}
CustomerStages == {"customer", "newCustomer", "saveCustomer"}

TenancyTabled ==
  /\ company \in [Numbers -> Company \cup {None}]
  /\ user \in [Users -> User \cup {None}]
  /\ member \in [Members -> Member \cup {None}]
  /\ request \in [Requests -> Request \cup {None}]
  /\ customer \in [Customers -> Customer \cup {None}]
  /\ stage \in [Workers -> Stages]
  /\ task \in [Workers -> Task \cup {None}]
  /\ scope \in Scopes

\* The foreign keys of a member.
Keyed ==
  \A m \in Members : Exists(member[m]) => company[member[m].company] # None /\ IsLive(user[member[m].user])

\* Neither are companies purged nor are their tax numbers edited.
Plain == {"purgeCompany", "updateCompany"} \cap scope.calls = {}

\* The rows that a handler at stage s with task t is to write.
TenancyRefers(s, t) ==
  /\ t \in Task /\ t.op \in scope.calls
  /\ t.op = "createRequest" => t.request \in Requests /\ t.user \in Users
  /\ t.op = "addNew" => t.request \in Requests
  /\ t.op \in {"createCompany", "addNew"} => t.user \in Users /\ (s # "number" => t.company \in Numbers)
  /\ t.op \in RequestOps => t.request \in Requests
  /\ t.op \in CompanyOps \ {"resendToOwner"} => t.company \in Numbers
  /\ t.op \in {"createMember", "kernelCreateMember"} =>
       t.company \in Numbers /\ t.user \in Users /\ t.role \in Roles \ {"owner"}
  /\ t.op \in MemberOps \cup KernelMemberOps =>
       t.member \in Members /\ member[t.member] # None /\ t.user \in Users
  /\ t.op = "resendToOwner" => t.user \in Users
  /\ t.op = "subscribe" => t.company \in Numbers /\ t.user \in Users
  /\ s \in CustomerStages => t.op \in {"createCompany", "addNew", "subscribe"}
  /\ s = "customer" => t.op # "subscribe"
  /\ s = "ensure" => t.op = "subscribe"

\* Whom a handler makes an owner is the founder, or a member no more.
Promotes(t) ==
  t.op = "kernelUpdateMember" /\ t.role = "owner" /\ Exists(member[t.member]) =>
    member[t.member].user = company[member[t.member].company].founder

\* The customer of a handler was made for the company, or the kernel found it.
Found(t) ==
  \/ customer[t.customer] # None /\ customer[t.customer].madeFor = t.company
  \/ t.op # "subscribe" /\ Matches(t.customer, t)

\* Which company a handler looks for a customer for, and that it has found one.
Bills(s, t) ==
  /\ Plain /\ s \in CustomerStages =>
       /\ company[t.company] # None
       /\ t.op # "subscribe" =>
            company[t.company].founder = t.user /\ company[t.company].gst = t.gst
  /\ s = "saveCustomer" => t.customer \in Customers /\ Found(t)

Holds(s, t) == TenancyRefers(s, t) /\ Promotes(t) /\ Bills(s, t)

Handlers == \A w \in Workers : stage[w] # "idle" => Holds(stage[w], task[w])

TenancyInv == TenancyTabled /\ Keyed /\ Handlers /\ OwnerIsFounder /\ CustomerIsOwn

-----------------------------------------------------------------------------
(* What steps do to the invariant *)

\* No row is taken out of its table but a company that is purged; a member keeps
\* company and user, a company its founder, and Razorpay its customers.
TenancySteady ==
  /\ \A m \in Members : member[m] # None => member'[m] # None
  /\ \A m \in Members : member[m] # None /\ Exists(member'[m]) =>
       /\ Exists(member[m])
       /\ member'[m].company = member[m].company /\ member'[m].user = member[m].user
  /\ \A n \in Numbers : company[n] # None /\ company'[n] # None => company'[n].founder = company[n].founder
  /\ Plain => \A n \in Numbers : company[n] # None => company'[n] # None /\ company'[n].gst = company[n].gst
  /\ \A c \in Customers : customer[c] # None => customer'[c] = customer[c]

\* Roles: an owner is one already, or the founder.
RolesKept ==
  \A m \in Members : Exists(member'[m]) /\ member'[m].role = "owner" =>
    \/ member[m] # None /\ member[m].role = "owner"
    \/ member'[m].user = company'[member'[m].company].founder

\* Customers: a company has the one it had, or one of its own.
BillingKept ==
  Plain => \A n \in Numbers : company'[n] # None /\ company'[n].customer # None =>
    \/ company[n] # None /\ company[n].customer = company'[n].customer
    \/ LET c == customer'[company'[n].customer]
       IN  c # None /\ (c.madeFor = n \/ c.email = company'[n].founder \/ (c.gst # None /\ c.gst = company'[n].gst))

LEMMA StepKeepsInv ==
  ASSUME TenancyInv, TenancyTabled', Keyed', TenancySteady, RolesKept, BillingKept, scope' = scope,
         \A w \in Workers : stage'[w] # "idle" =>
           (stage'[w] = stage[w] /\ task'[w] = task[w]) \/ Holds(stage[w], task[w])'
  PROVE  TenancyInv'
<1>1. ASSUME NEW w \in Workers, stage'[w] # "idle", stage'[w] = stage[w], task'[w] = task[w]
      PROVE  Holds(stage[w], task[w])'
  <2> DEFINE t == task[w]
  <2>1. TenancyRefers(stage[w], t) /\ Promotes(t) /\ Bills(stage[w], t)
    BY <1>1 DEF TenancyInv, Handlers, Holds
  <2>2. TenancyRefers(stage[w], task[w])'
    BY <1>1, <2>1 DEF TenancyRefers, TenancySteady
  <2>3. Promotes(task[w])'
    <3> SUFFICES ASSUME t.op = "kernelUpdateMember", t.role = "owner", Exists(member'[t.member])
                 PROVE  member'[t.member].user = company'[member'[t.member].company].founder
      BY <1>1 DEF Promotes
    <3>1. t.member \in Members /\ member[t.member] # None
      BY <2>1 DEF TenancyRefers, KernelMemberOps
    <3>2. /\ Exists(member[t.member])
          /\ member'[t.member].company = member[t.member].company /\ member'[t.member].user = member[t.member].user
      BY <3>1 DEF TenancySteady
    <3>3. member[t.member].company \in Numbers
      BY <3>1 DEF TenancyInv, TenancyTabled, Member
    <3>4. company[member[t.member].company] # None /\ company'[member[t.member].company] # None
      BY <3>1, <3>2 DEF TenancyInv, Keyed
    <3> QED BY <2>1, <3>2, <3>3, <3>4 DEF Promotes, TenancySteady
  <2>4. Bills(stage[w], task[w])'
    <3>1. stage[w] = "saveCustomer" => Found(t)'
      BY <1>1, <2>1 DEF Bills, Found, Matches, TenancySteady
    <3>2. Plain' <=> Plain
      BY DEF Plain
    <3>3. stage[w] \in CustomerStages => t.company \in Numbers
      BY <2>1 DEF TenancyRefers, CustomerStages
    <3> QED BY <1>1, <2>1, <3>1, <3>2, <3>3 DEF Bills, TenancySteady
  <2> QED BY <2>2, <2>3, <2>4 DEF Holds
<1>2. Handlers'
  BY <1>1 DEF Handlers
<1>3. OwnerIsFounder'
  <2> SUFFICES ASSUME NEW m \in Members, Exists(member'[m]), member'[m].role = "owner",
                      member[m] # None, member[m].role = "owner"
               PROVE  member'[m].user = company'[member'[m].company].founder
    BY DEF OwnerIsFounder, RolesKept
  <2>1. /\ Exists(member[m])
        /\ member'[m].company = member[m].company /\ member'[m].user = member[m].user
    BY DEF TenancySteady
  <2>2. member[m].company \in Numbers
    BY DEF TenancyInv, TenancyTabled, Member
  <2>3. company[member[m].company] # None /\ company'[member[m].company] # None
    BY <2>1 DEF TenancyInv, Keyed
  <2> QED BY <2>1, <2>2, <2>3 DEF TenancyInv, OwnerIsFounder, TenancySteady
<1>4. CustomerIsOwn'
  <2> SUFFICES ASSUME Plain, NEW n \in Numbers, company'[n] # None, company'[n].customer # None
               PROVE  LET c == customer'[company'[n].customer]
                      IN  c # None /\ (c.madeFor = n \/ c.email = company'[n].founder \/ (c.gst # None /\ c.gst = company'[n].gst))
    BY DEF CustomerIsOwn, Plain
  <2> SUFFICES ASSUME company[n] # None, company[n].customer = company'[n].customer
               PROVE  LET c == customer'[company'[n].customer]
                      IN  c # None /\ (c.madeFor = n \/ c.email = company'[n].founder \/ (c.gst # None /\ c.gst = company'[n].gst))
    BY DEF BillingKept
  <2> DEFINE k == company[n].customer
  <2>1. k \in Customers
    BY DEF TenancyInv, TenancyTabled, Company
  <2>2. customer[k] # None /\ (customer[k].madeFor = n \/ customer[k].email = company[n].founder
                                 \/ (customer[k].gst # None /\ customer[k].gst = company[n].gst))
    BY DEF TenancyInv, CustomerIsOwn, Plain
  <2>3. customer'[k] = customer[k] /\ company'[n].founder = company[n].founder /\ company'[n].gst = company[n].gst
    BY <2>1, <2>2 DEF TenancySteady
  <2> QED BY <2>2, <2>3
<1> QED BY <1>2, <1>3, <1>4 DEF TenancyInv

-----------------------------------------------------------------------------
(* What steps do to the handlers *)

\* A handler is as it was, idle, or knows what the invariant says of it.
HandlersKept ==
  /\ stage' \in [Workers -> Stages] /\ task' \in [Workers -> Task \cup {None}] /\ scope' = scope
  /\ \A w \in Workers : stage'[w] # "idle" =>
       (stage'[w] = stage[w] /\ task'[w] = task[w]) \/ Holds(stage[w], task[w])'

LEMMA TenancyTaskKept ==
  ASSUME TenancyInv, NEW w \in Workers, stage[w] # "idle"
  PROVE  task[w] \in Task /\ Holds(stage[w], task[w])
BY DEF TenancyInv, Handlers, Holds, TenancyRefers

LEMMA IdleKept ==
  ASSUME TenancyInv, NEW w \in Workers,
         stage' = [stage EXCEPT ![w] = "idle"], task' = [task EXCEPT ![w] = None], scope' = scope
  PROVE  HandlersKept
BY DEF TenancyInv, TenancyTabled, HandlersKept, Stages

LEMMA FinishKept ==
  ASSUME TenancyInv, NEW w \in Workers, NEW op, Finish(w, op)
  PROVE  HandlersKept /\ task[w] \in Task /\ task[w].op = op /\ Holds("write", task[w])
BY IdleKept, TenancyTaskKept DEF Finish

LEMMA ProceedKept ==
  ASSUME TenancyInv, NEW w \in Workers, NEW s \in Stages, NEW t \in Task, Proceed(w, s, t),
         Holds(stage[w], task[w])'
  PROVE  HandlersKept
BY DEF TenancyInv, TenancyTabled, HandlersKept, Proceed

LEMMA ProceedsTo ==
  ASSUME TenancyInv, NEW w \in Workers, NEW s, NEW t, Proceed(w, s, t)
  PROVE  stage'[w] = s /\ task'[w] = t /\ scope' = scope
BY DEF TenancyInv, TenancyTabled, Proceed

-----------------------------------------------------------------------------
(* What the writes do *)

\* Nothing is written.
LEMMA TenancyReadKeepsInv ==
  ASSUME TenancyInv, HandlersKept, company' = company, user' = user, member' = member,
         request' = request, customer' = customer
  PROVE  TenancyInv'
<1>1. TenancyTabled' /\ Keyed'
  BY DEF TenancyInv, HandlersKept, TenancyTabled, Keyed
<1>2. TenancySteady /\ RolesKept /\ BillingKept
  <2>1. RolesKept
    BY DEF TenancyInv, OwnerIsFounder, RolesKept, Exists, IsLive, IsDeleted
  <2> QED BY <2>1 DEF TenancySteady, BillingKept
<1> QED BY <1>1, <1>2, StepKeepsInv DEF HandlersKept

\* Only requests are written.
LEMMA RequestsKeepInv ==
  ASSUME TenancyInv, HandlersKept, company' = company, user' = user, member' = member,
         request' \in [Requests -> Request \cup {None}], customer' = customer
  PROVE  TenancyInv'
<1>1. TenancyTabled' /\ Keyed'
  BY DEF TenancyInv, HandlersKept, TenancyTabled, Keyed
<1>2. TenancySteady /\ RolesKept /\ BillingKept
  <2>1. RolesKept
    BY DEF TenancyInv, OwnerIsFounder, RolesKept, Exists, IsLive, IsDeleted
  <2> QED BY <2>1 DEF TenancySteady, BillingKept
<1> QED BY <1>1, <1>2, StepKeepsInv DEF HandlersKept

\* A user who is there is written, and stays.
LEMMA UserKeepsInv ==
  ASSUME TenancyInv, HandlersKept, NEW u \in Users, NEW row, SetUser(u, row),
         IsLive(user[u]) => row \in User /\ row.life = "live",
         company' = company, member' = member, request' = request, customer' = customer
  PROVE  TenancyInv'
<1>1. user' \in [Users -> User \cup {None}]
  BY DEF TenancyInv, TenancyTabled, SetUser
<1>2. \A v \in Users : IsLive(user[v]) => IsLive(user'[v])
  BY TenancyAssumption DEF TenancyInv, TenancyTabled, SetUser, IsLive
<1>3. TenancyTabled' /\ Keyed'
  <2>1. \A m \in Members : Exists(member[m]) => member[m].user \in Users
    BY DEF TenancyInv, TenancyTabled, Member, Exists, IsLive, IsDeleted
  <2> QED BY <1>1, <1>2, <2>1 DEF TenancyInv, HandlersKept, TenancyTabled, Keyed
<1>4. TenancySteady /\ RolesKept /\ BillingKept
  <2>1. RolesKept
    BY DEF TenancyInv, OwnerIsFounder, RolesKept, Exists, IsLive, IsDeleted
  <2> QED BY <2>1 DEF TenancySteady, BillingKept
<1> QED BY <1>3, <1>4, StepKeepsInv DEF HandlersKept

\* Members change their role and their life, companies all but their founder.
MembersSteady ==
  \A m \in Members : member'[m] = member[m]
    \/ /\ Exists(member[m]) /\ member'[m] \in Member
       /\ member'[m].company = member[m].company /\ member'[m].user = member[m].user

CompaniesSteady ==
  \A n \in Numbers : company'[n] = company[n]
    \/ /\ company[n] # None /\ company'[n] \in Company
       /\ company'[n].founder = company[n].founder
       /\ Plain => company'[n].gst = company[n].gst

LEMMA RowsKeepInv ==
  ASSUME TenancyInv, HandlersKept, MembersSteady, CompaniesSteady, RolesKept, BillingKept,
         member' \in [Members -> Member \cup {None}], company' \in [Numbers -> Company \cup {None}],
         user' = user, request' = request, customer' = customer
  PROVE  TenancyInv'
<1>1. \A n \in Numbers : company[n] # None => company'[n] # None
  BY TenancyAssumption DEF CompaniesSteady
<1>2. TenancyTabled'
  BY DEF TenancyInv, HandlersKept, TenancyTabled
<1>3. Keyed'
  <2> SUFFICES ASSUME NEW m \in Members, Exists(member'[m])
               PROVE  company'[member'[m].company] # None /\ IsLive(user[member'[m].user])
    BY DEF Keyed, IsLive
  <2>1. /\ Exists(member[m])
        /\ member'[m].company = member[m].company /\ member'[m].user = member[m].user
    BY DEF MembersSteady
  <2>2. member[m].company \in Numbers
    BY <2>1 DEF TenancyInv, TenancyTabled, Member, Exists, IsLive, IsDeleted
  <2> QED BY <1>1, <2>1, <2>2 DEF TenancyInv, Keyed
<1>4. TenancySteady
  <2>1. \A m \in Members : member[m] # None => member'[m] # None
    BY TenancyAssumption DEF MembersSteady
  <2>2. \A m \in Members : member[m] # None /\ Exists(member'[m]) =>
          /\ Exists(member[m])
          /\ member'[m].company = member[m].company /\ member'[m].user = member[m].user
    BY DEF MembersSteady
  <2> QED BY <1>1, <2>1, <2>2 DEF TenancySteady, CompaniesSteady
<1> QED BY <1>2, <1>3, <1>4, StepKeepsInv DEF HandlersKept

\* DELETE, and what it takes along: every row that is lost keeps its key.
Deletes(us, ms) ==
  /\ us \subseteq Users /\ ms \subseteq Members
  /\ DeleteUsers(us) /\ SetMembers(ms, "gone") /\ MembershipsOf(us) \subseteq ms
  /\ company' \in [Numbers -> Company \cup {None}]
  /\ \A n \in Numbers :
       company'[n] = company[n] \/ (~ Plain /\ company'[n] = None /\ MembersOf(n) \subseteq ms)
  /\ request' = request /\ customer' = customer

LEMMA DeleteKeepsInv ==
  ASSUME TenancyInv, HandlersKept, NEW us, NEW ms, Deletes(us, ms)
  PROVE  TenancyInv'
<1> USE DEF Deletes
<1>1. user' \in [Users -> User \cup {None}]
  <2> SUFFICES ASSUME NEW u \in Users, user[u] # None
               PROVE  [user[u] EXCEPT !.life = "gone", !.sessions = {}] \in User
    BY DEF TenancyInv, TenancyTabled, DeleteUsers
  <2> QED BY DEF TenancyInv, TenancyTabled, User
<1>2. \A m \in ms : ~ Exists(member'[m]) /\ (member[m] # None => member'[m] # None)
                    /\ member'[m] \in Member \cup {None}
  <2> SUFFICES ASSUME NEW m \in ms
               PROVE  ~ Exists(member'[m]) /\ (member[m] # None => member'[m] # None)
                      /\ member'[m] \in Member \cup {None}
    OBVIOUS
  <2>1. member'[m] = SetLife(member[m], "gone") /\ member[m] \in Member \cup {None}
    BY DEF SetMembers, TenancyInv, TenancyTabled
  <2>2. CASE Exists(member[m])
    <3>1. member[m] \in Member
      BY <2>1, <2>2 DEF Exists, IsLive, IsDeleted
    <3>2. member'[m] \in Member /\ member'[m].life = "gone"
      BY <2>1, <2>2, <3>1 DEF SetLife, Member, Lives
    <3> QED BY <3>2, TenancyAssumption DEF Exists, IsLive, IsDeleted
  <2>3. CASE ~ Exists(member[m])
    BY <2>1, <2>3 DEF SetLife
  <2> QED BY <2>2, <2>3
<1>3. \A m \in Members \ ms : member'[m] = member[m]
  BY DEF SetMembers
<1>4. member' \in [Members -> Member \cup {None}]
  BY <1>2, <1>3 DEF SetMembers, TenancyInv, TenancyTabled
<1>5. TenancyTabled'
  BY <1>1, <1>4 DEF TenancyInv, HandlersKept, TenancyTabled
<1>6. Keyed'
  <2> SUFFICES ASSUME NEW m \in Members, Exists(member'[m])
               PROVE  company'[member'[m].company] # None /\ IsLive(user'[member'[m].user])
    BY DEF Keyed, IsLive
  <2>1. m \notin ms /\ member'[m] = member[m]
    BY <1>2, <1>3
  <2>2. member[m].company \in Numbers /\ member[m].user \in Users
    BY <2>1 DEF TenancyInv, TenancyTabled, Member, Exists, IsLive, IsDeleted
  <2>3. company[member[m].company] # None /\ IsLive(user[member[m].user])
    BY <2>1 DEF TenancyInv, Keyed
  <2>4. member[m].user \notin us
    BY <2>1 DEF MembershipsOf
  <2>5. user'[member[m].user] = user[member[m].user]
    BY <2>2, <2>4 DEF DeleteUsers
  <2>6. company'[member[m].company] = company[member[m].company]
    BY <2>1, <2>2 DEF MembersOf
  <2> QED BY <2>1, <2>3, <2>5, <2>6
<1>7. TenancySteady
  <2>1. \A m \in Members : member[m] # None => member'[m] # None
    BY <1>2, <1>3
  <2>2. \A m \in Members : member[m] # None /\ Exists(member'[m]) =>
          /\ Exists(member[m])
          /\ member'[m].company = member[m].company /\ member'[m].user = member[m].user
    BY <1>2, <1>3 DEF Exists, IsLive, IsDeleted
  <2> QED BY <2>1, <2>2 DEF TenancySteady
<1>8. RolesKept
  BY <1>2, <1>3 DEF RolesKept, Exists, IsLive, IsDeleted
<1>9. BillingKept
  BY DEF BillingKept
<1> QED BY <1>5, <1>6, <1>7, <1>8, <1>9, StepKeepsInv DEF HandlersKept

\* A member is inserted, of a company that is there and a user who is there by then.
Inserts(m, row) ==
  /\ m \in Members /\ member[m] = None /\ row \in Member /\ member' = [member EXCEPT ![m] = row]
  /\ user' \in [Users -> User \cup {None}] /\ company' \in [Numbers -> Company \cup {None}]
  /\ request' \in [Requests -> Request \cup {None}] /\ customer' = customer
  /\ \A u \in Users : IsLive(user[u]) => IsLive(user'[u])
  /\ \A n \in Numbers : company[n] # None => company'[n] = company[n]
  /\ \A n \in Numbers : company[n] = None /\ company'[n] # None => company'[n].customer = None
  /\ company'[row.company] # None /\ IsLive(user'[row.user])
  /\ row.role = "owner" => row.user = company'[row.company].founder

LEMMA TenancyInsertKeepsInv ==
  ASSUME TenancyInv, HandlersKept, NEW m, NEW row, Inserts(m, row)
  PROVE  TenancyInv'
<1> USE DEF Inserts
<1>1. member'[m] = row /\ \A k \in Members \ {m} : member'[k] = member[k]
  BY DEF TenancyInv, TenancyTabled
<1>2. row # None
  BY TenancyAssumption
<1>3. TenancyTabled'
  BY DEF TenancyInv, HandlersKept, TenancyTabled
<1>4. Keyed'
  <2> SUFFICES ASSUME NEW k \in Members, k # m, Exists(member[k])
               PROVE  company'[member[k].company] # None /\ IsLive(user'[member[k].user])
    BY <1>1 DEF Keyed, Exists, IsLive, IsDeleted
  <2>1. member[k].company \in Numbers /\ member[k].user \in Users
    BY DEF TenancyInv, TenancyTabled, Member, Exists, IsLive, IsDeleted
  <2> QED BY <2>1 DEF TenancyInv, Keyed
<1>5. TenancySteady
  <2>1. \A k \in Members : member[k] # None => member'[k] # None
    BY <1>1
  <2>2. \A k \in Members : member[k] # None /\ Exists(member'[k]) =>
          /\ Exists(member[k])
          /\ member'[k].company = member[k].company /\ member'[k].user = member[k].user
    BY <1>1 DEF Exists, IsLive, IsDeleted
  <2> QED BY <2>1, <2>2 DEF TenancySteady
<1>6. RolesKept
  BY <1>1 DEF RolesKept, Exists, IsLive, IsDeleted
<1>7. BillingKept
  BY TenancyAssumption DEF BillingKept
<1> QED BY <1>3, <1>4, <1>5, <1>6, <1>7, StepKeepsInv DEF HandlersKept

-----------------------------------------------------------------------------
(* Handlers that start *)

\* The task of a handler that starts, as the invariant has it.
LEMMA StartKeepsInv ==
  ASSUME TenancyInv, NEW w \in Workers, NEW s \in {"number", "write", "ensure"}, NEW t \in Task,
         Start(w, s, t), t.op \in scope.calls => TenancyRefers(s, t), Promotes(t)
  PROVE  TenancyInv'
<1>1. /\ t.op \in scope.calls /\ scope' = scope
      /\ stage' = [stage EXCEPT ![w] = s] /\ task' = [task EXCEPT ![w] = t]
      /\ company' = company /\ user' = user /\ member' = member
      /\ request' = request /\ customer' = customer
  BY DEF Start, tables
<1>2. stage'[w] = s /\ task'[w] = t
  BY <1>1 DEF TenancyInv, TenancyTabled
<1>3. Holds(stage[w], task[w])'
  <2>1. TenancyRefers(stage[w], task[w])'
    BY <1>1, <1>2 DEF TenancyRefers
  <2>2. Promotes(task[w])'
    BY <1>1, <1>2 DEF Promotes, Exists, IsLive, IsDeleted
  <2>3. Bills(stage[w], task[w])'
    BY <1>2 DEF Bills, CustomerStages
  <2> QED BY <2>1, <2>2, <2>3 DEF Holds
<1>4. HandlersKept
  BY <1>1, <1>3 DEF TenancyInv, TenancyTabled, HandlersKept, Stages
<1> QED BY <1>1, <1>4, TenancyReadKeepsInv

LEMMA ScopeTyped ==
  ASSUME TenancyInv
  PROVE  /\ scope.numbers \subseteq Numbers /\ scope.users \subseteq Users /\ scope.members \subseteq Members
         /\ scope.emails \subseteq Users \cup {None}
BY TenancyAssumption DEF TenancyInv, TenancyTabled, Scope

LEMMA CreateRequestBeginKeeps ==
  ASSUME TenancyInv, NEW w \in Workers, NEW r \in Requests, NEW u \in scope.users, NEW g \in Gsts,
         CreateRequestBegin(w, r, u, g)
  PROVE  TenancyInv'
<1> DEFINE t == [NewTask("createRequest") EXCEPT !.request = r, !.user = u, !.gst = g]
<1>1. t \in Task /\ t.op = "createRequest" /\ t.request = r /\ t.user = u
  BY ScopeTyped DEF NewTask, Task, Endpoints
<1>2. t.op \in scope.calls => TenancyRefers("write", t)
  BY <1>1, ScopeTyped DEF TenancyRefers, RequestOps, CompanyOps, MemberOps, KernelMemberOps, CustomerStages
<1>3. Promotes(t)
  BY <1>1 DEF Promotes
<1>4. Start(w, "write", t)
  BY DEF CreateRequestBegin
<1> HIDE DEF t
<1> QED BY <1>1, <1>2, <1>3, <1>4, StartKeepsInv

LEMMA RequestBeginKeeps ==
  ASSUME TenancyInv, NEW w \in Workers, NEW op, NEW r \in Requests, RequestBegin(w, op, r)
  PROVE  TenancyInv'
<1> DEFINE t == [NewTask(op) EXCEPT !.request = r]
<1>1. t \in Task /\ t.op = op /\ op \in RequestOps /\ t.request = r
  BY DEF RequestBegin, NewTask, Task, Endpoints
<1>2. t.op \in scope.calls => TenancyRefers("write", t)
  BY <1>1 DEF TenancyRefers, RequestOps, CompanyOps, MemberOps, KernelMemberOps, CustomerStages
<1>3. Promotes(t)
  BY <1>1 DEF Promotes, RequestOps
<1>4. Start(w, "write", t)
  BY DEF RequestBegin
<1> HIDE DEF t
<1> QED BY <1>1, <1>2, <1>3, <1>4, StartKeepsInv

LEMMA CreateCompanyBeginKeeps ==
  ASSUME TenancyInv, NEW w \in Workers, NEW u \in scope.users, NEW g \in Gsts \cup {None},
         CreateCompanyBegin(w, u, g)
  PROVE  TenancyInv'
<1> DEFINE t == [NewTask("createCompany") EXCEPT !.user = u, !.gst = g]
<1>1. t \in Task /\ t.op = "createCompany" /\ t.user = u
  BY ScopeTyped DEF NewTask, Task, Endpoints
<1>2. t.op \in scope.calls => TenancyRefers("number", t)
  BY <1>1, ScopeTyped DEF TenancyRefers, RequestOps, CompanyOps, MemberOps, KernelMemberOps, CustomerStages
<1>3. Promotes(t)
  BY <1>1 DEF Promotes
<1>4. Start(w, "number", t)
  BY DEF CreateCompanyBegin
<1> HIDE DEF t
<1> QED BY <1>1, <1>2, <1>3, <1>4, StartKeepsInv

LEMMA AddNewBeginKeeps ==
  ASSUME TenancyInv, NEW w \in Workers, NEW r \in Requests, AddNewBegin(w, r)
  PROVE  TenancyInv'
<1> DEFINE t == [NewTask("addNew") EXCEPT !.request = r, !.user = request[r].owner, !.gst = request[r].gst]
<1>1. request[r] \in Request
  BY DEF AddNewBegin, IsLive, TenancyInv, TenancyTabled
<1>2. t \in Task /\ t.op = "addNew" /\ t.request = r /\ t.user \in Users
  BY <1>1 DEF NewTask, Task, Endpoints, Request
<1>3. t.op \in scope.calls => TenancyRefers("number", t)
  BY <1>2 DEF TenancyRefers, RequestOps, CompanyOps, MemberOps, KernelMemberOps, CustomerStages
<1>4. Promotes(t)
  BY <1>2 DEF Promotes
<1>5. Start(w, "number", t)
  BY DEF AddNewBegin
<1> HIDE DEF t
<1> QED BY <1>2, <1>3, <1>4, <1>5, StartKeepsInv

LEMMA CompanyBeginKeeps ==
  ASSUME TenancyInv, NEW w \in Workers, NEW op, NEW n \in scope.numbers, CompanyBegin(w, op, n)
  PROVE  TenancyInv'
<1> DEFINE t == [NewTask(op) EXCEPT !.company = n]
<1>1. t \in Task /\ t.op = op /\ op \in CompanyOps \ {"purgeCompany", "resendToOwner"} /\ t.company = n
  BY ScopeTyped DEF CompanyBegin, NewTask, Task, Endpoints
<1>2. t.op \in scope.calls => TenancyRefers("write", t)
  BY <1>1, ScopeTyped DEF TenancyRefers, RequestOps, CompanyOps, MemberOps, KernelMemberOps, CustomerStages
<1>3. Promotes(t)
  BY <1>1 DEF Promotes, CompanyOps
<1>4. Start(w, "write", t)
  BY DEF CompanyBegin
<1> HIDE DEF t
<1> QED BY <1>1, <1>2, <1>3, <1>4, StartKeepsInv

LEMMA PurgeBeginKeeps ==
  ASSUME TenancyInv, NEW w \in Workers, NEW n \in scope.numbers, PurgeBegin(w, n)
  PROVE  TenancyInv'
<1> DEFINE t == [NewTask("purgeCompany") EXCEPT !.company = n, !.users = OwnUsers(n)]
<1>1. OwnUsers(n) \subseteq Users
  BY DEF OwnUsers, LinkedUsers, MembersOf, Exists, IsLive, IsDeleted, TenancyInv, TenancyTabled, Member
<1>2. t \in Task /\ t.op = "purgeCompany" /\ t.company = n
  BY <1>1, ScopeTyped DEF NewTask, Task, Endpoints, CompanyOps
<1>3. t.op \in scope.calls => TenancyRefers("write", t)
  BY <1>2, ScopeTyped DEF TenancyRefers, RequestOps, CompanyOps, MemberOps, KernelMemberOps, CustomerStages
<1>4. Promotes(t)
  BY <1>2 DEF Promotes
<1>5. Start(w, "write", t)
  BY DEF PurgeBegin
<1> HIDE DEF t
<1> QED BY <1>2, <1>3, <1>4, <1>5, StartKeepsInv

LEMMA SubscribeBeginKeeps ==
  ASSUME TenancyInv, NEW w \in Workers, NEW n \in scope.numbers, NEW u \in scope.users \cup Staffers,
         SubscribeBegin(w, n, u)
  PROVE  TenancyInv'
<1> DEFINE t == [NewTask("subscribe") EXCEPT !.company = n, !.user = u]
<1>1. n \in Numbers /\ u \in Users
  BY ScopeTyped, TenancyAssumption
<1>2. t \in Task /\ t.op = "subscribe" /\ t.company = n /\ t.user = u
  BY <1>1 DEF NewTask, Task, Endpoints
<1>3. t.op \in scope.calls => TenancyRefers("ensure", t)
  BY <1>1, <1>2 DEF TenancyRefers, RequestOps, CompanyOps, MemberOps, KernelMemberOps, CustomerStages
<1>4. Promotes(t)
  BY <1>2 DEF Promotes
<1>5. Start(w, "ensure", t)
  BY DEF SubscribeBegin
<1> HIDE DEF t
<1> QED BY <1>2, <1>3, <1>4, <1>5, StartKeepsInv

LEMMA ResendToOwnerBeginKeeps ==
  ASSUME TenancyInv, NEW w \in Workers, NEW n \in scope.numbers, NEW m \in Members, ResendToOwnerBegin(w, n, m)
  PROVE  TenancyInv'
<1> DEFINE t == [NewTask("resendToOwner") EXCEPT !.user = member[m].user]
<1>1. member[m] \in Member
  BY DEF ResendToOwnerBegin, IsLive, TenancyInv, TenancyTabled
<1>2. t \in Task /\ t.op = "resendToOwner" /\ t.user \in Users
  BY <1>1 DEF NewTask, Task, Endpoints, CompanyOps, Member
<1>3. t.op \in scope.calls => TenancyRefers("write", t)
  BY <1>2 DEF TenancyRefers, RequestOps, CompanyOps, MemberOps, KernelMemberOps, CustomerStages
<1>4. Promotes(t)
  BY <1>2 DEF Promotes
<1>5. Start(w, "write", t)
  BY DEF ResendToOwnerBegin
<1> HIDE DEF t
<1> QED BY <1>2, <1>3, <1>4, <1>5, StartKeepsInv

LEMMA NewMemberStarts ==
  ASSUME TenancyInv, NEW w \in Workers, NEW n \in scope.numbers, NEW u \in scope.users,
         NEW role \in Roles \ {"owner"}, NEW op \in {"createMember", "kernelCreateMember"},
         Start(w, "write", [NewTask(op) EXCEPT !.company = n, !.user = u, !.role = role])
  PROVE  TenancyInv'
<1> DEFINE t == [NewTask(op) EXCEPT !.company = n, !.user = u, !.role = role]
<1>1. t \in Task /\ t.op = op /\ t.company = n /\ t.user = u /\ t.role = role
  BY ScopeTyped DEF NewTask, Task, Endpoints
<1>2. t.op \in scope.calls => TenancyRefers("write", t)
  BY <1>1, ScopeTyped DEF TenancyRefers, RequestOps, CompanyOps, MemberOps, KernelMemberOps, CustomerStages
<1>3. Promotes(t)
  BY <1>1 DEF Promotes
<1>4. Start(w, "write", t)
  OBVIOUS
<1> HIDE DEF t
<1> QED BY <1>1, <1>2, <1>3, <1>4, StartKeepsInv

LEMMA MemberBeginKeeps ==
  ASSUME TenancyInv, NEW w \in Workers, NEW op, NEW m \in Members, NEW caller, MemberBegin(w, op, m, caller)
  PROVE  TenancyInv'
<1> DEFINE t == [NewTask(op) EXCEPT !.member = m, !.user = member[m].user, !.company = member[m].company]
<1>1. member[m] \in Member /\ member[m] # None /\ op \in MemberOps
  BY DEF MemberBegin, Exists, IsLive, IsDeleted, TenancyInv, TenancyTabled
<1>2. t \in Task /\ t.op = op /\ t.member = m /\ t.user \in Users
  BY <1>1 DEF NewTask, Task, Endpoints, Member
<1>3. t.op \in scope.calls => TenancyRefers("write", t)
  BY <1>1, <1>2 DEF TenancyRefers, RequestOps, CompanyOps, MemberOps, KernelMemberOps, CustomerStages
<1>4. Promotes(t)
  BY <1>1, <1>2 DEF Promotes, MemberOps
<1>5. Start(w, "write", t)
  BY DEF MemberBegin
<1> HIDE DEF t
<1> QED BY <1>2, <1>3, <1>4, <1>5, StartKeepsInv

\* Who is made an owner is one already, and so the founder.
LEMMA KernelMemberBeginKeeps ==
  ASSUME TenancyInv, NEW w \in Workers, NEW op, NEW m \in Members, NEW role \in Roles \cup {None},
         KernelMemberBegin(w, op, m, role)
  PROVE  TenancyInv'
<1> DEFINE t == [NewTask(op) EXCEPT !.member = m, !.user = member[m].user,
                                    !.company = member[m].company, !.role = role]
<1>1. member[m] \in Member /\ member[m] # None /\ op \in KernelMemberOps
  BY DEF KernelMemberBegin, Exists, IsLive, IsDeleted, TenancyInv, TenancyTabled
<1>2. t \in Task /\ t.op = op /\ t.member = m /\ t.user \in Users /\ t.role = role
  BY <1>1 DEF NewTask, Task, Endpoints, Member
<1>3. t.op \in scope.calls => TenancyRefers("write", t)
  BY <1>1, <1>2 DEF TenancyRefers, RequestOps, CompanyOps, MemberOps, KernelMemberOps, CustomerStages
<1>4. Promotes(t)
  BY <1>2 DEF Promotes, KernelMemberBegin, TenancyInv, OwnerIsFounder
<1>5. Start(w, "write", t)
  BY DEF KernelMemberBegin
<1> HIDE DEF t
<1> QED BY <1>2, <1>3, <1>4, <1>5, StartKeepsInv

-----------------------------------------------------------------------------
(* Handlers that write a request or a user *)

LEMMA CreateRequestKeeps == ASSUME TenancyInv, NEW w \in Workers, CreateRequest(w) PROVE TenancyInv'
<1>1. /\ HandlersKept /\ task[w] \in Task /\ task[w].op = "createRequest"
      /\ task[w].request \in Requests /\ task[w].user \in Users
  <2>1. HandlersKept /\ task[w] \in Task /\ task[w].op = "createRequest" /\ Holds("write", task[w])
    BY FinishKept DEF CreateRequest
  <2> QED BY <2>1 DEF Holds, TenancyRefers
<1>2. request' \in [Requests -> Request \cup {None}]
  BY <1>1 DEF CreateRequest, TenancyInv, TenancyTabled, Task, Request, Lives
<1> QED BY <1>1, <1>2, RequestsKeepInv DEF CreateRequest

LEMMA SetRequestKeeps ==
  ASSUME TenancyInv, NEW w \in Workers, NEW op \in RequestOps, Finish(w, op), NEW life \in Lives, SetRequest(w, life)
  PROVE  TenancyInv'
<1>1. HandlersKept
  BY FinishKept
<1>2. \A r \in Requests : SetLife(request[r], life) \in Request \cup {None}
  BY DEF TenancyInv, TenancyTabled, SetLife, Exists, IsLive, IsDeleted, Request
<1>3. request' \in [Requests -> Request \cup {None}]
  BY <1>2 DEF SetRequest, TenancyInv, TenancyTabled
<1> QED BY <1>1, <1>3, RequestsKeepInv DEF SetRequest

LEMMA LiveUser ==
  ASSUME TenancyInv, NEW u \in Users, IsLive(user[u])
  PROVE  user[u] \in User /\ user[u].life = "live"
BY DEF TenancyInv, TenancyTabled, IsLive

LEMMA TenancyResendKeeps ==
  ASSUME TenancyInv, NEW w \in Workers,
         NEW op \in {"resendToOwner", "resendToMember", "kernelResendToMember"}, Resend(w, op)
  PROVE  TenancyInv'
<1>1. HandlersKept /\ task[w].op = op /\ Holds("write", task[w])
  BY FinishKept DEF Resend
<1>2. task[w].user \in Users
  BY <1>1 DEF Holds, TenancyRefers, MemberOps, KernelMemberOps
<1>3. ASSUME IsLive(user[task[w].user])
      PROVE  LET row == [user[task[w].user] EXCEPT !.password = "seed"]
             IN  row \in User /\ row.life = "live"
  BY <1>2, <1>3, LiveUser DEF User
<1> QED BY <1>1, <1>2, <1>3, UserKeepsInv DEF Resend

\* The user of a member's handler.
LEMMA MemberTask ==
  ASSUME TenancyInv, NEW w \in Workers, NEW op \in MemberOps \cup KernelMemberOps, Finish(w, op)
  PROVE  /\ HandlersKept /\ task[w] \in Task /\ task[w].op = op /\ Promotes(task[w])
         /\ task[w].member \in Members /\ member[task[w].member] # None /\ task[w].user \in Users
<1>1. HandlersKept /\ task[w] \in Task /\ task[w].op = op /\ Holds("write", task[w])
  BY FinishKept
<1> QED BY <1>1 DEF Holds, TenancyRefers

LEMMA SetBannedKeeps ==
  ASSUME TenancyInv, NEW w \in Workers, NEW op \in MemberOps \cup KernelMemberOps, Finish(w, op),
         SetBanned(task[w].user), OnlyUser(w)
  PROVE  TenancyInv'
<1>1. HandlersKept /\ task[w].user \in Users
  BY MemberTask
<1>2. PICK banned \in BOOLEAN : SetUser(task[w].user, [user[task[w].user] EXCEPT !.banned = banned])
  BY DEF SetBanned
<1>3. ASSUME IsLive(user[task[w].user])
      PROVE  LET row == [user[task[w].user] EXCEPT !.banned = banned]
             IN  row \in User /\ row.life = "live"
  BY <1>1, <1>3, LiveUser DEF User
<1> QED BY <1>1, <1>2, <1>3, UserKeepsInv DEF OnlyUser

LEMMA DeleteSessionsKeeps ==
  ASSUME TenancyInv, NEW w \in Workers, NEW op \in MemberOps \cup KernelMemberOps, Finish(w, op),
         NEW tokens, DeleteSessions(task[w].user, tokens), OnlyUser(w)
  PROVE  TenancyInv'
<1>1. HandlersKept /\ task[w].user \in Users
  BY MemberTask
<1>2. ASSUME IsLive(user[task[w].user])
      PROVE  LET row == [user[task[w].user] EXCEPT !.sessions = @ \ tokens]
             IN  row \in User /\ row.life = "live"
  BY <1>1, <1>2, LiveUser DEF User
<1> QED BY <1>1, <1>2, UserKeepsInv DEF OnlyUser, DeleteSessions

LEMMA SignInKeeps ==
  ASSUME TenancyInv, NEW u \in scope.users, NEW token \in Tokens, SignIn(u, token)
  PROVE  TenancyInv'
<1>1. HandlersKept
  BY DEF SignIn, HandlersKept, TenancyInv, TenancyTabled
<1>2. u \in Users
  BY ScopeTyped
<1>3. ASSUME IsLive(user[u])
      PROVE  LET row == [user[u] EXCEPT !.sessions = @ \cup {token}]
             IN  row \in User /\ row.life = "live"
  BY <1>2, <1>3, LiveUser DEF User
<1> QED BY <1>1, <1>2, <1>3, UserKeepsInv DEF SignIn

LEMMA ChoosePasswordKeeps ==
  ASSUME TenancyInv, NEW u \in scope.users, ChoosePassword(u)
  PROVE  TenancyInv'
<1>1. HandlersKept
  BY DEF ChoosePassword, HandlersKept, TenancyInv, TenancyTabled
<1>2. u \in Users
  BY ScopeTyped
<1>3. ASSUME IsLive(user[u])
      PROVE  LET row == [user[u] EXCEPT !.password = "own"]
             IN  row \in User /\ row.life = "live"
  BY <1>2, <1>3, LiveUser DEF User
<1> QED BY <1>1, <1>2, <1>3, UserKeepsInv DEF ChoosePassword

-----------------------------------------------------------------------------
(* Handlers that write a member *)

\* Roles are kept where no member becomes an owner but one who was.
LEMMA LivesKeepRoles ==
  ASSUME \A m \in Members : member'[m] = member[m] \/ (member[m] # None /\ member'[m].role = member[m].role)
  PROVE  RolesKept
BY DEF RolesKept, Exists, IsLive, IsDeleted

LEMMA SetLifeKeepsMember ==
  ASSUME TenancyInv, NEW m \in Members, NEW life \in Lives
  PROVE  /\ SetLife(member[m], life) \in Member \cup {None}
         /\ SetLife(member[m], life) = member[m]
              \/ /\ Exists(member[m]) /\ SetLife(member[m], life) \in Member
                 /\ SetLife(member[m], life).company = member[m].company
                 /\ SetLife(member[m], life).user = member[m].user
                 /\ SetLife(member[m], life).role = member[m].role
<1>1. CASE Exists(member[m])
  <2>1. member[m] \in Member
    BY <1>1 DEF Exists, IsLive, IsDeleted, TenancyInv, TenancyTabled
  <2> QED BY <1>1, <2>1 DEF SetLife, Member
<1>2. CASE ~ Exists(member[m])
  BY <1>2 DEF SetLife, TenancyInv, TenancyTabled
<1> QED BY <1>1, <1>2

LEMMA SetMembersSteady ==
  ASSUME TenancyInv, NEW ms, NEW life \in Lives, SetMembers(ms, life)
  PROVE  /\ member' \in [Members -> Member \cup {None}] /\ MembersSteady /\ RolesKept
<1>1. \A m \in Members : member'[m] = member[m] \/ member'[m] = SetLife(member[m], life)
  BY DEF SetMembers
<1>2. member' \in [Members -> Member \cup {None}]
  BY <1>1, SetLifeKeepsMember DEF SetMembers, TenancyInv, TenancyTabled
<1>3. MembersSteady
  BY <1>1, SetLifeKeepsMember DEF MembersSteady
<1>4. RolesKept
  BY <1>1, SetLifeKeepsMember, LivesKeepRoles DEF Exists, IsLive, IsDeleted
<1> QED BY <1>2, <1>3, <1>4

LEMMA SetMemberKeeps ==
  ASSUME TenancyInv, NEW w \in Workers, NEW op \in MemberOps \cup KernelMemberOps, Finish(w, op),
         NEW life \in Lives, SetMember(task[w].member, life), OnlyMember(w)
  PROVE  TenancyInv'
<1>1. HandlersKept /\ task[w].member \in Members
  BY MemberTask
<1>2. SetMembers({task[w].member}, life)
  BY <1>1 DEF SetMember, SetMembers, TenancyInv, TenancyTabled
<1>3. /\ member' \in [Members -> Member \cup {None}] /\ MembersSteady /\ RolesKept
  BY <1>2, SetMembersSteady
<1>4. CompaniesSteady /\ BillingKept /\ company' \in [Numbers -> Company \cup {None}]
  BY DEF OnlyMember, CompaniesSteady, BillingKept, TenancyInv, TenancyTabled
<1> QED BY <1>1, <1>3, <1>4, RowsKeepInv DEF OnlyMember

LEMMA SetRoleKeeps ==
  ASSUME TenancyInv, NEW w \in Workers, NEW op \in MemberOps \cup KernelMemberOps, Finish(w, op),
         NEW role \in Roles \cup {None}, SetRole(task[w].member, role), OnlyMember(w),
         role = "owner" => op = "kernelUpdateMember" /\ task[w].role = "owner"
  PROVE  TenancyInv'
<1> DEFINE m == task[w].member
<1>1. HandlersKept /\ task[w].op = op /\ m \in Members /\ Promotes(task[w])
  BY MemberTask
<1>2. \A k \in Members \ {m} : member'[k] = member[k]
  BY DEF SetRole, TenancyInv, TenancyTabled
<1>3. CASE ~ (Exists(member[m]) /\ role # None)
  <2>1. member' = member
    BY <1>1, <1>3 DEF SetRole, TenancyInv, TenancyTabled
  <2> QED BY <1>1, <2>1, TenancyReadKeepsInv DEF OnlyMember
<1>4. CASE Exists(member[m]) /\ role # None
  <2>1. member[m] \in Member /\ member[m] # None
    BY <1>1, <1>4 DEF Exists, IsLive, IsDeleted, TenancyInv, TenancyTabled
  <2>2. member'[m] = [member[m] EXCEPT !.role = role]
    BY <1>1, <1>4 DEF SetRole, TenancyInv, TenancyTabled
  <2>3. /\ member'[m] \in Member /\ member'[m].role = role
        /\ member'[m].company = member[m].company /\ member'[m].user = member[m].user
    BY <1>4, <2>1, <2>2 DEF Member
  <2>4. member' \in [Members -> Member \cup {None}]
    BY <1>1, <1>2, <2>3 DEF SetRole, TenancyInv, TenancyTabled
  <2>5. MembersSteady
    BY <1>2, <1>4, <2>3 DEF MembersSteady
  <2>6. RolesKept
    <3>1. role = "owner" => member[m].user = company[member[m].company].founder
      BY <1>1, <1>4 DEF Promotes
    <3> QED BY <1>1, <1>2, <2>3, <3>1 DEF RolesKept, OnlyMember, Exists, IsLive, IsDeleted
  <2>7. CompaniesSteady /\ BillingKept /\ company' \in [Numbers -> Company \cup {None}]
    BY DEF OnlyMember, CompaniesSteady, BillingKept, TenancyInv, TenancyTabled
  <2> QED BY <1>1, <2>4, <2>5, <2>6, <2>7, RowsKeepInv DEF OnlyMember
<1> QED BY <1>3, <1>4

LEMMA RemoveWithUserKeeps ==
  ASSUME TenancyInv, NEW w \in Workers, NEW op \in MemberOps \cup KernelMemberOps, Finish(w, op),
         DeleteMemberAndUser(task[w])
  PROVE  TenancyInv'
<1> DEFINE us == {task[w].user}
           ms == {task[w].member} \cup MembershipsOf(us)
<1>1. HandlersKept /\ us \subseteq Users /\ ms \subseteq Members
  BY MemberTask DEF MembershipsOf
<1>2. DeleteUsers(us) /\ SetMembers(ms, "gone") /\ MembershipsOf(us) \subseteq ms
  BY DEF DeleteMemberAndUser
<1>3. company' = company /\ request' = request /\ customer' = customer
  BY DEF DeleteMemberAndUser
<1>4. company' \in [Numbers -> Company \cup {None}]
  BY <1>3 DEF TenancyInv, TenancyTabled
<1> HIDE DEF us, ms
<1>5. Deletes(us, ms)
  BY <1>1, <1>2, <1>3, <1>4 DEF Deletes
<1> QED BY <1>1, <1>5, DeleteKeepsInv

LEMMA NewUserIsLive == NewUser \in User /\ IsLive(NewUser)
<1>1. NewUser \in User
  BY DEF NewUser, User
<1>2. NewUser.life = "live"
  BY DEF NewUser
<1> QED BY <1>1, <1>2, TenancyAssumption DEF IsLive

LEMMA InsertMemberKeeps ==
  ASSUME TenancyInv, NEW w \in Workers, NEW op \in {"createMember", "kernelCreateMember"}, Finish(w, op),
         InsertMember(task[w])
  PROVE  TenancyInv'
<1> DEFINE t == task[w]
<1>1. HandlersKept /\ Holds("write", t) /\ t.op = op
  BY FinishKept
<1>2. t.company \in Numbers /\ t.user \in Users /\ t.role \in Roles \ {"owner"}
  BY <1>1 DEF Holds, TenancyRefers
<1>3. PICK m \in Members :
        /\ member[m] = None
        /\ member' = [member EXCEPT ![m] =
             [company |-> t.company, user |-> t.user, role |-> t.role, life |-> "live"]]
  BY DEF InsertMember, FirstUnused
<1> DEFINE row == [company |-> t.company, user |-> t.user, role |-> t.role, life |-> "live"]
<1>4. row \in Member /\ row.company = t.company /\ row.user = t.user /\ row.role # "owner"
  BY <1>2 DEF Member, Lives
<1>5. /\ company[t.company] # None /\ user[t.user] = None /\ user' = [user EXCEPT ![t.user] = NewUser]
      /\ company' = company /\ request' = request /\ customer' = customer
  BY DEF InsertMember
<1>6. NewUser \in User /\ IsLive(NewUser)
  BY NewUserIsLive
<1>7. /\ user' \in [Users -> User \cup {None}] /\ IsLive(user'[t.user])
      /\ \A u \in Users : IsLive(user[u]) => IsLive(user'[u])
  BY <1>2, <1>5, <1>6 DEF TenancyInv, TenancyTabled, IsLive
<1>8. company' \in [Numbers -> Company \cup {None}] /\ request' \in [Requests -> Request \cup {None}]
  BY <1>5 DEF TenancyInv, TenancyTabled
<1>9. member' = [member EXCEPT ![m] = row]
  BY <1>3
<1> HIDE DEF row, t
<1>10. Inserts(m, row)
  BY <1>2, <1>3, <1>4, <1>5, <1>7, <1>8, <1>9 DEF Inserts
<1> QED BY <1>1, <1>10, TenancyInsertKeepsInv

-----------------------------------------------------------------------------
(* Handlers that write a company *)

\* The number that a handler has found for its company.
LEMMA NumberKeeps ==
  ASSUME TenancyInv, NEW w \in Workers, stage[w] = "number", task[w].op \in {"createCompany", "addNew"},
         NEW n \in Numbers, Proceed(w, "write", [task[w] EXCEPT !.company = n]), UNCHANGED tables
  PROVE  TenancyInv'
<1> DEFINE t == [task[w] EXCEPT !.company = n]
<1>1. task[w] \in Task /\ TenancyRefers("number", task[w])
  BY TenancyTaskKept DEF Holds
<1>2. /\ t \in Task /\ t.op = task[w].op /\ t.user = task[w].user /\ t.request = task[w].request
      /\ t.company = n
  BY <1>1 DEF Task
<1>3. TenancyRefers("write", t)
  BY <1>1, <1>2 DEF TenancyRefers, RequestOps, CompanyOps, MemberOps, KernelMemberOps, CustomerStages
<1>4. stage'[w] = "write" /\ task'[w] = t /\ scope' = scope
  BY ProceedsTo
<1>5. company' = company /\ user' = user /\ member' = member /\ request' = request /\ customer' = customer
  BY DEF tables
<1>6. Proceed(w, "write", t)
  OBVIOUS
<1> HIDE DEF t
<1>7. TenancyRefers(stage[w], task[w])'
  BY <1>3, <1>4, <1>5 DEF TenancyRefers
<1>8. Promotes(task[w])' /\ Bills(stage[w], task[w])'
  BY <1>2, <1>4 DEF Promotes, Bills, CustomerStages
<1>9. HandlersKept
  BY <1>2, <1>6, <1>7, <1>8, ProceedKept DEF Holds, Stages
<1> QED BY <1>5, <1>9, TenancyReadKeepsInv

LEMMA CreateCompanyReadKeeps == ASSUME TenancyInv, NEW w \in Workers, CreateCompanyRead(w) PROVE TenancyInv'
BY NumberKeeps, ScopeTyped DEF CreateCompanyRead

LEMMA AddNewReadKeeps == ASSUME TenancyInv, NEW w \in Workers, AddNewRead(w) PROVE TenancyInv'
BY NumberKeeps, ScopeTyped DEF AddNewRead

\* The company and its owner; the handler goes on to look for the customer.
LEMMA InsertCompanyKeeps ==
  ASSUME TenancyInv, NEW w \in Workers, stage[w] = "write", task[w].op \in {"createCompany", "addNew"},
         NEW m \in Members, InsertCompany(task[w], m), Proceed(w, "customer", task[w]),
         user' \in [Users -> User \cup {None}], request' \in [Requests -> Request \cup {None}],
         \A u \in Users : IsLive(user[u]) => IsLive(user'[u]), IsLive(user'[task[w].user])
  PROVE  TenancyInv'
<1> PICK e \in scope.emails : company' = [company EXCEPT ![task[w].company] =
      [gst |-> task[w].gst, email |-> e, founder |-> task[w].user, life |-> "live", customer |-> None]]
  BY DEF InsertCompany
<1> DEFINE t == task[w]
           row == [company |-> t.company, user |-> t.user, role |-> "owner", life |-> "live"]
           new == [gst |-> t.gst, email |-> e, founder |-> t.user, life |-> "live", customer |-> None]
<1>1. t \in Task /\ TenancyRefers("write", t)
  BY TenancyTaskKept DEF Holds
<1>2. t.company \in Numbers /\ t.user \in Users
  BY <1>1 DEF TenancyRefers
<1>3. t.gst \in Gsts \cup {None}
  BY <1>1 DEF Task
<1>4. /\ row \in Member /\ row.company = t.company /\ row.user = t.user
      /\ new \in Company /\ new.founder = t.user /\ new.gst = t.gst /\ new.customer = None /\ new # None
  <2>1. row \in Member /\ row.company = t.company /\ row.user = t.user
    BY <1>2 DEF Member, Roles, Lives
  <2>2. new \in Company /\ new.founder = t.user /\ new.gst = t.gst /\ new.customer = None
    BY <1>2, <1>3, ScopeTyped DEF Company
  <2> QED BY <2>1, <2>2, TenancyAssumption
<1>5. /\ company[t.company] = None /\ company' = [company EXCEPT ![t.company] = new]
      /\ member[m] = None /\ member' = [member EXCEPT ![m] = row] /\ customer' = customer
  BY DEF InsertCompany, FirstUnused
<1> HIDE DEF row, new
<1>6. company'[t.company] = new /\ \A n \in Numbers \ {t.company} : company'[n] = company[n]
  BY <1>2, <1>5 DEF TenancyInv, TenancyTabled
<1>7. company' \in [Numbers -> Company \cup {None}]
  BY <1>4, <1>5 DEF TenancyInv, TenancyTabled
<1>8. Inserts(m, row)
  BY <1>2, <1>4, <1>5, <1>6, <1>7 DEF Inserts
<1>9. Holds(stage[w], task[w])'
  <2>1. stage'[w] = "customer" /\ task'[w] = t /\ scope' = scope
    BY ProceedsTo
  <2>2. TenancyRefers(stage[w], task[w])'
    BY <1>1, <2>1 DEF TenancyRefers, RequestOps, CompanyOps, MemberOps, KernelMemberOps
  <2>3. Promotes(task[w])'
    BY <2>1 DEF Promotes
  <2>4. Bills(stage[w], task[w])'
    BY <1>4, <1>6, <2>1 DEF Bills
  <2> QED BY <2>2, <2>3, <2>4 DEF Holds
<1>10. HandlersKept
  BY <1>1, <1>9, ProceedKept DEF Stages
<1> QED BY <1>8, <1>10, TenancyInsertKeepsInv

LEMMA SetLifeKeepsRequest ==
  ASSUME TenancyInv, NEW r \in Requests, NEW life \in Lives
  PROVE  SetLife(request[r], life) \in Request \cup {None}
BY DEF TenancyInv, TenancyTabled, SetLife, Exists, IsLive, IsDeleted, Request

LEMMA CreateCompanyKeeps == ASSUME TenancyInv, NEW w \in Workers, CreateCompany(w) PROVE TenancyInv'
<1>1. TenancyRefers("write", task[w]) /\ task[w].op = "createCompany"
  BY TenancyTaskKept DEF CreateCompany, Holds
<1>2. task[w].user \in Users
  BY <1>1 DEF TenancyRefers
<1>3. /\ user' \in [Users -> User \cup {None}] /\ IsLive(user'[task[w].user])
      /\ \A u \in Users : IsLive(user[u]) => IsLive(user'[u])
  BY <1>2, NewUserIsLive DEF CreateCompany, TenancyInv, TenancyTabled, IsLive
<1>4. request' \in [Requests -> Request \cup {None}]
  BY SetLifeKeepsRequest DEF CreateCompany, TenancyInv, TenancyTabled, Lives
<1> QED BY <1>1, <1>3, <1>4, InsertCompanyKeeps DEF CreateCompany

LEMMA AddNewKeeps == ASSUME TenancyInv, NEW w \in Workers, AddNew(w) PROVE TenancyInv'
<1>1. request' \in [Requests -> Request \cup {None}]
  BY SetLifeKeepsRequest DEF AddNew, TenancyInv, TenancyTabled, Lives
<1>2. user' = user /\ user' \in [Users -> User \cup {None}] /\ IsLive(user'[task[w].user])
  BY DEF AddNew, TenancyInv, TenancyTabled, IsLive
<1> QED BY <1>1, <1>2, InsertCompanyKeeps DEF AddNew

\* What a handler of an existing company knows.
LEMMA CompanyTask ==
  ASSUME TenancyInv, NEW w \in Workers, NEW op \in CompanyOps \ {"resendToOwner"}, Finish(w, op)
  PROVE  HandlersKept /\ task[w] \in Task /\ task[w].company \in Numbers /\ op \in scope.calls
<1>1. HandlersKept /\ task[w] \in Task /\ task[w].op = op /\ Holds("write", task[w])
  BY FinishKept
<1> QED BY <1>1 DEF Holds, TenancyRefers

\* A company is restored or removed, with members or without.
LEMMA CompanyLifeKeeps ==
  ASSUME TenancyInv, NEW w \in Workers, NEW op \in CompanyOps \ {"resendToOwner"}, Finish(w, op),
         NEW life \in {"live", "deleted"},
         SetCompany(task[w].company, [company[task[w].company] EXCEPT !.life = life]),
         member' \in [Members -> Member \cup {None}], MembersSteady, RolesKept,
         user' = user, request' = request, customer' = customer
  PROVE  TenancyInv'
<1> DEFINE n == task[w].company
           row == [company[n] EXCEPT !.life = life]
<1>1. HandlersKept /\ n \in Numbers
  BY CompanyTask
<1>2. company[n] # None =>
        /\ row \in Company /\ row.founder = company[n].founder /\ row.gst = company[n].gst
        /\ row.customer = company[n].customer
  BY <1>1 DEF TenancyInv, TenancyTabled, Company
<1>3. company' = [company EXCEPT ![n] = IF @ = None THEN None ELSE row]
  BY DEF SetCompany
<1> HIDE DEF row
<1>4. /\ company'[n] = (IF company[n] = None THEN None ELSE row)
      /\ \A k \in Numbers \ {n} : company'[k] = company[k]
  BY <1>1, <1>3 DEF TenancyInv, TenancyTabled
<1>5. CompaniesSteady
  BY <1>2, <1>4 DEF CompaniesSteady
<1>6. BillingKept
  BY <1>2, <1>4 DEF BillingKept
<1>7. company' \in [Numbers -> Company \cup {None}]
  BY <1>2, <1>3 DEF TenancyInv, TenancyTabled
<1> QED BY <1>1, <1>5, <1>6, <1>7, RowsKeepInv

LEMMA RemoveCompanyKeeps == ASSUME TenancyInv, NEW w \in Workers, RemoveCompany(w) PROVE TenancyInv'
<1>1. member' \in [Members -> Member \cup {None}] /\ MembersSteady /\ RolesKept
  BY SetMembersSteady DEF RemoveCompany, Lives
<1> QED BY <1>1, CompanyLifeKeeps DEF RemoveCompany, CompanyOps

LEMMA RestoreCompanyKeeps == ASSUME TenancyInv, NEW w \in Workers, RestoreCompany(w) PROVE TenancyInv'
<1>1. member' \in [Members -> Member \cup {None}] /\ MembersSteady /\ RolesKept
  BY SetMembersSteady DEF RestoreCompany, Lives
<1> QED BY <1>1, CompanyLifeKeeps DEF RestoreCompany, CompanyOps

LEMMA MembersUnchanged ==
  ASSUME TenancyInv, member' = member
  PROVE  member' \in [Members -> Member \cup {None}] /\ MembersSteady
BY DEF TenancyInv, TenancyTabled, MembersSteady

LEMMA RestoreOnlyKeeps == ASSUME TenancyInv, NEW w \in Workers, RestoreOnly(w) PROVE TenancyInv'
<1>1. member' \in [Members -> Member \cup {None}] /\ MembersSteady
  BY MembersUnchanged DEF RestoreOnly
<1>2. RolesKept
  BY LivesKeepRoles DEF RestoreOnly
<1> QED BY <1>1, <1>2, CompanyLifeKeeps DEF RestoreOnly, CompanyOps

\* The tax number changes, and nothing more is said of the customers.
LEMMA UpdateCompanyKeeps == ASSUME TenancyInv, NEW w \in Workers, UpdateCompany(w) PROVE TenancyInv'
<1> DEFINE n == task[w].company
<1>1. HandlersKept /\ n \in Numbers /\ "updateCompany" \in scope.calls
  BY CompanyTask DEF UpdateCompany, CompanyOps
<1>2. PICK g \in Gsts, e \in scope.emails : SetCompany(n, [company[n] EXCEPT !.gst = g, !.email = e])
  BY DEF UpdateCompany
<1> DEFINE row == [company[n] EXCEPT !.gst = g, !.email = e]
<1>3. company[n] # None => row \in Company /\ row.founder = company[n].founder
  <2>1. company[n] # None => company[n] \in Company
    BY <1>1 DEF TenancyInv, TenancyTabled
  <2>2. g \in Gsts \cup {None} /\ e \in Users \cup {None}
    BY ScopeTyped
  <2> QED BY ONLY <2>1, <2>2 DEF Company
<1>4. company' = [company EXCEPT ![n] = IF @ = None THEN None ELSE row]
  BY <1>2 DEF SetCompany
<1> HIDE DEF row
<1>5. ~ Plain
  BY <1>1 DEF Plain
<1>6. CompaniesSteady /\ BillingKept /\ company' \in [Numbers -> Company \cup {None}]
  BY <1>1, <1>3, <1>4, <1>5 DEF CompaniesSteady, BillingKept, TenancyInv, TenancyTabled
<1>7. member' = member /\ user' = user /\ request' = request /\ customer' = customer
  BY DEF UpdateCompany
<1>8. member' \in [Members -> Member \cup {None}] /\ MembersSteady /\ RolesKept
  BY <1>7, MembersUnchanged, LivesKeepRoles
<1> QED BY <1>1, <1>6, <1>7, <1>8, RowsKeepInv

LEMMA PurgeCompanyKeeps == ASSUME TenancyInv, NEW w \in Workers, PurgeCompany(w) PROVE TenancyInv'
<1> DEFINE n == task[w].company
           us == task[w].users
           ms == MembersOf(n) \cup MembershipsOf(us)
<1>1. HandlersKept /\ task[w] \in Task /\ n \in Numbers /\ "purgeCompany" \in scope.calls
  BY CompanyTask DEF PurgeCompany, CompanyOps
<1>2. us \subseteq Users
  BY <1>1 DEF Task
<1>3. ms \subseteq Members /\ MembersOf(n) \subseteq ms /\ MembershipsOf(us) \subseteq ms
  BY DEF MembersOf, MembershipsOf
<1>4. /\ company' = [company EXCEPT ![n] = None] /\ DeleteUsers(us) /\ SetMembers(ms, "gone")
      /\ request' = request /\ customer' = customer
  BY DEF PurgeCompany
<1>5. ~ Plain
  BY <1>1 DEF Plain
<1> HIDE DEF us, ms
<1>6. company' \in [Numbers -> Company \cup {None}]
  BY <1>4 DEF TenancyInv, TenancyTabled
<1>7. \A k \in Numbers : company'[k] = company[k] \/ (company'[k] = None /\ MembersOf(k) \subseteq ms)
  BY <1>3, <1>4 DEF TenancyInv, TenancyTabled
<1>8. Deletes(us, ms)
  BY <1>2, <1>3, <1>4, <1>5, <1>6, <1>7 DEF Deletes
<1> QED BY <1>1, <1>8, DeleteKeepsInv

-----------------------------------------------------------------------------
(* Handlers that look for a customer *)

LEMMA FindCustomerKeeps == ASSUME TenancyInv, NEW w \in Workers, FindCustomer(w) PROVE TenancyInv'
<1>1. task[w] \in Task /\ TenancyRefers("customer", task[w]) /\ Bills("customer", task[w])
  BY TenancyTaskKept DEF FindCustomer, Holds
<1>2. company' = company /\ user' = user /\ member' = member /\ request' = request /\ customer' = customer
  BY DEF FindCustomer, tables
<1>3. ASSUME NEW c \in Customers, Matches(c, task[w]),
             Proceed(w, "saveCustomer", [task[w] EXCEPT !.customer = c])
      PROVE  TenancyInv'
  <2> DEFINE t == [task[w] EXCEPT !.customer = c]
  <2>1. /\ t \in Task /\ t.op = task[w].op /\ t.user = task[w].user /\ t.gst = task[w].gst
        /\ t.company = task[w].company /\ t.customer = c /\ t.request = task[w].request
    BY <1>1 DEF Task
  <2>2. Matches(c, t)
    BY <1>3, <2>1 DEF Matches
  <2>3. TenancyRefers("saveCustomer", t)
    BY <1>1, <2>1 DEF TenancyRefers, CustomerStages, RequestOps, CompanyOps, MemberOps, KernelMemberOps
  <2>4. Bills("saveCustomer", t)
    BY <1>1, <2>1, <2>2 DEF Bills, Found, TenancyRefers, CustomerStages
  <2>5. Proceed(w, "saveCustomer", t)
    BY <1>3
  <2>6. t.op # "kernelUpdateMember"
    BY <1>1, <2>1 DEF TenancyRefers, CustomerStages
  <2> HIDE DEF t
  <2>7. stage'[w] = "saveCustomer" /\ task'[w] = t /\ scope' = scope
    BY <2>5, ProceedsTo
  <2>8. Holds(stage[w], task[w])'
    <3>1. TenancyRefers(stage[w], task[w])'
      BY <1>2, <2>3, <2>7 DEF TenancyRefers
    <3>2. Promotes(task[w])'
      BY <2>6, <2>7 DEF Promotes
    <3>3. Bills(stage[w], task[w])'
      BY <1>2, <2>4, <2>7 DEF Bills, Found, Plain, Matches
    <3> QED BY <3>1, <3>2, <3>3 DEF Holds
  <2>9. HandlersKept
    BY <2>1, <2>5, <2>8, ProceedKept DEF Stages
  <2> QED BY <1>2, <2>9, TenancyReadKeepsInv
<1>4. ASSUME Proceed(w, "newCustomer", task[w]) PROVE TenancyInv'
  <2>1. stage'[w] = "newCustomer" /\ task'[w] = task[w] /\ scope' = scope
    BY <1>4, ProceedsTo
  <2>2. Holds(stage[w], task[w])'
    <3>1. TenancyRefers(stage[w], task[w])'
      BY <1>1, <1>2, <2>1 DEF TenancyRefers, CustomerStages
    <3>2. Promotes(task[w])'
      BY <1>1, <2>1 DEF Promotes, TenancyRefers, CustomerStages
    <3>3. Bills(stage[w], task[w])'
      BY <1>1, <1>2, <2>1 DEF Bills, Plain, CustomerStages
    <3> QED BY <3>1, <3>2, <3>3 DEF Holds
  <2>3. HandlersKept
    BY <1>1, <1>4, <2>2, ProceedKept DEF Stages
  <2> QED BY <1>2, <2>3, TenancyReadKeepsInv
<1> QED BY <1>3, <1>4 DEF FindCustomer

\* Razorpay gets a customer; nobody else's changes.
LEMMA CustomerKeepsInv ==
  ASSUME TenancyInv, HandlersKept, company' = company, user' = user, member' = member, request' = request,
         customer' \in [Customers -> Customer \cup {None}],
         \A c \in Customers : customer[c] # None => customer'[c] = customer[c]
  PROVE  TenancyInv'
<1>1. TenancyTabled' /\ Keyed'
  BY DEF TenancyInv, HandlersKept, TenancyTabled, Keyed
<1>2. TenancySteady /\ RolesKept /\ BillingKept
  <2>1. RolesKept
    BY LivesKeepRoles
  <2> QED BY <2>1 DEF TenancySteady, BillingKept
<1> QED BY <1>1, <1>2, StepKeepsInv DEF HandlersKept

LEMMA CreateCustomerKeeps == ASSUME TenancyInv, NEW w \in Workers, CreateCustomer(w) PROVE TenancyInv'
<1>1. task[w] \in Task /\ TenancyRefers("newCustomer", task[w]) /\ Bills("newCustomer", task[w])
  BY TenancyTaskKept DEF CreateCustomer, Holds
<1>2. PICK c \in Customers :
        /\ customer[c] = None
        /\ customer' = [customer EXCEPT ![c] =
             [email |-> task[w].user, gst |-> task[w].gst, madeFor |-> task[w].company]]
        /\ Proceed(w, "saveCustomer", [task[w] EXCEPT !.customer = c])
  BY DEF CreateCustomer, FirstUnused
<1> DEFINE t == [task[w] EXCEPT !.customer = c]
           row == [email |-> task[w].user, gst |-> task[w].gst, madeFor |-> task[w].company]
<1>3. /\ t \in Task /\ t.op = task[w].op /\ t.user = task[w].user /\ t.gst = task[w].gst
      /\ t.company = task[w].company /\ t.customer = c /\ t.request = task[w].request
  BY <1>1 DEF Task
<1>4. task[w].user \in Users /\ task[w].gst \in Gsts \cup {None} /\ task[w].company \in Numbers
  BY <1>1 DEF TenancyRefers, CustomerStages, Task
<1>5. row \in Customer /\ row.madeFor = t.company
  BY <1>3, <1>4 DEF Customer
<1>6. row # None
  BY <1>5, TenancyAssumption
<1>7. Proceed(w, "saveCustomer", t) /\ customer' = [customer EXCEPT ![c] = row]
  BY <1>2
<1>8. TenancyRefers("saveCustomer", t) /\ t.op # "kernelUpdateMember"
  BY <1>1, <1>3 DEF TenancyRefers, CustomerStages, RequestOps, CompanyOps, MemberOps, KernelMemberOps
<1> HIDE DEF t, row
<1>9. customer'[c] = row /\ \A d \in Customers \ {c} : customer'[d] = customer[d]
  BY <1>7 DEF TenancyInv, TenancyTabled
<1>10. stage'[w] = "saveCustomer" /\ task'[w] = t /\ scope' = scope
  BY <1>7, ProceedsTo
<1>11. company' = company /\ user' = user /\ member' = member /\ request' = request
  BY DEF CreateCustomer
<1>12. Holds(stage[w], task[w])'
  <2>1. TenancyRefers(stage[w], task[w])'
    BY <1>8, <1>10, <1>11 DEF TenancyRefers
  <2>2. Promotes(task[w])'
    BY <1>8, <1>10 DEF Promotes
  <2>3. Found(task[w])'
    BY <1>3, <1>5, <1>6, <1>9, <1>10 DEF Found
  <2>4. Bills(stage[w], task[w])'
    BY <1>1, <1>3, <1>10, <1>11, <2>3 DEF Bills, Plain, CustomerStages
  <2> QED BY <2>1, <2>2, <2>4 DEF Holds
<1>13. HandlersKept
  BY <1>3, <1>7, <1>12, ProceedKept DEF Stages
<1>14. /\ customer' \in [Customers -> Customer \cup {None}]
       /\ \A d \in Customers : customer[d] # None => customer'[d] = customer[d]
  BY <1>2, <1>5, <1>7, <1>9 DEF TenancyInv, TenancyTabled
<1> QED BY <1>11, <1>13, <1>14, CustomerKeepsInv

\* A company without a customer: the address becomes its own or the caller's.
LEMMA EnsureCustomerKeeps == ASSUME TenancyInv, NEW w \in Workers, EnsureCustomer(w) PROVE TenancyInv'
<1> DEFINE n == task[w].company
           t == [task[w] EXCEPT !.user = IF company[n].email # None THEN company[n].email ELSE @,
                                !.gst = company[n].gst]
<1>1. task[w] \in Task /\ TenancyRefers("ensure", task[w]) /\ company[n] # None
  BY TenancyTaskKept DEF EnsureCustomer, Holds
<1>2. company' = company /\ user' = user /\ member' = member /\ request' = request /\ customer' = customer
  BY DEF EnsureCustomer, tables
<1>3. CASE stage' = [stage EXCEPT ![w] = "idle"] /\ task' = [task EXCEPT ![w] = None] /\ UNCHANGED scope
  BY <1>2, <1>3, IdleKept, TenancyReadKeepsInv
<1>4. CASE Proceed(w, "newCustomer", t)
  <2>1. n \in Numbers /\ task[w].user \in Users /\ task[w].op = "subscribe" /\ company[n] \in Company
    BY <1>1 DEF TenancyRefers, TenancyInv, TenancyTabled
  <2>2. company[n].email \in Users \cup {None} /\ company[n].gst \in Gsts \cup {None}
    BY <2>1 DEF Company
  <2>3. t \in Task /\ t.op = "subscribe" /\ t.company = n /\ t.user \in Users
    BY <1>1, <2>1, <2>2 DEF Task
  <2> HIDE DEF t
  <2>4. stage'[w] = "newCustomer" /\ task'[w] = t /\ scope' = scope
    BY <1>4, ProceedsTo
  <2>5. TenancyRefers(stage[w], task[w])'
    BY <1>1, <2>1, <2>3, <2>4
       DEF TenancyRefers, RequestOps, CompanyOps, MemberOps, KernelMemberOps, CustomerStages
  <2>6. Promotes(task[w])' /\ Bills(stage[w], task[w])'
    BY <1>1, <1>2, <2>3, <2>4 DEF Promotes, Bills
  <2>7. HandlersKept
    BY <1>4, <2>3, <2>5, <2>6, ProceedKept DEF Holds, Stages
  <2> QED BY <1>2, <2>7, TenancyReadKeepsInv
<1> QED BY <1>3, <1>4 DEF EnsureCustomer

LEMMA SaveCustomerKeeps == ASSUME TenancyInv, NEW w \in Workers, SaveCustomer(w) PROVE TenancyInv'
<1> DEFINE t == task[w]
           n == t.company
           row == [company[n] EXCEPT !.customer = t.customer]
<1>1. t \in Task /\ TenancyRefers("saveCustomer", t) /\ Bills("saveCustomer", t)
  BY TenancyTaskKept DEF SaveCustomer, Holds
<1>2. n \in Numbers
  BY <1>1 DEF TenancyRefers, CustomerStages
<1>3. t.customer \in Customers /\ Found(t)
  BY <1>1 DEF Bills
<1>4. company' = [company EXCEPT ![n] = IF @ = None THEN None ELSE row]
  BY DEF SaveCustomer
<1>5. company[n] # None =>
        /\ row \in Company /\ row.founder = company[n].founder /\ row.gst = company[n].gst
        /\ row.customer = t.customer
  BY <1>2, <1>3 DEF TenancyInv, TenancyTabled, Company
<1>6. user' = user /\ member' = member /\ request' = request /\ customer' = customer
  BY DEF SaveCustomer
<1>7. HandlersKept
  BY IdleKept DEF SaveCustomer
<1>8. Plain /\ t.op # "subscribe" => company[n].founder = t.user /\ company[n].gst = t.gst
  BY <1>1 DEF Bills, CustomerStages
<1> HIDE DEF row
<1>9. /\ company'[n] = (IF company[n] = None THEN None ELSE row)
      /\ \A k \in Numbers \ {n} : company'[k] = company[k]
  BY <1>2, <1>4 DEF TenancyInv, TenancyTabled
<1>10. CompaniesSteady /\ company' \in [Numbers -> Company \cup {None}]
  BY <1>4, <1>5, <1>9 DEF CompaniesSteady, TenancyInv, TenancyTabled
<1>11. BillingKept
  BY <1>3, <1>5, <1>6, <1>8, <1>9 DEF BillingKept, Found, Matches
<1>12. member' \in [Members -> Member \cup {None}] /\ MembersSteady /\ RolesKept
  BY <1>6, MembersUnchanged, LivesKeepRoles
<1> QED BY <1>6, <1>7, <1>10, <1>11, <1>12, RowsKeepInv

-----------------------------------------------------------------------------
(* Every step keeps the invariant *)

LEMMA FailKeeps == ASSUME TenancyInv, NEW w \in Workers, Fail(w) PROVE TenancyInv'
<1>1. HandlersKept
  BY IdleKept DEF Fail
<1> QED BY <1>1, TenancyReadKeepsInv DEF Fail, tables

LEMMA RequestStepKeeps == ASSUME TenancyInv, NEW w \in Workers, RequestStep(w) PROVE TenancyInv'
<1>1. CASE RemoveRequest(w) \/ RestoreRequest(w) \/ PurgeRequest(w)
  BY <1>1, SetRequestKeeps DEF RemoveRequest, RestoreRequest, PurgeRequest, RequestOps, Lives
<1> QED BY <1>1, CreateRequestBeginKeeps, CreateRequestKeeps, RequestBeginKeeps DEF RequestStep

LEMMA CompanyStepKeeps == ASSUME TenancyInv, NEW w \in Workers, CompanyStep(w) PROVE TenancyInv'
<1>1. CASE \/ \E u \in scope.users, g \in Gsts \cup {None} : CreateCompanyBegin(w, u, g)
           \/ \E r \in Requests : AddNewBegin(w, r)
           \/ \E n \in scope.numbers, op \in CompanyOps \cap scope.calls : CompanyBegin(w, op, n)
           \/ \E n \in scope.numbers : PurgeBegin(w, n)
           \/ \E n \in scope.numbers, m \in Members : ResendToOwnerBegin(w, n, m)
           \/ \E n \in scope.numbers, u \in scope.users \cup Staffers : SubscribeBegin(w, n, u)
  BY <1>1, CreateCompanyBeginKeeps, AddNewBeginKeeps, CompanyBeginKeeps, PurgeBeginKeeps, ResendToOwnerBeginKeeps,
     SubscribeBeginKeeps
<1>2. CASE CreateCompanyRead(w) \/ CreateCompany(w) \/ AddNewRead(w) \/ AddNew(w)
  BY <1>2, CreateCompanyReadKeeps, CreateCompanyKeeps, AddNewReadKeeps, AddNewKeeps
<1>3. CASE FindCustomer(w) \/ CreateCustomer(w) \/ SaveCustomer(w) \/ EnsureCustomer(w)
  BY <1>3, FindCustomerKeeps, CreateCustomerKeeps, SaveCustomerKeeps, EnsureCustomerKeeps
<1>4. CASE UpdateCompany(w) \/ RemoveCompany(w) \/ RestoreCompany(w) \/ RestoreOnly(w) \/ PurgeCompany(w)
  BY <1>4, UpdateCompanyKeeps, RemoveCompanyKeeps, RestoreCompanyKeeps, RestoreOnlyKeeps, PurgeCompanyKeeps
<1>5. CASE ResendToOwner(w)
  BY <1>5, TenancyResendKeeps DEF ResendToOwner
<1> QED BY <1>1, <1>2, <1>3, <1>4, <1>5 DEF CompanyStep

LEMMA MemberStepKeeps == ASSUME TenancyInv, NEW w \in Workers, MemberStep(w) PROVE TenancyInv'
<1>1. CASE \E n \in scope.numbers, u \in scope.users, role \in Roles : CreateMemberBegin(w, n, u, role)
  BY <1>1, NewMemberStarts DEF CreateMemberBegin
<1>2. CASE \E m \in Members, op \in MemberOps \cap scope.calls, caller \in scope.users :
             MemberBegin(w, op, m, caller)
  BY <1>2, MemberBeginKeeps
<1>3. CASE CreateMember(w)
  BY <1>3, InsertMemberKeeps DEF CreateMember
<1>4. CASE UpdateMember(w)
  BY <1>4, SetRoleKeeps, TenancyAssumption DEF UpdateMember, MemberOps, Roles
<1>5. CASE RemoveMember(w) \/ SoftDeleteMember(w) \/ RestoreMember(w)
  BY <1>5, SetMemberKeeps DEF RemoveMember, SoftDeleteMember, RestoreMember, MemberOps, Lives
<1>6. CASE RemoveWithUser(w)
  BY <1>6, RemoveWithUserKeeps DEF RemoveWithUser, MemberOps
<1>7. CASE BanMember(w)
  BY <1>7, SetBannedKeeps DEF BanMember, MemberOps
<1>8. CASE ResendToMember(w)
  BY <1>8, TenancyResendKeeps DEF ResendToMember
<1>9. CASE RevokeSession(w) \/ RevokeAllSessions(w)
  BY <1>9, DeleteSessionsKeeps DEF RevokeSession, RevokeAllSessions, MemberOps
<1> QED BY <1>1, <1>2, <1>3, <1>4, <1>5, <1>6, <1>7, <1>8, <1>9 DEF MemberStep

LEMMA KernelMemberStepKeeps == ASSUME TenancyInv, NEW w \in Workers, KernelMemberStep(w) PROVE TenancyInv'
<1>1. CASE \E n \in scope.numbers, u \in scope.users, role \in Roles : KernelCreateMemberBegin(w, n, u, role)
  BY <1>1, NewMemberStarts DEF KernelCreateMemberBegin
<1>2. CASE \E m \in Members, op \in KernelMemberOps \cap scope.calls, role \in Roles \cup {None} :
             KernelMemberBegin(w, op, m, role)
  BY <1>2, KernelMemberBeginKeeps
<1>3. CASE KernelCreateMember(w)
  BY <1>3, InsertMemberKeeps DEF KernelCreateMember
<1>4. CASE KernelUpdateMember(w)
  <2>1. task[w] \in Task
    BY <1>4, FinishKept DEF KernelUpdateMember
  <2>2. task[w].role \in Roles \cup {None}
    BY <2>1 DEF Task
  <2> QED BY <1>4, <2>2, SetRoleKeeps DEF KernelUpdateMember, KernelMemberOps
<1>5. CASE KernelRemoveMember(w) \/ KernelSoftDeleteMember(w)
  BY <1>5, SetMemberKeeps DEF KernelRemoveMember, KernelSoftDeleteMember, KernelMemberOps, Lives
<1>6. CASE KernelRemoveWithUser(w)
  BY <1>6, RemoveWithUserKeeps DEF KernelRemoveWithUser, KernelMemberOps
<1>7. CASE KernelBanMember(w)
  BY <1>7, SetBannedKeeps DEF KernelBanMember, KernelMemberOps
<1>8. CASE KernelResendToMember(w)
  BY <1>8, TenancyResendKeeps DEF KernelResendToMember
<1>9. CASE KernelRevokeSession(w) \/ KernelRevokeAllSessions(w)
  BY <1>9, DeleteSessionsKeeps DEF KernelRevokeSession, KernelRevokeAllSessions, KernelMemberOps
<1> QED BY <1>1, <1>2, <1>3, <1>4, <1>5, <1>6, <1>7, <1>8, <1>9 DEF KernelMemberStep

LEMMA NextKeepsInv == TenancyInv /\ [TenancyNext]_tenancyVars => TenancyInv'
<1> SUFFICES ASSUME TenancyInv, [TenancyNext]_tenancyVars PROVE TenancyInv'
  OBVIOUS
<1>1. CASE \E w \in Workers : RequestStep(w) \/ CompanyStep(w) \/ MemberStep(w) \/ KernelMemberStep(w) \/ Fail(w)
  BY <1>1, RequestStepKeeps, CompanyStepKeeps, MemberStepKeeps, KernelMemberStepKeeps, FailKeeps
<1>2. CASE \E u \in scope.users : ChoosePassword(u) \/ \E token \in Tokens : SignIn(u, token)
  BY <1>2, ChoosePasswordKeeps, SignInKeeps
<1>3. CASE UNCHANGED tenancyVars
  <2>1. HandlersKept
    BY <1>3 DEF tenancyVars, HandlersKept, TenancyInv, TenancyTabled
  <2> QED BY <1>3, <2>1, TenancyReadKeepsInv DEF tenancyVars
<1> QED BY <1>1, <1>2, <1>3 DEF TenancyNext

LEMMA InitHoldsInv == TenancyInit => TenancyInv
<1> SUFFICES ASSUME TenancyInit PROVE TenancyInv
  OBVIOUS
<1>1. TenancyTabled
  BY DEF TenancyInit, TenancyTabled, Stages
<1>2. Keyed /\ OwnerIsFounder /\ CustomerIsOwn
  BY DEF TenancyInit, Keyed, OwnerIsFounder, CustomerIsOwn, Exists, IsLive, IsDeleted
<1>3. Handlers
  BY DEF TenancyInit, Handlers
<1> QED BY <1>1, <1>2, <1>3 DEF TenancyInv

-----------------------------------------------------------------------------

\* Every handler, in every order, keeps what the handlers rely on: the foreign keys,
\* and what each of them has read of the rows it is to write.
THEOREM TenancyInvariant == TenancySpec => []TenancyInv
BY InitHoldsInv, NextKeepsInv, PTL DEF TenancySpec

\* isProtectedMember and the refused role "owner" hold together: whoever is an owner
\* founded the company, for any number of handlers that overlap.
THEOREM OwnersAreFounders == TenancySpec => []OwnerIsFounder
BY TenancyInvariant, PTL DEF TenancyInv

\* Whether the kernel's syncCompanyRazorpayCustomer, which no reply waits for, or the
\* auth service's ensureOrganizationWithCustomer saves the customer of a company last,
\* and however many of them overlap: it was made for the company, or the founder's
\* address or the tax number found it.
THEOREM CustomersAreOwn == TenancySpec => []CustomerIsOwn
BY TenancyInvariant, PTL DEF TenancyInv

\* The tables and the handlers have their types, and no member is left without its
\* company or its user.
THEOREM TenancyTypes == TenancySpec => []TenancyTypeOK
<1>1. TenancyInv => TenancyTypeOK
  BY DEF TenancyInv, TenancyTabled, Keyed, Stages, TenancyTypeOK
<1> QED BY <1>1, TenancyInvariant, PTL

-----------------------------------------------------------------------------
(* The limit on members *)

\* A handler that will write the life of a deleted member to "live", and one that
\* will insert a member.
Restores(w, m) == stage[w] # "idle" /\ task[w].op = "restoreMember" /\ task[w].member = m

Creates(w, n) ==
  stage[w] # "idle" /\ task[w].op \in {"createMember", "kernelCreateMember"} /\ task[w].company = n

\* The seats that are taken, by who is there or is about to be restored,
Held(n) ==
  {m \in Members : /\ Exists(member[m]) /\ member[m].company = n
                   /\ IsLive(member[m]) \/ \E w \in Workers : Restores(w, m)}

\* and those that a handler has still to fill.
Creating(n) == {w \in Workers : Creates(w, n)}

MembersLimited(n) == "restoreCompany" \notin scope.calls /\ Plan[n].configured /\ Plan[n].maxUsers \in Nat

\* The seats that are taken or about to be are fewer than the plan's and one for each handler.
MembersCounted ==
  \A n \in Numbers : MembersLimited(n) =>
    Cardinality(Held(n)) + Cardinality(Creating(n)) < Seats(n) + Cardinality(Workers)

\* Members and handlers are finitely many.
LEMMA MembersFinite ==
  /\ IsFiniteSet(Workers) /\ Cardinality(Workers) \in Nat \ {0}
  /\ \A S \in SUBSET Workers : IsFiniteSet(S) /\ Cardinality(S) \in Nat /\ Cardinality(S) <= Cardinality(Workers)
  /\ \A S \in SUBSET Members : IsFiniteSet(S) /\ Cardinality(S) \in Nat
<1>1. IsFiniteSet(Workers) /\ Workers # {}
  BY WorkersAssumption
<1>2. Cardinality(Workers) \in Nat /\ Cardinality(Workers) # 0
  BY <1>1, FS_CardinalityType, FS_EmptySet
<1>3. ASSUME NEW S \in SUBSET Workers
      PROVE  IsFiniteSet(S) /\ Cardinality(S) \in Nat /\ Cardinality(S) <= Cardinality(Workers)
  BY <1>1, FS_Subset, FS_CardinalityType
<1>4. ASSUME NEW S \in SUBSET Members
      PROVE  IsFiniteSet(S) /\ Cardinality(S) \in Nat
  BY TenancyAssumption, FS_Subset, FS_CardinalityType
<1> QED BY <1>1, <1>2, <1>3, <1>4

\* A restored member has a handler of its own that restores it.
LEMMA HeldBound ==
  ASSUME NEW live \in SUBSET Members, NEW held \in SUBSET Members,
         NEW restoring \in SUBSET Workers, NEW creating \in SUBSET Workers, NEW f,
         f = [w \in restoring |-> f[w]], restoring \cap creating = {},
         \A m \in held : m \in live \/ \E w \in restoring : f[w] = m
  PROVE  Cardinality(held) + Cardinality(creating) <= Cardinality(live) + Cardinality(Workers)
<1> DEFINE T == {f[w] : w \in restoring}
<1>1. /\ IsFiniteSet(restoring) /\ IsFiniteSet(creating) /\ IsFiniteSet(live)
      /\ Cardinality(restoring) \in Nat /\ Cardinality(creating) \in Nat
      /\ Cardinality(live) \in Nat /\ Cardinality(held) \in Nat /\ Cardinality(Workers) \in Nat
  BY MembersFinite
<1>2. f \in Surjection(restoring, T)
  BY DEF Surjection
<1>3. IsFiniteSet(T) /\ Cardinality(T) <= Cardinality(restoring)
  BY <1>1, <1>2, FS_Surjection
<1>4. held \subseteq live \cup T
  OBVIOUS
<1> HIDE DEF T
<1>5. Cardinality(T) \in Nat /\ IsFiniteSet(live \cap T)
  BY <1>1, <1>3, FS_CardinalityType, FS_Subset
<1>6. Cardinality(live \cap T) \in Nat
  BY <1>5, FS_CardinalityType
<1>7. /\ IsFiniteSet(live \cup T)
      /\ Cardinality(live \cup T) = Cardinality(live) + Cardinality(T) - Cardinality(live \cap T)
  BY <1>1, <1>3, FS_Union
<1>8. Cardinality(held) <= Cardinality(live \cup T)
  BY <1>4, <1>7, FS_Subset
<1>9. Cardinality(restoring \cup creating) = Cardinality(restoring) + Cardinality(creating)
  <2>1. Cardinality(restoring \cap creating) = 0
    BY FS_EmptySet
  <2>2. Cardinality(restoring \cup creating) =
          Cardinality(restoring) + Cardinality(creating) - Cardinality(restoring \cap creating)
    BY <1>1, FS_Union
  <2> QED BY <1>1, <2>1, <2>2
<1>10. Cardinality(restoring \cup creating) <= Cardinality(Workers)
  BY MembersFinite
<1> QED BY <1>1, <1>3, <1>5, <1>6, <1>7, <1>8, <1>9, <1>10

\* Seats and handlers that only leave, one that takes the seat it was to fill, and the
\* first seat of all.
LEMMA HeldKept ==
  ASSUME NEW held \in SUBSET Members, NEW held2 \in SUBSET Members,
         NEW creating \in SUBSET Workers, NEW creating2 \in SUBSET Workers, NEW seats \in Nat \ {0},
         Cardinality(held) + Cardinality(creating) < seats + Cardinality(Workers),
         \/ held2 \subseteq held /\ creating2 \subseteq creating
         \/ \E m \in Members, w \in creating : held2 \subseteq held \cup {m} /\ creating2 \subseteq creating \ {w}
         \/ \E m \in Members, w \in Workers : held2 \subseteq {m} /\ creating2 \subseteq Workers \ {w}
  PROVE  Cardinality(held2) + Cardinality(creating2) < seats + Cardinality(Workers)
<1>1. /\ IsFiniteSet(held) /\ Cardinality(held) \in Nat /\ Cardinality(held2) \in Nat
      /\ IsFiniteSet(creating) /\ Cardinality(creating) \in Nat /\ Cardinality(creating2) \in Nat
      /\ IsFiniteSet(Workers) /\ Cardinality(Workers) \in Nat
  BY MembersFinite
<1>2. CASE held2 \subseteq held /\ creating2 \subseteq creating
  <2>1. Cardinality(held2) <= Cardinality(held) /\ Cardinality(creating2) <= Cardinality(creating)
    BY <1>1, <1>2, FS_Subset
  <2> QED BY <1>1, <2>1
<1>3. ASSUME NEW m \in Members, NEW w \in creating,
             held2 \subseteq held \cup {m}, creating2 \subseteq creating \ {w}
      PROVE  Cardinality(held2) + Cardinality(creating2) < seats + Cardinality(Workers)
  <2>1. /\ IsFiniteSet(held \cup {m})
        /\ Cardinality(held \cup {m}) = IF m \in held THEN Cardinality(held) ELSE Cardinality(held) + 1
    BY <1>1, FS_AddElement
  <2>2. Cardinality(held \cup {m}) \in Nat /\ Cardinality(held \cup {m}) <= Cardinality(held) + 1
    BY <1>1, <2>1
  <2>3. IsFiniteSet(creating \ {w}) /\ Cardinality(creating \ {w}) = Cardinality(creating) - 1
    BY <1>1, FS_RemoveElement
  <2>4. Cardinality(held2) <= Cardinality(held \cup {m})
    BY <1>3, <2>1, FS_Subset
  <2>5. Cardinality(creating2) <= Cardinality(creating \ {w})
    BY <1>3, <2>3, FS_Subset
  <2> QED BY <1>1, <2>2, <2>3, <2>4, <2>5
<1>4. ASSUME NEW m \in Members, NEW w \in Workers, held2 \subseteq {m}, creating2 \subseteq Workers \ {w}
      PROVE  Cardinality(held2) + Cardinality(creating2) < seats + Cardinality(Workers)
  <2>1. IsFiniteSet({m}) /\ Cardinality({m}) = 1
    BY FS_Singleton
  <2>2. IsFiniteSet(Workers \ {w}) /\ Cardinality(Workers \ {w}) = Cardinality(Workers) - 1
    BY <1>1, FS_RemoveElement
  <2>3. Cardinality(held2) <= 1
    BY <1>4, <2>1, FS_Subset
  <2>4. Cardinality(creating2) <= Cardinality(Workers) - 1
    BY <1>4, <2>2, FS_Subset
  <2> QED BY <1>1, <2>3, <2>4
<1> QED BY <1>2, <1>3, <1>4

\* A plan that allows another member has a seat left.
LEMMA Allowed ==
  ASSUME NEW n \in Numbers, MembersLimited(n), MemberAllowed(n)
  PROVE  Cardinality(LiveMembers(n)) < Plan[n].maxUsers
<1> DEFINE k == Cardinality(LiveMembers(n))
           max == Plan[n].maxUsers
           entry == ResolveEntry(Plan[n], "maxUsers", k)
<1>1. k \in Nat
  BY MembersFinite DEF LiveMembers
<1>2. Plan[n].configured /\ max \in Nat
  BY DEF MembersLimited
<1>3. max \notin {-1, Missing}
  BY <1>2, MissingAssumption
<1> HIDE DEF k, max
<1>4. entry = LimitEntry(max, k)
  BY <1>2 DEF ResolveEntry, FeatureTotal, max
<1>5. /\ entry.unlimited = FALSE /\ entry.total = max
      /\ entry.left = IF max > k THEN max - k ELSE 0
  BY <1>3, <1>4 DEF LimitEntry
<1>6. HasCapacity(entry, 1)
  BY DEF MemberAllowed, LimitAllows, k
<1>7. entry.left >= 1
  BY <1>3, <1>5, <1>6 DEF HasCapacity
<1> HIDE DEF entry
<1>8. max > k
  BY <1>1, <1>2, <1>5, <1>7
<1> QED BY <1>1, <1>2, <1>8 DEF k, max

LEMMA SeatsTyped ==
  ASSUME NEW n \in Numbers, MembersLimited(n)
  PROVE  Seats(n) \in Nat \ {0} /\ Plan[n].maxUsers \in Nat /\ Plan[n].maxUsers <= Seats(n)
BY DEF MembersLimited, Seats

Adding == {"createMember", "kernelCreateMember", "restoreMember"}

\* A handler that neither fills a seat nor is about to: who is there was there, or
\* was about to be restored by it.
LEMMA OthersCounted ==
  ASSUME TenancyInv, MembersCounted, NEW w \in Workers, NEW s, NEW t, s = "idle" \/ t.op \notin Adding,
         stage' = [stage EXCEPT ![w] = s], task' = [task EXCEPT ![w] = t], scope' = scope,
         \A m \in Members : Exists(member'[m]) =>
           /\ Exists(member[m]) /\ member'[m].company = member[m].company
           /\ IsLive(member'[m]) => IsLive(member[m]) \/ Restores(w, m)
  PROVE  MembersCounted'
<1> SUFFICES ASSUME NEW n \in Numbers, MembersLimited(n)
             PROVE  Cardinality(Held(n)') + Cardinality(Creating(n)') < Seats(n) + Cardinality(Workers)
  BY DEF MembersCounted, MembersLimited, Seats
<1>1. /\ stage'[w] = s /\ task'[w] = t
      /\ \A v \in Workers \ {w} : stage'[v] = stage[v] /\ task'[v] = task[v]
  BY DEF TenancyInv, TenancyTabled
<1>2. \A v \in Workers : Creates(v, n)' => Creates(v, n)
  BY <1>1 DEF Creates, Adding
<1>3. \A v \in Workers, m \in Members : Restores(v, m)' => Restores(v, m)
  BY <1>1 DEF Restores, Adding
<1>4. Held(n)' \subseteq Held(n) /\ Creating(n)' \subseteq Creating(n)
  BY <1>2, <1>3 DEF Held, Creating
<1>5. /\ Held(n) \in SUBSET Members /\ Held(n)' \in SUBSET Members
      /\ Creating(n) \in SUBSET Workers /\ Creating(n)' \in SUBSET Workers
  BY DEF Held, Creating
<1>6. Cardinality(Held(n)) + Cardinality(Creating(n)) < Seats(n) + Cardinality(Workers)
  BY DEF MembersCounted
<1>7. Seats(n) \in Nat \ {0}
  BY SeatsTyped
<1> QED BY <1>4, <1>5, <1>6, <1>7, HeldKept

\* While the plan has room, every handler may be about to fill a seat.
LEMMA RoomForAll ==
  ASSUME NEW n \in Numbers, MembersLimited(n), MemberAllowed(n), member' = member
  PROVE  Cardinality(Held(n)') + Cardinality(Creating(n)') < Seats(n) + Cardinality(Workers)
<1> DEFINE restoring == {v \in Workers : stage'[v] # "idle" /\ task'[v].op = "restoreMember"}
           f == [v \in restoring |-> task'[v].member]
<1>1. /\ LiveMembers(n) \in SUBSET Members /\ Held(n)' \in SUBSET Members
      /\ restoring \in SUBSET Workers /\ Creating(n)' \in SUBSET Workers
  BY DEF LiveMembers, Held, Creating
<1>2. restoring \cap Creating(n)' = {}
  BY DEF Creating, Creates
<1>3. \A m \in Held(n)' : m \in LiveMembers(n) \/ \E v \in restoring : f[v] = m
  BY DEF Held, LiveMembers, Restores
<1>4. f = [v \in restoring |-> f[v]]
  OBVIOUS
<1> HIDE DEF restoring, f
<1>5. Cardinality(Held(n)') + Cardinality(Creating(n)') <= Cardinality(LiveMembers(n)) + Cardinality(Workers)
  BY <1>1, <1>2, <1>3, <1>4, HeldBound
<1>6. /\ Cardinality(Held(n)') \in Nat /\ Cardinality(Creating(n)') \in Nat
      /\ Cardinality(LiveMembers(n)) \in Nat /\ Cardinality(Workers) \in Nat
  BY <1>1, MembersFinite
<1>7. Cardinality(LiveMembers(n)) < Plan[n].maxUsers
  BY Allowed
<1> QED BY <1>5, <1>6, <1>7, SeatsTyped

\* A handler starts to fill a seat of a company that has room, or to restore a member
\* who is there: then it takes up none.
LEMMA StartCounted ==
  ASSUME TenancyInv, MembersCounted, NEW w \in Workers, NEW s, NEW t, Start(w, s, t),
         t.op \in {"createMember", "kernelCreateMember"} => MemberAllowed(t.company),
         t.op = "restoreMember" =>
           t.member \in Members /\ (IsDeleted(member[t.member]) => MemberAllowed(member[t.member].company))
  PROVE  MembersCounted'
<1>1. /\ stage[w] = "idle" /\ stage' = [stage EXCEPT ![w] = s] /\ task' = [task EXCEPT ![w] = t]
      /\ scope' = scope /\ member' = member
  BY DEF Start, tables
<1> SUFFICES ASSUME NEW n \in Numbers, MembersLimited(n)
             PROVE  Cardinality(Held(n)') + Cardinality(Creating(n)') < Seats(n) + Cardinality(Workers)
  BY <1>1 DEF MembersCounted, MembersLimited, Seats
<1>2. /\ stage'[w] = s /\ task'[w] = t
      /\ \A v \in Workers \ {w} : stage'[v] = stage[v] /\ task'[v] = task[v]
  BY <1>1 DEF TenancyInv, TenancyTabled
<1>3. CASE MemberAllowed(n)
  BY <1>1, <1>3, RoomForAll
<1>4. CASE ~ MemberAllowed(n)
  <2>1. \A v \in Workers : Creates(v, n)' => Creates(v, n)
    BY <1>2, <1>4 DEF Creates
  <2>2. \A v \in Workers, m \in Members :
          Restores(v, m)' /\ IsDeleted(member[m]) /\ member[m].company = n => Restores(v, m)
    BY <1>2, <1>4 DEF Restores
  <2>3. Held(n)' \subseteq Held(n) /\ Creating(n)' \subseteq Creating(n)
    BY <1>1, <2>1, <2>2 DEF Held, Creating, Exists
  <2>4. /\ Held(n) \in SUBSET Members /\ Held(n)' \in SUBSET Members
        /\ Creating(n) \in SUBSET Workers /\ Creating(n)' \in SUBSET Workers
    BY DEF Held, Creating
  <2>5. Cardinality(Held(n)) + Cardinality(Creating(n)) < Seats(n) + Cardinality(Workers)
    BY DEF MembersCounted
  <2>6. Seats(n) \in Nat \ {0}
    BY SeatsTyped
  <2> QED BY <2>3, <2>4, <2>5, <2>6, HeldKept
<1> QED BY <1>3, <1>4

\* A handler takes the seat it was to fill.
LEMMA InsertMemberCounted ==
  ASSUME TenancyInv, MembersCounted, NEW w \in Workers, NEW op \in {"createMember", "kernelCreateMember"}, Finish(w, op),
         InsertMember(task[w])
  PROVE  MembersCounted'
<1> DEFINE c == task[w].company
<1>1. PICK m \in Members :
        member' = [member EXCEPT ![m] = [company |-> c, user |-> task[w].user, role |-> task[w].role, life |-> "live"]]
  BY DEF InsertMember
<1>2. /\ stage[w] = "write" /\ task[w].op = op /\ stage' = [stage EXCEPT ![w] = "idle"]
      /\ task' = [task EXCEPT ![w] = None] /\ scope' = scope
  BY DEF Finish
<1>3. /\ stage'[w] = "idle" /\ \A v \in Workers \ {w} : stage'[v] = stage[v] /\ task'[v] = task[v]
  BY <1>2 DEF TenancyInv, TenancyTabled
<1>4. /\ member'[m].company = c /\ \A k \in Members \ {m} : member'[k] = member[k]
  BY <1>1 DEF TenancyInv, TenancyTabled
<1> SUFFICES ASSUME NEW n \in Numbers, MembersLimited(n)
             PROVE  Cardinality(Held(n)') + Cardinality(Creating(n)') < Seats(n) + Cardinality(Workers)
  BY <1>2 DEF MembersCounted, MembersLimited, Seats
<1>5. \A v \in Workers : Creates(v, n)' => v # w /\ Creates(v, n)
  BY <1>3 DEF Creates
<1>6. \A v \in Workers, k \in Members : Restores(v, k)' => Restores(v, k)
  BY <1>3 DEF Restores
<1>7. Held(n)' \subseteq Held(n) \cup (IF c = n THEN {m} ELSE {})
  BY <1>4, <1>6 DEF Held, Exists, IsLive, IsDeleted
<1>8. Creating(n)' \subseteq Creating(n) \ {w}
  BY <1>5 DEF Creating
<1>9. c = n => w \in Creating(n)
  BY <1>2 DEF Creating, Creates
<1>10. /\ Held(n) \in SUBSET Members /\ Held(n)' \in SUBSET Members
       /\ Creating(n) \in SUBSET Workers /\ Creating(n)' \in SUBSET Workers
  BY DEF Held, Creating
<1>11. Cardinality(Held(n)) + Cardinality(Creating(n)) < Seats(n) + Cardinality(Workers) /\ Seats(n) \in Nat \ {0}
  BY SeatsTyped DEF MembersCounted
<1>12. \/ Held(n)' \subseteq Held(n) /\ Creating(n)' \subseteq Creating(n)
       \/ \E k \in Members, v \in Creating(n) :
            Held(n)' \subseteq Held(n) \cup {k} /\ Creating(n)' \subseteq Creating(n) \ {v}
  BY <1>7, <1>8, <1>9
<1> QED BY <1>10, <1>11, <1>12, HeldKept

\* The founder takes the first seat: handlers may still be about to fill others, of a
\* company that had the number before and was purged.
LEMMA InsertCompanyCounted ==
  ASSUME TenancyInv, MembersCounted, NEW w \in Workers, stage[w] = "write", task[w].op \in {"createCompany", "addNew"},
         NEW m \in Members, InsertCompany(task[w], m), Proceed(w, "customer", task[w])
  PROVE  MembersCounted'
<1> DEFINE c == task[w].company
<1>1. /\ member' = [member EXCEPT ![m] = [company |-> c, user |-> task[w].user, role |-> "owner", life |-> "live"]]
      /\ company[c] = None
  BY DEF InsertCompany
<1>2. scope' = scope /\ \A v \in Workers : task'[v] = task[v] /\ (v # w => stage'[v] = stage[v])
  BY DEF Proceed, TenancyInv, TenancyTabled
<1>3. /\ member'[m].company = c /\ \A k \in Members \ {m} : member'[k] = member[k]
  BY <1>1 DEF TenancyInv, TenancyTabled
<1> SUFFICES ASSUME NEW n \in Numbers, MembersLimited(n)
             PROVE  Cardinality(Held(n)') + Cardinality(Creating(n)') < Seats(n) + Cardinality(Workers)
  BY <1>2 DEF MembersCounted, MembersLimited, Seats
<1>4. \A v \in Workers : Creates(v, n)' => v # w /\ Creates(v, n)
  BY <1>2 DEF Creates
<1>5. \A v \in Workers, k \in Members : Restores(v, k)' => Restores(v, k)
  BY <1>2 DEF Restores
<1>6. Creating(n)' \subseteq Creating(n) \ {w}
  BY <1>4 DEF Creating
<1>7. n # c => Held(n)' \subseteq Held(n)
  BY <1>3, <1>5 DEF Held
<1>8. n = c => Held(n)' \subseteq {m}
  <2>1. n = c => \A k \in Members : ~ (Exists(member[k]) /\ member[k].company = n)
    BY <1>1 DEF TenancyInv, Keyed
  <2> QED BY <1>3, <2>1 DEF Held, Exists, IsLive, IsDeleted
<1>9. /\ Held(n) \in SUBSET Members /\ Held(n)' \in SUBSET Members
      /\ Creating(n) \in SUBSET Workers /\ Creating(n)' \in SUBSET Workers
  BY DEF Held, Creating
<1>10. Cardinality(Held(n)) + Cardinality(Creating(n)) < Seats(n) + Cardinality(Workers) /\ Seats(n) \in Nat \ {0}
  BY SeatsTyped DEF MembersCounted
<1>11. \/ Held(n)' \subseteq Held(n) /\ Creating(n)' \subseteq Creating(n)
       \/ \E k \in Members, v \in Workers : Held(n)' \subseteq {k} /\ Creating(n)' \subseteq Workers \ {v}
  BY <1>6, <1>7, <1>8, <1>9
<1> QED BY <1>9, <1>10, <1>11, HeldKept

\* Handlers that end, and leave every member with the life it had, or with less.
LEMMA FinishCounted ==
  ASSUME TenancyInv, MembersCounted, NEW w \in Workers, NEW op, Finish(w, op),
         \A m \in Members : Exists(member'[m]) =>
           /\ Exists(member[m]) /\ member'[m].company = member[m].company
           /\ IsLive(member'[m]) => IsLive(member[m]) \/ Restores(w, m)
  PROVE  MembersCounted'
BY OthersCounted DEF Finish

LEMMA UnwrittenCounted ==
  ASSUME TenancyInv, MembersCounted, NEW w \in Workers, NEW op, Finish(w, op), member' = member
  PROVE  MembersCounted'
<1>1. \A m \in Members : Exists(member'[m]) =>
        /\ Exists(member[m]) /\ member'[m].company = member[m].company
        /\ IsLive(member'[m]) => IsLive(member[m])
  BY DEF Exists, IsLive, IsDeleted
<1> QED BY <1>1, FinishCounted

\* What a new life leaves of a member.
LEMMA LifeSet ==
  ASSUME TenancyInv, NEW m \in Members, NEW life \in Lives, Exists(SetLife(member[m], life))
  PROVE  /\ Exists(member[m]) /\ SetLife(member[m], life).company = member[m].company
         /\ life # "live" => ~ IsLive(SetLife(member[m], life))
<1>1. Exists(member[m])
  BY DEF SetLife
<1>2. member[m] \in Member
  BY <1>1 DEF Exists, IsLive, IsDeleted, TenancyInv, TenancyTabled
<1> QED BY <1>1, <1>2 DEF SetLife, Member, IsLive

LEMMA RemovalCounted ==
  ASSUME TenancyInv, MembersCounted, NEW w \in Workers, NEW op, Finish(w, op),
         NEW ms, NEW life \in {"deleted", "gone"}, SetMembers(ms, life)
  PROVE  MembersCounted'
<1>1. \A m \in Members : member'[m] = IF m \in ms THEN SetLife(member[m], life) ELSE member[m]
  BY DEF SetMembers
<1>2. \A m \in Members : Exists(member'[m]) =>
        /\ Exists(member[m]) /\ member'[m].company = member[m].company
        /\ IsLive(member'[m]) => IsLive(member[m])
  BY <1>1, LifeSet DEF Lives, Exists, IsLive, IsDeleted
<1> QED BY <1>2, FinishCounted

LEMMA SetMemberCounted ==
  ASSUME TenancyInv, MembersCounted, NEW w \in Workers, NEW op \in MemberOps \cup KernelMemberOps, Finish(w, op),
         NEW life \in Lives, SetMember(task[w].member, life), life = "live" => op = "restoreMember"
  PROVE  MembersCounted'
<1> DEFINE k == task[w].member
<1>1. \A m \in Members : member'[m] = IF m = k THEN SetLife(member[m], life) ELSE member[m]
  BY DEF SetMember, TenancyInv, TenancyTabled
<1>2. life = "live" => Restores(w, k)
  BY DEF Restores, Finish
<1>3. \A m \in Members : Exists(member'[m]) =>
        /\ Exists(member[m]) /\ member'[m].company = member[m].company
        /\ IsLive(member'[m]) => IsLive(member[m]) \/ Restores(w, m)
  BY <1>1, <1>2, LifeSet DEF Exists, IsLive, IsDeleted
<1> QED BY <1>3, FinishCounted

LEMMA SetRoleCounted ==
  ASSUME TenancyInv, MembersCounted, NEW w \in Workers, NEW op, Finish(w, op), NEW k, NEW role, SetRole(k, role)
  PROVE  MembersCounted'
<1>1. \A m \in Members :
        \/ member'[m] = member[m]
        \/ Exists(member[m]) /\ member'[m] = [member[m] EXCEPT !.role = role]
  BY DEF SetRole, TenancyInv, TenancyTabled
<1>2. \A m \in Members : Exists(member[m]) => member[m] \in Member
  BY DEF Exists, IsLive, IsDeleted, TenancyInv, TenancyTabled
<1>3. \A m \in Members : Exists(member[m]) =>
        LET row == [member[m] EXCEPT !.role = role]
        IN  row.company = member[m].company /\ row.life = member[m].life
  BY <1>2 DEF Member
<1>4. \A m \in Members : Exists(member'[m]) =>
        /\ Exists(member[m]) /\ member'[m].company = member[m].company
        /\ IsLive(member'[m]) => IsLive(member[m])
  BY <1>1, <1>3 DEF Exists, IsLive, IsDeleted
<1> QED BY <1>4, FinishCounted

\* A handler that goes on creating a company.
LEMMA ProceedCounted ==
  ASSUME TenancyInv, MembersCounted, NEW w \in Workers, NEW s, NEW t, Proceed(w, s, t), t.op \notin Adding, member' = member
  PROVE  MembersCounted'
<1>1. \A m \in Members : Exists(member'[m]) =>
        /\ Exists(member[m]) /\ member'[m].company = member[m].company
        /\ IsLive(member'[m]) => IsLive(member[m]) \/ Restores(w, m)
  BY DEF Exists, IsLive, IsDeleted
<1> QED BY <1>1, OthersCounted DEF Proceed

\* No handler starts, and none ends.
LEMMA QuietCounted ==
  ASSUME MembersCounted, UNCHANGED <<member, stage, task, scope>>
  PROVE  MembersCounted'
BY DEF MembersCounted, MembersLimited, Seats, Held, Creating, Creates, Restores, Exists, IsLive, IsDeleted

LEMMA RequestStepCounted ==
  ASSUME TenancyInv, MembersCounted, NEW w \in Workers, RequestStep(w)
  PROVE  MembersCounted'
<1>1. CASE \E r \in Requests, u \in scope.users, g \in Gsts : CreateRequestBegin(w, r, u, g)
  BY <1>1, StartCounted DEF CreateRequestBegin, NewTask
<1>2. CASE \E r \in Requests, op \in RequestOps \cap scope.calls : RequestBegin(w, op, r)
  BY <1>2, StartCounted DEF RequestBegin, NewTask, RequestOps
<1>3. CASE CreateRequest(w) \/ RemoveRequest(w) \/ RestoreRequest(w) \/ PurgeRequest(w)
  BY <1>3, UnwrittenCounted DEF CreateRequest, RemoveRequest, RestoreRequest, PurgeRequest, SetRequest
<1> QED BY <1>1, <1>2, <1>3 DEF RequestStep

LEMMA CompanyStepCounted ==
  ASSUME TenancyInv, MembersCounted, NEW w \in Workers, CompanyStep(w)
  PROVE  MembersCounted'
<1>1. CASE \/ \E u \in scope.users, g \in Gsts \cup {None} : CreateCompanyBegin(w, u, g)
           \/ \E r \in Requests : AddNewBegin(w, r)
  BY <1>1, StartCounted DEF CreateCompanyBegin, AddNewBegin, NewTask
<1>2. CASE \E n \in scope.numbers, op \in CompanyOps \cap scope.calls : CompanyBegin(w, op, n)
  BY <1>2, StartCounted DEF CompanyBegin, NewTask, CompanyOps
<1>3. CASE \/ \E n \in scope.numbers : PurgeBegin(w, n)
           \/ \E n \in scope.numbers, m \in Members : ResendToOwnerBegin(w, n, m)
           \/ \E n \in scope.numbers, u \in scope.users \cup Staffers : SubscribeBegin(w, n, u)
  BY <1>3, StartCounted DEF PurgeBegin, ResendToOwnerBegin, SubscribeBegin, NewTask
<1>4. CASE CreateCompanyRead(w) \/ AddNewRead(w)
  <2>1. PICK n : Proceed(w, "write", [task[w] EXCEPT !.company = n])
    BY <1>4 DEF CreateCompanyRead, AddNewRead
  <2>2. task[w] \in Task /\ task[w].op \in {"createCompany", "addNew"} /\ member' = member
    BY <1>4, TenancyTaskKept DEF CreateCompanyRead, AddNewRead, tables
  <2>3. [task[w] EXCEPT !.company = n].op \notin Adding
    BY <2>2 DEF Task, Adding
  <2> QED BY <2>1, <2>2, <2>3, ProceedCounted
<1>5. CASE CreateCompany(w) \/ AddNew(w)
  BY <1>5, InsertCompanyCounted DEF CreateCompany, AddNew
<1>6. CASE FindCustomer(w) \/ CreateCustomer(w)
  <2>1. task[w] \in Task /\ TenancyRefers(stage[w], task[w]) /\ stage[w] \in CustomerStages /\ member' = member
    BY <1>6, TenancyTaskKept DEF FindCustomer, CreateCustomer, CustomerStages, Holds, tables
  <2>2. task[w].op \in {"createCompany", "addNew", "subscribe"}
    BY <2>1 DEF TenancyRefers
  <2>3. \A c : [task[w] EXCEPT !.customer = c].op = task[w].op
    BY <2>1 DEF Task
  <2>4. \E s, t : Proceed(w, s, t) /\ t.op = task[w].op
    BY <1>6, <2>3 DEF FindCustomer, CreateCustomer
  <2> QED BY <2>1, <2>2, <2>4, ProceedCounted DEF Adding
<1>11. CASE EnsureCustomer(w)
  <2>1. task[w] \in Task /\ TenancyRefers("ensure", task[w]) /\ member' = member
    BY <1>11, TenancyTaskKept DEF EnsureCustomer, Holds, tables
  <2>2. task[w].op = "subscribe"
    BY <2>1 DEF TenancyRefers
  <2>3. \A u, g : [task[w] EXCEPT !.user = u, !.gst = g].op = task[w].op
    BY <2>1 DEF Task
  <2>4. \A m \in Members : Exists(member'[m]) =>
          /\ Exists(member[m]) /\ member'[m].company = member[m].company
          /\ IsLive(member'[m]) => IsLive(member[m]) \/ Restores(w, m)
    BY <2>1 DEF Exists, IsLive, IsDeleted
  <2>5. CASE stage' = [stage EXCEPT ![w] = "idle"] /\ task' = [task EXCEPT ![w] = None] /\ UNCHANGED scope
    BY <2>4, <2>5, OthersCounted
  <2>6. ASSUME NEW u, NEW g, Proceed(w, "newCustomer", [task[w] EXCEPT !.user = u, !.gst = g])
        PROVE  MembersCounted'
    BY <2>1, <2>2, <2>3, <2>6, ProceedCounted DEF Adding
  <2> QED BY <1>11, <2>5, <2>6 DEF EnsureCustomer
<1>7. CASE SaveCustomer(w)
  <2>1. \A m \in Members : Exists(member'[m]) =>
          /\ Exists(member[m]) /\ member'[m].company = member[m].company
          /\ IsLive(member'[m]) => IsLive(member[m]) \/ Restores(w, m)
    BY <1>7 DEF SaveCustomer, Exists, IsLive, IsDeleted
  <2> QED BY <1>7, <2>1, OthersCounted DEF SaveCustomer
<1>8. CASE UpdateCompany(w) \/ RestoreOnly(w) \/ ResendToOwner(w)
  BY <1>8, UnwrittenCounted DEF UpdateCompany, RestoreOnly, ResendToOwner, Resend
<1>9. CASE RemoveCompany(w) \/ PurgeCompany(w)
  BY <1>9, RemovalCounted DEF RemoveCompany, PurgeCompany
<1>10. CASE RestoreCompany(w)
  <2>1. "restoreCompany" \in scope.calls /\ scope' = scope
    BY <1>10, CompanyTask DEF RestoreCompany, CompanyOps, Finish
  <2> QED BY <2>1 DEF MembersCounted, MembersLimited
<1> QED BY <1>1, <1>2, <1>3, <1>4, <1>5, <1>6, <1>7, <1>8, <1>9, <1>10, <1>11 DEF CompanyStep

LEMMA NewMemberCounted ==
  ASSUME TenancyInv, MembersCounted, NEW w \in Workers, NEW op \in {"createMember", "kernelCreateMember"},
         NEW n, NEW u, NEW role, NewMemberAllowed(n, u),
         Start(w, "write", [NewTask(op) EXCEPT !.company = n, !.user = u, !.role = role])
  PROVE  MembersCounted'
<1> DEFINE t == [NewTask(op) EXCEPT !.company = n, !.user = u, !.role = role]
<1>1. t.op = op /\ t.company = n
  BY DEF NewTask
<1>2. MemberAllowed(n) /\ Start(w, "write", t)
  BY DEF NewMemberAllowed
<1> HIDE DEF t
<1> QED BY <1>1, <1>2, StartCounted

LEMMA MemberBeginCounted ==
  ASSUME TenancyInv, MembersCounted, NEW w \in Workers, NEW op, NEW m \in Members, NEW caller, MemberBegin(w, op, m, caller)
  PROVE  MembersCounted'
<1> DEFINE t == [NewTask(op) EXCEPT !.member = m, !.user = member[m].user, !.company = member[m].company]
<1>1. t.op = op /\ t.member = m
  BY DEF NewTask
<1>2. Start(w, "write", t) /\ op \in MemberOps
  BY DEF MemberBegin
<1>3. op = "restoreMember" /\ IsDeleted(member[m]) => MemberAllowed(member[m].company)
  BY DEF MemberBegin
<1>4. op \notin {"createMember", "kernelCreateMember"}
  BY <1>2 DEF MemberOps
<1> HIDE DEF t
<1> QED BY <1>1, <1>2, <1>3, <1>4, StartCounted

LEMMA MemberStepCounted ==
  ASSUME TenancyInv, MembersCounted, NEW w \in Workers, MemberStep(w)
  PROVE  MembersCounted'
<1>1. CASE \E n \in scope.numbers, u \in scope.users, role \in Roles : CreateMemberBegin(w, n, u, role)
  BY <1>1, NewMemberCounted DEF CreateMemberBegin
<1>2. CASE \E m \in Members, op \in MemberOps \cap scope.calls, caller \in scope.users :
             MemberBegin(w, op, m, caller)
  BY <1>2, MemberBeginCounted
<1>3. CASE CreateMember(w)
  BY <1>3, InsertMemberCounted DEF CreateMember
<1>4. CASE UpdateMember(w)
  BY <1>4, SetRoleCounted DEF UpdateMember
<1>5. CASE RemoveMember(w) \/ SoftDeleteMember(w) \/ RestoreMember(w)
  BY <1>5, SetMemberCounted DEF RemoveMember, SoftDeleteMember, RestoreMember, MemberOps, Lives
<1>6. CASE RemoveWithUser(w)
  BY <1>6, RemovalCounted DEF RemoveWithUser, DeleteMemberAndUser
<1>7. CASE BanMember(w) \/ ResendToMember(w) \/ RevokeSession(w) \/ RevokeAllSessions(w)
  BY <1>7, UnwrittenCounted DEF BanMember, ResendToMember, RevokeSession, RevokeAllSessions, OnlyUser, Resend
<1> QED BY <1>1, <1>2, <1>3, <1>4, <1>5, <1>6, <1>7 DEF MemberStep

LEMMA KernelMemberStepCounted ==
  ASSUME TenancyInv, MembersCounted, NEW w \in Workers, KernelMemberStep(w)
  PROVE  MembersCounted'
<1>1. CASE \E n \in scope.numbers, u \in scope.users, role \in Roles : KernelCreateMemberBegin(w, n, u, role)
  BY <1>1, NewMemberCounted DEF KernelCreateMemberBegin
<1>2. CASE \E m \in Members, op \in KernelMemberOps \cap scope.calls, role \in Roles \cup {None} :
             KernelMemberBegin(w, op, m, role)
  BY <1>2, StartCounted DEF KernelMemberBegin, NewTask, KernelMemberOps
<1>3. CASE KernelCreateMember(w)
  BY <1>3, InsertMemberCounted DEF KernelCreateMember
<1>4. CASE KernelUpdateMember(w)
  BY <1>4, SetRoleCounted DEF KernelUpdateMember
<1>5. CASE KernelRemoveMember(w) \/ KernelSoftDeleteMember(w)
  BY <1>5, SetMemberCounted DEF KernelRemoveMember, KernelSoftDeleteMember, KernelMemberOps, Lives
<1>6. CASE KernelRemoveWithUser(w)
  BY <1>6, RemovalCounted DEF KernelRemoveWithUser, DeleteMemberAndUser
<1>7. CASE KernelBanMember(w) \/ KernelResendToMember(w) \/ KernelRevokeSession(w) \/ KernelRevokeAllSessions(w)
  BY <1>7, UnwrittenCounted
     DEF KernelBanMember, KernelResendToMember, KernelRevokeSession, KernelRevokeAllSessions, OnlyUser, Resend
<1> QED BY <1>1, <1>2, <1>3, <1>4, <1>5, <1>6, <1>7 DEF KernelMemberStep

LEMMA FailCounted ==
  ASSUME TenancyInv, MembersCounted, NEW w \in Workers, Fail(w)
  PROVE  MembersCounted'
<1>1. \A m \in Members : Exists(member'[m]) =>
        /\ Exists(member[m]) /\ member'[m].company = member[m].company
        /\ IsLive(member'[m]) => IsLive(member[m]) \/ Restores(w, m)
  BY DEF Fail, tables, Exists, IsLive, IsDeleted
<1> QED BY <1>1, OthersCounted DEF Fail

LEMMA NextCounted == TenancyInv /\ MembersCounted /\ [TenancyNext]_tenancyVars => MembersCounted'
<1> SUFFICES ASSUME TenancyInv, MembersCounted, [TenancyNext]_tenancyVars PROVE MembersCounted'
  OBVIOUS
<1>1. CASE \E w \in Workers : RequestStep(w) \/ CompanyStep(w) \/ MemberStep(w) \/ KernelMemberStep(w) \/ Fail(w)
  BY <1>1, RequestStepCounted, CompanyStepCounted, MemberStepCounted, KernelMemberStepCounted, FailCounted
<1>2. CASE \E u \in scope.users : ChoosePassword(u) \/ \E token \in Tokens : SignIn(u, token)
  BY <1>2, QuietCounted DEF ChoosePassword, SignIn
<1>3. CASE UNCHANGED tenancyVars
  BY <1>3, QuietCounted DEF tenancyVars
<1> QED BY <1>1, <1>2, <1>3 DEF TenancyNext

LEMMA InitCounted == TenancyInit => MembersCounted
<1> SUFFICES ASSUME TenancyInit, NEW n \in Numbers, MembersLimited(n)
             PROVE  Cardinality(Held(n)) + Cardinality(Creating(n)) < Seats(n) + Cardinality(Workers)
  BY DEF MembersCounted
<1>1. Held(n) = {} /\ Creating(n) = {}
  BY DEF TenancyInit, Held, Creating, Creates, Exists, IsLive, IsDeleted
<1>2. Cardinality({}) = 0
  BY FS_EmptySet
<1>3. Seats(n) \in Nat \ {0} /\ Cardinality(Workers) \in Nat
  BY SeatsTyped, MembersFinite
<1> QED BY <1>1, <1>2, <1>3

\* checkOrganizationLimit counts, and the insert comes later: whatever handlers count
\* before each other's inserts, a company never has more members than its plan allows
\* and one for each handler but the last that can overlap.
THEOREM OvershootBounded == TenancySpec => []BoundedOvershoot
<1>1. MembersCounted => BoundedOvershoot
  <2> SUFFICES ASSUME MembersCounted, NEW n \in Numbers, MembersLimited(n)
               PROVE  Cardinality(LiveMembers(n)) < Seats(n) + Cardinality(Workers)
    BY DEF BoundedOvershoot, MembersLimited
  <2>1. LiveMembers(n) \subseteq Held(n)
    BY DEF LiveMembers, Held, Exists
  <2>2. Held(n) \in SUBSET Members /\ LiveMembers(n) \in SUBSET Members /\ Creating(n) \in SUBSET Workers
    BY DEF Held, LiveMembers, Creating
  <2>3. /\ IsFiniteSet(Held(n)) /\ Cardinality(Held(n)) \in Nat /\ Cardinality(LiveMembers(n)) \in Nat
        /\ Cardinality(Creating(n)) \in Nat /\ Cardinality(Workers) \in Nat
    BY <2>2, MembersFinite
  <2>4. Cardinality(LiveMembers(n)) <= Cardinality(Held(n))
    BY <2>1, <2>3, FS_Subset
  <2>5. Cardinality(Held(n)) + Cardinality(Creating(n)) < Seats(n) + Cardinality(Workers)
    BY DEF MembersCounted
  <2>6. Seats(n) \in Nat
    BY SeatsTyped
  <2> QED BY <2>3, <2>4, <2>5, <2>6
<1>2. TenancySpec => []MembersCounted
  BY InitCounted, NextCounted, TenancyInvariant, PTL DEF TenancySpec
<1> QED BY <1>1, <1>2, PTL

=============================================================================
