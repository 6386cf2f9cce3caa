-------------------------------- MODULE Tenancy --------------------------------
(***************************************************************************)
(* Companies, the requests they come from, their members and the members'    *)
(* user accounts.  The kernel service (for Proptryx staff) and the company   *)
(* service (for a company's own people) write the same four tables; every    *)
(* handler reads and checks, waits, and then writes by primary key in one    *)
(* transaction, so that handlers overlap between the check and the write.    *)
(***************************************************************************)
EXTENDS Tables, OrgLimits, FiniteSets

CONSTANTS
  Numbers,    \* company numbers 1 .. k, as PTCO000001 and so on (bounds the companies)
  Users,      \* user accounts, each with an e-mail address of its own
  Staffers,   \* those of Proptryx's own people, who belong to no company
  Members,    \* primary keys of member rows (bounds the inserts)
  Requests,   \* primary keys of company requests
  Gsts,       \* tax numbers
  Customers,  \* ids of customers at Razorpay
  Tokens,     \* session tokens
  Plan,       \* the plan that each company's subscription names
  Scopes      \* what a behaviour calls, and the rows that it may use

RequestOps == {"removeRequest", "restoreRequest", "purgeRequest"}
CompanyOps == {"updateCompany", "removeCompany", "restoreCompany", "restoreOnly", "purgeCompany",
               "resendToOwner"}
MemberOps == {"updateMember", "removeMember", "softDeleteMember", "restoreMember",
              "removeWithUser", "banMember", "resendToMember", "revokeSession",
              "revokeAllSessions"}
KernelMemberOps == {"kernelUpdateMember", "kernelRemoveMember", "kernelSoftDeleteMember",
                    "kernelRemoveWithUser", "kernelBanMember", "kernelResendToMember",
                    "kernelRevokeSession", "kernelRevokeAllSessions"}
Endpoints == RequestOps \cup CompanyOps \cup MemberOps \cup KernelMemberOps
         \cup {"createRequest", "createCompany", "addNew", "createMember", "kernelCreateMember",
               "subscribe"}

Roles == {"owner", "staff"}

Company == [gst : Gsts \cup {None}, email : Users \cup {None}, founder : Users,
            life : {"live", "deleted"}, customer : Customers \cup {None}]
User == [life : {"live", "gone"}, banned : BOOLEAN, password : {"seed", "own"},
         sessions : SUBSET Tokens]
Member == [company : Numbers, user : Users, role : Roles, life : Lives]
Request == [gst : Gsts \cup {None}, owner : Users, life : Lives]
\* madeFor: the organization that the notes name.
Customer == [email : Users, gst : Gsts \cup {None}, madeFor : Numbers]

\* What a handler keeps across its awaits.
Task == [op : Endpoints, company : Numbers \cup {None}, member : Members \cup {None},
         user : Users \cup {None}, request : Requests \cup {None}, gst : Gsts \cup {None},
         role : Roles \cup {None}, users : SUBSET Users, customer : Customers \cup {None}]

\* The endpoints that are called (Razorpay answers when "razorpay" is among
\* them), the rows that may be inserted, and the addresses that companies may
\* give as their own: bounds of the checks.
Scope == [calls : SUBSET (Endpoints \cup {"razorpay"}), numbers : SUBSET Numbers,
          users : SUBSET (Users \ Staffers), members : SUBSET Members,
          emails : SUBSET (Users \cup {None})]

ASSUME TenancyAssumption ==
  /\ Numbers \cup Users \cup Members \cup Customers \subseteq Nat /\ IsFiniteSet(Members)
  /\ Staffers \subseteq Users
  /\ Plan \in [Numbers -> PlanRow]
  /\ Scopes \subseteq Scope
  /\ None \notin Nat \cup Requests \cup Roles \cup Gsts
  /\ None \notin Company \cup User \cup Member \cup Request \cup Customer \cup Task

VARIABLES
  company,   \* table organization, by number
  user,      \* tables user, account and session, by user
  member,    \* table member
  request,   \* table company_request
  customer,  \* Razorpay's customers
  stage,     \* where each handler stands
  task,      \* what each handler keeps
  scope      \* the scope of this behaviour

tenancyVars == <<company, user, member, request, customer, stage, task, scope>>

tables == <<company, user, member, request, customer>>

-----------------------------------------------------------------------------
(* The steps of a handler *)

NewTask(op) ==
  [op |-> op, company |-> None, member |-> None, user |-> None, request |-> None,
   gst |-> None, role |-> None, users |-> {}, customer |-> None]

\* The first reads of a handler; it changes nothing yet.
Start(w, next, t) ==
  /\ stage[w] = "idle"
  /\ t.op \in scope.calls
  /\ stage' = [stage EXCEPT ![w] = next]
  /\ task' = [task EXCEPT ![w] = t]
  /\ UNCHANGED <<tables, scope>>

Proceed(w, next, t) ==
  /\ stage' = [stage EXCEPT ![w] = next]
  /\ task' = [task EXCEPT ![w] = t]
  /\ UNCHANGED scope

\* The write of operation op, which ends the handler.
Finish(w, op) ==
  /\ stage[w] = "write" /\ task[w].op = op
  /\ stage' = [stage EXCEPT ![w] = "idle"]
  /\ task' = [task EXCEPT ![w] = None]
  /\ UNCHANGED scope

\* Keys and addresses are interchangeable, so that an insert may take the
\* first key of its table that was never used,
FirstUnused(k, keys, table) ==
  k \in keys /\ table[k] = None /\ \A j \in keys : j < k => table[j] # None

Named(u) ==
  \/ \E w \in Workers : task[w] # None /\ task[w].user = u
  \/ \E n \in Numbers : company[n] # None /\ company[n].email = u
  \/ \E c \in Customers : customer[c] # None /\ customer[c].email = u

\* and a sign-up an address that something names, or the first one that nobody
\* ever used.
NewAddress(u) ==
  /\ user[u] = None
  /\ Named(u) \/ \A v \in scope.users : v < u => user[v] # None \/ Named(v)

-----------------------------------------------------------------------------
(* Company requests *)

\* findCompanyRequestGstConflict
GstConflict(g) ==
  \/ \E n \in Numbers : IsLive(company[n]) /\ company[n].gst = g
  \/ \E r \in Requests : IsLive(request[r]) /\ request[r].gst = g

CreateRequestBegin(w, r, u, g) ==
  /\ request[r] = None
  /\ ~ GstConflict(g)
  /\ Start(w, "write", [NewTask("createRequest") EXCEPT !.request = r, !.user = u, !.gst = g])

\* company_request_gst_number_uidx: one live request for a tax number.
GstIsFree(g, r) == \A q \in Requests \ {r} : IsLive(request[q]) => request[q].gst # g

\* After the tax number was verified upstream.
CreateRequest(w) ==
  LET t == task[w]
  IN  /\ Finish(w, "createRequest")
      /\ request[t.request] = None
      /\ GstIsFree(t.gst, t.request)
      /\ request' = [request EXCEPT ![t.request] =
           [gst |-> t.gst, owner |-> t.user, life |-> "live"]]
      /\ UNCHANGED <<company, user, member, customer>>

RequestBegin(w, op, r) ==
  /\ op \in RequestOps
  /\ Exists(request[r])
  /\ op = "removeRequest" => IsLive(request[r])
  /\ op = "restoreRequest" => IsDeleted(request[r])
  /\ Start(w, "write", [NewTask(op) EXCEPT !.request = r])

SetRequest(w, life) ==
  /\ request' = [request EXCEPT ![task[w].request] = SetLife(@, life)]
  /\ UNCHANGED <<company, user, member, customer>>

RemoveRequest(w) == Finish(w, "removeRequest") /\ SetRequest(w, "deleted")

RestoreRequest(w) ==
  /\ Finish(w, "restoreRequest")
  /\ Exists(request[task[w].request]) => GstIsFree(request[task[w].request].gst, task[w].request)
  /\ SetRequest(w, "live")

PurgeRequest(w) == Finish(w, "purgeRequest") /\ SetRequest(w, "gone")

-----------------------------------------------------------------------------
(* Companies *)

\* findNextCompanyId: one more than the newest row, deleted or not.
NextNumber(n) ==
  /\ \A k \in Numbers : company[k] # None => k < n
  /\ \A k \in Numbers : k = n - 1 => company[k] # None

NewUser == [life |-> "live", banned |-> FALSE, password |-> "seed", sessions |-> {}]

\* Without a tax number there is nothing to conflict with.
CreateCompanyBegin(w, u, g) ==
  /\ g # None => ~ GstConflict(g)
  /\ NewAddress(u)
  /\ Start(w, "number", [NewTask("createCompany") EXCEPT !.user = u, !.gst = g])

CreateCompanyRead(w) ==
  LET t == task[w]
  IN  /\ stage[w] = "number" /\ t.op = "createCompany"
      /\ user[t.user] = None
      /\ \E n \in scope.numbers : NextNumber(n) /\ Proceed(w, "write", [t EXCEPT !.company = n])
      /\ UNCHANGED tables

\* The organization and its owner, in one transaction: the number may be
\* taken by now, and then the primary key refuses it.
InsertCompany(t, m) ==
  /\ company[t.company] = None
  /\ FirstUnused(m, scope.members, member)
  /\ \E e \in scope.emails : company' = [company EXCEPT ![t.company] =
       [gst |-> t.gst, email |-> e, founder |-> t.user, life |-> "live", customer |-> None]]
  /\ member' = [member EXCEPT ![m] =
       [company |-> t.company, user |-> t.user, role |-> "owner", life |-> "live"]]
  /\ UNCHANGED customer

\* Earlier requests of the owner for the same tax number are soft deleted.
CreateCompany(w) ==
  LET t == task[w]
  IN  /\ stage[w] = "write" /\ t.op = "createCompany"
      /\ user[t.user] = None
      /\ user' = [user EXCEPT ![t.user] = NewUser]
      /\ \E m \in Members : InsertCompany(t, m)
      /\ request' = [r \in Requests |->
           IF request[r] # None /\ request[r].owner = t.user /\ t.gst \in {None, request[r].gst}
           THEN SetLife(request[r], "deleted") ELSE request[r]]
      /\ Proceed(w, "customer", t)

AddNewBegin(w, r) ==
  /\ IsLive(request[r])
  /\ Start(w, "number", [NewTask("addNew") EXCEPT !.request = r, !.user = request[r].owner,
                                                  !.gst = request[r].gst])

AddNewRead(w) ==
  LET t == task[w]
  IN  /\ stage[w] = "number" /\ t.op = "addNew"
      /\ IsLive(user[t.user])
      /\ \E n \in scope.numbers : NextNumber(n) /\ Proceed(w, "write", [t EXCEPT !.company = n])
      /\ UNCHANGED tables

\* The owner exists already; the foreign key refuses a user who is gone.
AddNew(w) ==
  LET t == task[w]
  IN  /\ stage[w] = "write" /\ t.op = "addNew"
      /\ IsLive(user[t.user])
      /\ \E m \in Members : InsertCompany(t, m)
      /\ request' = [request EXCEPT ![t.request] = IF IsLive(@) THEN SetLife(@, "deleted") ELSE @]
      /\ UNCHANGED user
      /\ Proceed(w, "customer", t)

-----------------------------------------------------------------------------
(* syncCompanyRazorpayCustomer, which the reply does not wait for *)

Matches_NullIsEqual(c, t) ==
  customer[c] # None /\ (customer[c].email = t.user \/ customer[c].gst = t.gst)

Matches(c, t) ==
  customer[c] # None /\ (customer[c].email = t.user \/ (t.gst # None /\ customer[c].gst = t.gst))

FindCustomer(w) ==
  LET t == task[w]
  IN  /\ stage[w] = "customer" /\ "razorpay" \in scope.calls
      /\ IF \E c \in Customers : Matches(c, t)
         THEN \E c \in Customers :
                Matches(c, t) /\ Proceed(w, "saveCustomer", [t EXCEPT !.customer = c])
         ELSE Proceed(w, "newCustomer", t)
      /\ UNCHANGED tables

CreateCustomer(w) ==
  LET t == task[w]
  IN  /\ stage[w] = "newCustomer"
      /\ \E c \in Customers :
           /\ FirstUnused(c, Customers, customer)
           /\ customer' = [customer EXCEPT ![c] =
                [email |-> t.user, gst |-> t.gst, madeFor |-> t.company]]
           /\ Proceed(w, "saveCustomer", [t EXCEPT !.customer = c])
      /\ UNCHANGED <<company, user, member, request>>

SaveCustomer(w) ==
  LET t == task[w]
  IN  /\ stage[w] = "saveCustomer"
      /\ company' = [company EXCEPT ![t.company] =
           IF @ = None THEN None ELSE [@ EXCEPT !.customer = t.customer]]
      /\ stage' = [stage EXCEPT ![w] = "idle"] /\ task' = [task EXCEPT ![w] = None]
      /\ UNCHANGED <<user, member, request, customer, scope>>

-----------------------------------------------------------------------------
(* ensureOrganizationWithCustomer (auth service), before a subscription is made *)

\* A member, deleted or not, or one of Proptryx's own people.
SubscribeBegin(w, n, u) ==
  /\ \/ u \in Staffers
     \/ \E m \in Members : Exists(member[m]) /\ member[m].company = n /\ member[m].user = u
  /\ Start(w, "ensure", [NewTask("subscribe") EXCEPT !.company = n, !.user = u])

\* A company that has no customer gets one of its own address, or else of the
\* caller's; from here on task.user is that address.
EnsureCustomer(w) ==
  LET t   == task[w]
      row == company[t.company]
  IN  /\ stage[w] = "ensure"
      /\ row # None
      /\ IF row.customer # None
         THEN /\ stage' = [stage EXCEPT ![w] = "idle"] /\ task' = [task EXCEPT ![w] = None]
              /\ UNCHANGED scope
         ELSE Proceed(w, "newCustomer",
                [t EXCEPT !.user = IF row.email # None THEN row.email ELSE @, !.gst = row.gst])
      /\ UNCHANGED tables

-----------------------------------------------------------------------------
(* The other endpoints of a company *)

\* update and remove look for a live company, resendCredentials for its owner too.
CompanyBegin(w, op, n) ==
  /\ op \in CompanyOps \ {"purgeCompany", "resendToOwner"}
  /\ company[n] # None
  /\ op \in {"updateCompany", "removeCompany"} => IsLive(company[n])
  /\ Start(w, "write", [NewTask(op) EXCEPT !.company = n])

SetCompany(n, row) == company' = [company EXCEPT ![n] = IF @ = None THEN None ELSE row]

\* The tax number and the address may change, unchecked.
UpdateCompany(w) ==
  LET n == task[w].company
  IN  /\ Finish(w, "updateCompany")
      /\ \E g \in Gsts, e \in scope.emails :
           SetCompany(n, [company[n] EXCEPT !.gst = g, !.email = e])
      /\ UNCHANGED <<user, member, request, customer>>

SetMembers(ms, life) ==
  member' = [m \in Members |-> IF m \in ms THEN SetLife(member[m], life) ELSE member[m]]

MembersOf(n) == {m \in Members : Exists(member[m]) /\ member[m].company = n}
MembershipsOf(us) == {m \in Members : Exists(member[m]) /\ member[m].user \in us}

RemoveCompany(w) ==
  LET n == task[w].company
  IN  /\ Finish(w, "removeCompany")
      /\ SetMembers(MembersOf(n), "deleted")
      /\ SetCompany(n, [company[n] EXCEPT !.life = "deleted"])
      /\ UNCHANGED <<user, request, customer>>

\* restoreCompanyById with restoreRelated: every row of the company.
RestoreCompany(w) ==
  LET n == task[w].company
  IN  /\ Finish(w, "restoreCompany")
      /\ SetMembers(MembersOf(n), "live")
      /\ SetCompany(n, [company[n] EXCEPT !.life = "live"])
      /\ UNCHANGED <<user, request, customer>>

RestoreOnly(w) ==
  LET n == task[w].company
  IN  /\ Finish(w, "restoreOnly")
      /\ SetCompany(n, [company[n] EXCEPT !.life = "live"])
      /\ UNCHANGED <<user, member, request, customer>>

LinkedUsers(n) == {member[m].user : m \in MembersOf(n)}

\* The users without a membership anywhere else, as they are now.
OwnUsers(n) == LinkedUsers(n) \ UNION {LinkedUsers(k) : k \in Numbers \ {n}}

PurgeBegin(w, n) ==
  /\ company[n] # None
  /\ Start(w, "write", [NewTask("purgeCompany") EXCEPT !.company = n, !.users = OwnUsers(n)])

\* ON DELETE CASCADE: a company takes its members along, a user the memberships.
DeleteUsers(us) ==
  user' = [u \in Users |->
    IF u \in us /\ user[u] # None THEN [user[u] EXCEPT !.life = "gone", !.sessions = {}]
    ELSE user[u]]

PurgeCompany(w) ==
  LET t == task[w]
  IN  /\ Finish(w, "purgeCompany")
      /\ company' = [company EXCEPT ![t.company] = None]
      /\ SetMembers(MembersOf(t.company) \cup MembershipsOf(t.users), "gone")
      /\ DeleteUsers(t.users)
      /\ UNCHANGED <<request, customer>>

\* getCompanyOwnerCredentialDeliveryData
ResendToOwnerBegin(w, n, m) ==
  /\ IsLive(company[n])
  /\ IsLive(member[m]) /\ member[m].company = n /\ member[m].role = "owner"
  /\ Start(w, "write", [NewTask("resendToOwner") EXCEPT !.user = member[m].user])

SetUser(u, row) == user' = [user EXCEPT ![u] = IF IsLive(@) THEN row ELSE @]

\* The account's id hides the first password: it is what the mail says again.
Resend(w, op) ==
  LET u == task[w].user
  IN  /\ Finish(w, op)
      /\ SetUser(u, [user[u] EXCEPT !.password = "seed"])
      /\ UNCHANGED <<company, member, request, customer>>

ResendToOwner(w) == Resend(w, "resendToOwner")

-----------------------------------------------------------------------------
(* Members: creating one *)

LiveMembers(n) == {m \in Members : IsLive(member[m]) /\ member[m].company = n}

\* checkOrganizationLimit(n, "users"): a count, and no lock.
MemberAllowed(n) == LimitAllows(Plan[n], "maxUsers", Cardinality(LiveMembers(n)), 1)

NewMemberAllowed_Unlimited(n, u) == NewAddress(u) /\ IsLive(company[n])

\* The address is new, the company is live, the plan has room.
NewMemberAllowed(n, u) == NewAddress(u) /\ IsLive(company[n]) /\ MemberAllowed(n)

\* Nobody becomes an owner here: the role is refused before anything is read.
CreateMemberBegin(w, n, u, role) ==
  /\ role # "owner"
  /\ NewMemberAllowed(n, u)
  /\ Start(w, "write", [NewTask("createMember") EXCEPT !.company = n, !.user = u, !.role = role])

KernelCreateMemberBegin(w, n, u, role) ==
  /\ role # "owner"
  /\ NewMemberAllowed(n, u)
  /\ Start(w, "write",
           [NewTask("kernelCreateMember") EXCEPT !.company = n, !.user = u, !.role = role])

\* User, account and member in one transaction: the address is still unused,
\* and the foreign key wants the company to exist, deleted or not.
InsertMember(t) ==
  /\ company[t.company] # None
  /\ user[t.user] = None
  /\ user' = [user EXCEPT ![t.user] = NewUser]
  /\ \E m \in Members :
       /\ FirstUnused(m, scope.members, member)
       /\ member' = [member EXCEPT ![m] =
            [company |-> t.company, user |-> t.user, role |-> t.role, life |-> "live"]]
  /\ UNCHANGED <<company, request, customer>>

CreateMember(w) == Finish(w, "createMember") /\ InsertMember(task[w])

KernelCreateMember(w) == Finish(w, "kernelCreateMember") /\ InsertMember(task[w])

-----------------------------------------------------------------------------
(* Members: the company service *)

\* isProtectedMember: an owner, or the caller themselves.
Protected(m, caller) == member[m].role = "owner" \/ member[m].user = caller

\* findMemberById or findMemberDetailsById, in the caller's company.  Sessions
\* and restore look at deleted members too; a restore then counts.
MemberBegin(w, op, m, caller) ==
  /\ op \in MemberOps
  /\ Exists(member[m])
  /\ op \in {"restoreMember", "revokeSession", "revokeAllSessions"} \/ IsLive(member[m])
  /\ op = "resendToMember" => IsLive(company[member[m].company])
  /\ op = "restoreMember" /\ IsDeleted(member[m]) => MemberAllowed(member[m].company)
  /\ ~ Protected(m, caller)
  /\ Start(w, "write", [NewTask(op) EXCEPT !.member = m, !.user = member[m].user,
                                           !.company = member[m].company])

OnlyMember(w) == UNCHANGED <<company, user, request, customer>>
OnlyUser(w) == UNCHANGED <<company, member, request, customer>>

SetRole(m, role) ==
  member' = [member EXCEPT ![m] =
    IF Exists(@) /\ role # None THEN [@ EXCEPT !.role = role] ELSE @]

SetMember(m, life) == member' = [member EXCEPT ![m] = SetLife(@, life)]

\* The role is optional in the body, and never "owner".
UpdateMember(w) ==
  /\ Finish(w, "updateMember")
  /\ \E role \in (Roles \ {"owner"}) \cup {None} : SetRole(task[w].member, role)
  /\ OnlyMember(w)

RemoveMember(w) ==
  Finish(w, "removeMember") /\ SetMember(task[w].member, "gone") /\ OnlyMember(w)

SoftDeleteMember(w) ==
  Finish(w, "softDeleteMember") /\ SetMember(task[w].member, "deleted") /\ OnlyMember(w)

RestoreMember(w) ==
  Finish(w, "restoreMember") /\ SetMember(task[w].member, "live") /\ OnlyMember(w)

\* The member, the user, and with the user every membership elsewhere.
DeleteMemberAndUser(t) ==
  /\ SetMembers({t.member} \cup MembershipsOf({t.user}), "gone")
  /\ DeleteUsers({t.user})
  /\ UNCHANGED <<company, request, customer>>

RemoveWithUser(w) == Finish(w, "removeWithUser") /\ DeleteMemberAndUser(task[w])

\* Sessions stay: better-auth is not asked.
SetBanned(u) == \E banned \in BOOLEAN : SetUser(u, [user[u] EXCEPT !.banned = banned])

BanMember(w) == Finish(w, "banMember") /\ SetBanned(task[w].user) /\ OnlyUser(w)

ResendToMember(w) == Resend(w, "resendToMember")

\* DELETE FROM session WHERE user and token: the member's own session only.
DeleteSessions(u, tokens) == SetUser(u, [user[u] EXCEPT !.sessions = @ \ tokens])

RevokeSession(w) ==
  /\ Finish(w, "revokeSession")
  /\ \E token \in Tokens : DeleteSessions(task[w].user, {token})
  /\ OnlyUser(w)

RevokeAllSessions(w) ==
  Finish(w, "revokeAllSessions") /\ DeleteSessions(task[w].user, Tokens) /\ OnlyUser(w)

-----------------------------------------------------------------------------
(* Members: the kernel service, in any company *)

KernelMemberBegin_AnyRole(w, op, m, role) ==
  /\ op \in KernelMemberOps
  /\ Exists(member[m])
  /\ op \in {"kernelRevokeSession", "kernelRevokeAllSessions"} \/ IsLive(member[m])
  /\ op \in {"kernelRemoveMember", "kernelSoftDeleteMember", "kernelRemoveWithUser",
             "kernelBanMember"} => member[m].role # "owner"
  /\ op = "kernelResendToMember" => IsLive(company[member[m].company])
  /\ op # "kernelUpdateMember" => role = None
  /\ Start(w, "write", [NewTask(op) EXCEPT !.member = m, !.user = member[m].user,
                                           !.company = member[m].company, !.role = role])

\* Owners may be edited and mailed; everything that takes something away from
\* a member is refused for an owner.
KernelMemberBegin(w, op, m, role) ==
  /\ op \in KernelMemberOps
  /\ Exists(member[m])
  /\ op \in {"kernelRevokeSession", "kernelRevokeAllSessions"} \/ IsLive(member[m])
  /\ op \in {"kernelRemoveMember", "kernelSoftDeleteMember", "kernelRemoveWithUser",
             "kernelBanMember"} => member[m].role # "owner"
  /\ op = "kernelResendToMember" => IsLive(company[member[m].company])
  /\ IF op = "kernelUpdateMember" THEN role = "owner" => member[m].role = "owner"
     ELSE role = None
  /\ Start(w, "write", [NewTask(op) EXCEPT !.member = m, !.user = member[m].user,
                                           !.company = member[m].company, !.role = role])

KernelUpdateMember(w) ==
  Finish(w, "kernelUpdateMember") /\ SetRole(task[w].member, task[w].role) /\ OnlyMember(w)

KernelRemoveMember(w) ==
  Finish(w, "kernelRemoveMember") /\ SetMember(task[w].member, "gone") /\ OnlyMember(w)

KernelSoftDeleteMember(w) ==
  Finish(w, "kernelSoftDeleteMember") /\ SetMember(task[w].member, "deleted") /\ OnlyMember(w)

KernelRemoveWithUser(w) == Finish(w, "kernelRemoveWithUser") /\ DeleteMemberAndUser(task[w])

KernelBanMember(w) == Finish(w, "kernelBanMember") /\ SetBanned(task[w].user) /\ OnlyUser(w)

KernelResendToMember(w) == Resend(w, "kernelResendToMember")

KernelRevokeSession(w) ==
  /\ Finish(w, "kernelRevokeSession")
  /\ \E token \in Tokens : DeleteSessions(task[w].user, {token})
  /\ OnlyUser(w)

KernelRevokeAllSessions(w) ==
  Finish(w, "kernelRevokeAllSessions") /\ DeleteSessions(task[w].user, Tokens) /\ OnlyUser(w)

-----------------------------------------------------------------------------
(* A refused write, an error of Razorpay or a crash: the transaction is     *)
(* rolled back, and whatever was committed before it stays.                 *)
Fail(w) ==
  /\ stage[w] # "idle"
  /\ stage' = [stage EXCEPT ![w] = "idle"]
  /\ task' = [task EXCEPT ![w] = None]
  /\ UNCHANGED <<tables, scope>>

\* Signing in and choosing a password are the auth service's.
SignIn(u, token) ==
  /\ "revokeSession" \in scope.calls \/ "kernelRevokeSession" \in scope.calls
  /\ IsLive(user[u]) /\ ~ user[u].banned
  /\ SetUser(u, [user[u] EXCEPT !.sessions = @ \cup {token}])
  /\ UNCHANGED <<company, member, request, customer, stage, task, scope>>

ChoosePassword(u) ==
  /\ "resendToMember" \in scope.calls \/ "resendToOwner" \in scope.calls
  /\ SetUser(u, [user[u] EXCEPT !.password = "own"])
  /\ UNCHANGED <<company, member, request, customer, stage, task, scope>>

TenancyInit ==
  /\ company = [n \in Numbers |-> None]
  /\ user = [u \in Users |-> None]
  /\ member = [m \in Members |-> None]
  /\ request = [r \in Requests |-> None]
  /\ customer = [c \in Customers |-> None]
  /\ stage = [w \in Workers |-> "idle"]
  /\ task = [w \in Workers |-> None]
  /\ scope \in Scopes

RequestStep(w) ==
  \/ \E r \in Requests, u \in scope.users, g \in Gsts : CreateRequestBegin(w, r, u, g)
  \/ CreateRequest(w)
  \/ \E r \in Requests, op \in RequestOps \cap scope.calls : RequestBegin(w, op, r)
  \/ RemoveRequest(w) \/ RestoreRequest(w) \/ PurgeRequest(w)

CompanyStep(w) ==
  \/ \E u \in scope.users, g \in Gsts \cup {None} : CreateCompanyBegin(w, u, g)
  \/ CreateCompanyRead(w) \/ CreateCompany(w)
  \/ \E r \in Requests : AddNewBegin(w, r)
  \/ AddNewRead(w) \/ AddNew(w)
  \/ FindCustomer(w) \/ CreateCustomer(w) \/ SaveCustomer(w)
  \/ \E n \in scope.numbers, u \in scope.users \cup Staffers : SubscribeBegin(w, n, u)
  \/ EnsureCustomer(w)
  \/ \E n \in scope.numbers, op \in CompanyOps \cap scope.calls : CompanyBegin(w, op, n)
  \/ \E n \in scope.numbers : PurgeBegin(w, n)
  \/ \E n \in scope.numbers, m \in Members : ResendToOwnerBegin(w, n, m)
  \/ UpdateCompany(w) \/ RemoveCompany(w) \/ RestoreCompany(w) \/ RestoreOnly(w)
  \/ PurgeCompany(w) \/ ResendToOwner(w)

MemberStep(w) ==
  \/ \E n \in scope.numbers, u \in scope.users, role \in Roles : CreateMemberBegin(w, n, u, role)
  \/ CreateMember(w)
  \/ \E m \in Members, op \in MemberOps \cap scope.calls, caller \in scope.users : MemberBegin(w, op, m, caller)
  \/ UpdateMember(w) \/ RemoveMember(w) \/ SoftDeleteMember(w) \/ RestoreMember(w)
  \/ RemoveWithUser(w) \/ BanMember(w) \/ ResendToMember(w)
  \/ RevokeSession(w) \/ RevokeAllSessions(w)

KernelMemberStep(w) ==
  \/ \E n \in scope.numbers, u \in scope.users, role \in Roles : KernelCreateMemberBegin(w, n, u, role)
  \/ KernelCreateMember(w)
  \/ \E m \in Members, op \in KernelMemberOps \cap scope.calls, role \in Roles \cup {None} :
       KernelMemberBegin(w, op, m, role)
  \/ KernelUpdateMember(w) \/ KernelRemoveMember(w) \/ KernelSoftDeleteMember(w)
  \/ KernelRemoveWithUser(w) \/ KernelBanMember(w) \/ KernelResendToMember(w)
  \/ KernelRevokeSession(w) \/ KernelRevokeAllSessions(w)

TenancyNext ==
  \/ \E w \in Workers :
       RequestStep(w) \/ CompanyStep(w) \/ MemberStep(w) \/ KernelMemberStep(w) \/ Fail(w)
  \/ \E u \in scope.users : ChoosePassword(u) \/ \E token \in Tokens : SignIn(u, token)

TenancySpec == TenancyInit /\ [][TenancyNext]_tenancyVars

-----------------------------------------------------------------------------
(* Properties *)

\* The tables and the handlers have their types, and the foreign keys hold:
\* an existing member has its company and its user.
TenancyTypeOK ==
  /\ company \in [Numbers -> Company \cup {None}]
  /\ user \in [Users -> User \cup {None}]
  /\ member \in [Members -> Member \cup {None}]
  /\ request \in [Requests -> Request \cup {None}]
  /\ customer \in [Customers -> Customer \cup {None}]
  /\ stage \in [Workers ->
       {"idle", "number", "write", "customer", "ensure", "newCustomer", "saveCustomer"}]
  /\ task \in [Workers -> Task \cup {None}]
  /\ scope \in Scopes
  /\ \A m \in Members : Exists(member[m]) =>
       company[member[m].company] # None /\ IsLive(user[member[m].user])

\* "Owner role cannot be assigned to a member": whoever holds the role is the
\* founder of the company, although a handler decides on a role it read before
\* other handlers changed it.
OwnerIsFounder ==
  \A m \in Members : Exists(member[m]) /\ member[m].role = "owner" =>
    member[m].user = company[member[m].company].founder

\* The founder takes a seat without being counted.
Seats(n) == IF Plan[n].maxUsers < 1 THEN 1 ELSE Plan[n].maxUsers

\* "Your plan allows n members": the count and the insert are not one step, so
\* that the limit may be passed, but only by the handlers that were counting
\* at the same moment, one member each, and never further.  (Restoring a company
\* does not count at all.)
BoundedOvershoot ==
  \A n \in Numbers :
    "restoreCompany" \notin scope.calls /\ Plan[n].configured /\ Plan[n].maxUsers \in Nat =>
      Cardinality(LiveMembers(n)) < Seats(n) + Cardinality(Workers)

\* The customer that a company is billed as is its own, however the kernel's
\* search for one and the auth service's subscriptions overlap: it was made for
\* this company, or it was found by the founder's address or the tax number, as
\* long as the company's number was never somebody else's and the tax number was
\* not edited.
CustomerIsOwn ==
  {"purgeCompany", "updateCompany"} \cap scope.calls = {} =>
    \A n \in Numbers : company[n] # None /\ company[n].customer # None =>
      LET c == customer[company[n].customer]
      IN  /\ c # None
          /\ \/ c.madeFor = n
             \/ c.email = company[n].founder
             \/ c.gst # None /\ c.gst = company[n].gst

=============================================================================
