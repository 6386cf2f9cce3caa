--------------------------------- MODULE Staff ---------------------------------
(***************************************************************************)
(* The users of the kernel service's own panel, its brokers among them, and     *)
(* the requests of those who want to become one.  Two routers edit the same      *)
(* users: one takes any of them, the other only brokers.  An e-mail address is    *)
(* unique by an index; a phone number only by a check the brokers' router makes.  *)
(***************************************************************************)
EXTENDS Tables, Naturals

CONSTANTS
  PersonIds,       \* primary keys of users (bounds the inserts)
  BrokerRequests,  \* primary keys of broker requests (bounds the inserts)
  Emails,          \* addresses, in lower case
  PhoneNumbers,         \* telephone numbers, without their country code
  StaffTokens,          \* tokens of sessions
  StaffBodies,     \* what is sent: the columns a body names, with their values
  StaffScopes      \* a behaviour takes calls and bodies from one of these

\* A number is written with its country code or without.
Phones == [number : PhoneNumbers, code : BOOLEAN]

StaffCalls == {"create", "update", "remove", "purge", "resend", "revoke", "revokeAll",
               "createBroker", "updateBroker", "removeBroker", "purgeBroker", "resendBroker",
               "submit", "removeRequest", "restoreRequest", "purgeRequest", "signIn", "changePassword"}

\* unchecked: the phone number was set by the router that does not check it.
PersonData == [email : Emails, phone : Phones \cup {None}, unchecked : BOOLEAN,
               role : {"admin", "broker"}, life : Lives]
RequestData == [email : Emails, phone : Phones, life : Lives]

ASSUME StaffAssumption ==
  /\ PersonIds \subseteq Nat /\ BrokerRequests \subseteq Nat
  /\ None \notin Emails /\ None \notin PersonIds
  /\ None \notin StaffBodies /\ None \notin PersonData /\ None \notin RequestData
  /\ \A b \in StaffBodies :
       /\ DOMAIN b \subseteq {"email", "phone", "role"}
       /\ "email" \in DOMAIN b => b.email \in Emails
       /\ "phone" \in DOMAIN b => b.phone \in Phones \cup {None}
       /\ "role" \in DOMAIN b => b.role \in {"admin", "broker"}
  /\ StaffScopes \subseteq [calls : SUBSET StaffCalls, bodies : SUBSET StaffBodies]

VARIABLES
  person,         \* table user, panel proptryx
  password,       \* table account: of each user the first password or a changed one
  sessions,       \* table session: the tokens of each user
  brokerRequest,  \* table broker_request
  staffing,       \* what each handler keeps across its awaits
  raced,          \* phone numbers written while another handler was past its check of them
  promoted,       \* users who stopped being brokers while a brokers' handler had read them
  staffScope      \* the scope of this behaviour

staffVars == <<person, password, sessions, brokerRequest, staffing, raced, promoted, staffScope>>

-----------------------------------------------------------------------------
(* Reading *)

\* findProptryxUserById
FindsUser(p) == IsLive(person[p])
FindsUserDeleted(p) == Exists(person[p])

IsBroker_Anyone(p) == person[p] # None
\* findProptryxBrokerUserById, beyond what findProptryxUserById asks.
IsBroker(p) == person[p].role = "broker"

\* findProptryxUserConflictByEmail: deleted users too.
EmailConflict(email, except) == \E p \in PersonIds \ {except} : Exists(person[p]) /\ person[p].email = email

PhoneConflict_Live(phone, except) ==
  \E p \in PersonIds \ {except} : IsLive(person[p]) /\ person[p].phone = phone
\* findProptryxUserConflictByPhoneNumber, likewise.
PhoneConflict(phone, except) == \E p \in PersonIds \ {except} : Exists(person[p]) /\ person[p].phone = phone

\* phoneNumbersMatch: one ends with the other, whichever has its country code.
PhoneNumbersMatch(left, right) == right # None /\ left.number = right.number

\* matchingBrokerRequests
MatchingBrokerRequests(b) ==
  {r \in BrokerRequests :
     /\ IsLive(brokerRequest[r])
     /\ brokerRequest[r].email = b.email
     /\ PhoneNumbersMatch(brokerRequest[r].phone, b.phone)}

\* user.email is unique.
EmailsUnique(table) ==
  \A p, q \in PersonIds : Exists(table[p]) /\ Exists(table[q]) /\ table[p].email = table[q].email => p = q

-----------------------------------------------------------------------------
(* The steps of a handler *)

StaffStarts(w, op) == staffing[w] = None /\ op \in staffScope.calls
StaffAt(w, op, step) == staffing[w] # None /\ staffing[w].op = op /\ staffing[w].step = step

\* id: the row that was read; row: what was read of it; requests: those that matched.
StaffTask(op, step, id, body) ==
  [op |-> op, step |-> step, id |-> id, body |-> body,
   row |-> IF id = None THEN None ELSE person[id], requests |-> {}]

Staffing(w, task) == staffing' = [staffing EXCEPT ![w] = task] /\ UNCHANGED staffScope

ReadsStaff(w, task) ==
  /\ Staffing(w, task)
  /\ UNCHANGED <<person, password, sessions, brokerRequest, raced, promoted>>

Phone(b) == IF "phone" \in DOMAIN b THEN b.phone ELSE None
NextKeys(table, ids) == {i \in ids : table[i] = None /\ \A j \in ids : j < i => table[j] # None}

BrokersOps == {"createBroker", "updateBroker", "removeBroker", "purgeBroker", "resendBroker", "revoke", "revokeAll"}

\* The users are written, and what depends on that is noted.
WritesPeople(w, table) ==
  /\ EmailsUnique(table)
  /\ person' = table
  /\ raced' = raced \cup
       {x \in {Phone(staffing[v].body) : v \in {u \in Workers \ {w} : staffing[u] # None /\ staffing[u].body # None}} :
          x # None /\ \E p \in PersonIds : person[p] # table[p] /\ table[p].phone = x}
  /\ promoted' = promoted \cup
       {p \in PersonIds : /\ person[p] # None /\ person[p].role = "broker" /\ table[p].role # "broker"
                          /\ \E v \in Workers \ {w} : staffing[v] # None /\ staffing[v].op \in BrokersOps /\ staffing[v].id = p}
  /\ Staffing(w, None)

Others == <<sessions, brokerRequest>>

-----------------------------------------------------------------------------
(* Creating *)

\* create of both routers: the user and the account in one transaction.
InsertPerson(w, row) ==
  \E p \in NextKeys(person, PersonIds) :
    /\ WritesPeople(w, [person EXCEPT ![p] = row])
    /\ password' = [password EXCEPT ![p] = "first"]

CreateStaff(w) ==
  \/ \E b \in staffScope.bodies :
       /\ StaffStarts(w, "create")
       /\ {"email", "role"} \subseteq DOMAIN b
       /\ ~ EmailConflict(b.email, None)
       /\ ReadsStaff(w, StaffTask("create", "write", None, b))
  \/ /\ StaffAt(w, "create", "write")
     /\ LET b == staffing[w].body
        IN  InsertPerson(w, [email |-> b.email, phone |-> Phone(b), unchecked |-> TRUE,
                             role |-> b.role, life |-> "live"])
     /\ UNCHANGED Others

CreateBroker(w) ==
  \/ \E b \in staffScope.bodies :
       /\ StaffStarts(w, "createBroker")
       /\ "email" \in DOMAIN b /\ "role" \notin DOMAIN b
       /\ ~ EmailConflict(b.email, None)
       /\ ReadsStaff(w, StaffTask("createBroker", "phone", None, b))
  \/ /\ StaffAt(w, "createBroker", "phone")
     /\ LET phone == Phone(staffing[w].body) IN phone # None => ~ PhoneConflict(phone, None)
     /\ ReadsStaff(w, [staffing[w] EXCEPT !.step = "requests"])
  \/ /\ StaffAt(w, "createBroker", "requests")
     /\ ReadsStaff(w, [staffing[w] EXCEPT !.step = "write",
                         !.requests = MatchingBrokerRequests([email |-> staffing[w].body.email,
                                                              phone |-> Phone(staffing[w].body)])])
  \/ /\ StaffAt(w, "createBroker", "write")
     /\ LET b == staffing[w].body
        IN  InsertPerson(w, [email |-> b.email, phone |-> Phone(b), unchecked |-> FALSE,
                             role |-> "broker", life |-> "live"])
     /\ brokerRequest' = [r \in BrokerRequests |->
                            IF r \in staffing[w].requests /\ IsLive(brokerRequest[r])
                            THEN SetLife(brokerRequest[r], "deleted") ELSE brokerRequest[r]]
     /\ UNCHANGED sessions

-----------------------------------------------------------------------------
(* Updating: by id, whatever became of the row since it was read *)

SetPerson(row, sent) ==
  IF Exists(row) THEN [f \in DOMAIN row |-> IF f \in DOMAIN sent THEN sent[f] ELSE row[f]] ELSE row

UpdateStaff(w) ==
  \/ \E p \in PersonIds, b \in staffScope.bodies :
       /\ StaffStarts(w, "update")
       /\ FindsUser(p)
       /\ "email" \in DOMAIN b /\ b.email # person[p].email => ~ EmailConflict(b.email, p)
       /\ ReadsStaff(w, StaffTask("update", "write", p, b))
  \/ /\ StaffAt(w, "update", "write")
     /\ LET b == staffing[w].body
            sent == IF "phone" \in DOMAIN b
                    THEN [f \in DOMAIN b \cup {"unchecked"} |-> IF f = "unchecked" THEN TRUE ELSE b[f]]
                    ELSE b
        IN  WritesPeople(w, [person EXCEPT ![staffing[w].id] = SetPerson(@, sent)])
     /\ UNCHANGED <<password, sessions, brokerRequest>>

\* A phone number the row had when it was read is not checked again.
UpdateBroker(w) ==
  \/ \E p \in PersonIds, b \in staffScope.bodies :
       /\ StaffStarts(w, "updateBroker")
       /\ FindsUser(p) /\ IsBroker(p) /\ "role" \notin DOMAIN b
       /\ "email" \in DOMAIN b /\ b.email # person[p].email => ~ EmailConflict(b.email, p)
       /\ ReadsStaff(w, StaffTask("updateBroker", "phone", p, b))
  \/ /\ StaffAt(w, "updateBroker", "phone")
     /\ LET phone == Phone(staffing[w].body)
        IN  phone # None /\ phone # staffing[w].row.phone => ~ PhoneConflict(phone, staffing[w].id)
     /\ ReadsStaff(w, [staffing[w] EXCEPT !.step = "write"])
  \/ /\ StaffAt(w, "updateBroker", "write")
     /\ LET b == staffing[w].body
            row == staffing[w].row
            sent == [f \in DOMAIN b \cup {"role", "unchecked"} |->
                       CASE f = "role" -> "broker"
                         [] f = "unchecked" ->
                              IF "phone" \in DOMAIN b THEN row.unchecked /\ b.phone = row.phone
                              ELSE person[staffing[w].id].unchecked
                         [] OTHER -> b[f]]
        IN  WritesPeople(w, [person EXCEPT ![staffing[w].id] = SetPerson(@, sent)])
     /\ UNCHANGED <<password, sessions, brokerRequest>>

-----------------------------------------------------------------------------
(* Removing *)

\* One of the two routers finds brokers only.
OfRouter(op, p) == op \in BrokersOps => IsBroker(p)

\* remove
RemovePerson(w, op) ==
  \/ \E p \in PersonIds :
       /\ StaffStarts(w, op)
       /\ FindsUser(p) /\ OfRouter(op, p)
       /\ ReadsStaff(w, StaffTask(op, "write", p, None))
  \/ /\ StaffAt(w, op, "write")
     /\ WritesPeople(w, [person EXCEPT ![staffing[w].id] = SetLife(@, "deleted")])
     /\ UNCHANGED <<password, sessions, brokerRequest>>

DeletePerson_KeepsSessions(p) ==
  /\ password' = [password EXCEPT ![p] = None]
  /\ UNCHANGED sessions

\* The foreign keys of account and session.
DeletePerson(p) ==
  /\ password' = [password EXCEPT ![p] = None]
  /\ sessions' = [sessions EXCEPT ![p] = {}]

\* removePermanently; the pictures are deleted afterwards.
PurgePerson(w, op) ==
  \/ \E p \in PersonIds :
       /\ StaffStarts(w, op)
       /\ FindsUserDeleted(p) /\ OfRouter(op, p)
       /\ ReadsStaff(w, StaffTask(op, "write", p, None))
  \/ /\ StaffAt(w, op, "write")
     /\ WritesPeople(w, [person EXCEPT ![staffing[w].id] = SetLife(@, "gone")])
     /\ DeletePerson(staffing[w].id)
     /\ UNCHANGED brokerRequest

RemoveStaff(w) == RemovePerson(w, "remove") \/ PurgePerson(w, "purge")
RemoveBroker(w) == RemovePerson(w, "removeBroker") \/ PurgePerson(w, "purgeBroker")

-----------------------------------------------------------------------------
(* Credentials and sessions *)

\* resendCredentials: the first password again, which the account's id encodes.
ResendCredentials(w, op) ==
  \/ \E p \in PersonIds :
       /\ StaffStarts(w, op)
       /\ FindsUser(p) /\ OfRouter(op, p)
       /\ ReadsStaff(w, StaffTask(op, "account", p, None))
  \/ /\ StaffAt(w, op, "account")
     /\ password[staffing[w].id] # None
     /\ ReadsStaff(w, [staffing[w] EXCEPT !.step = "write"])
  \/ /\ StaffAt(w, op, "write")
     /\ password' = [password EXCEPT ![staffing[w].id] = IF @ = None THEN None ELSE "first"]
     /\ Staffing(w, None)
     /\ UNCHANGED <<person, sessions, brokerRequest, raced, promoted>>

ResendToStaff(w) == ResendCredentials(w, "resend") \/ ResendCredentials(w, "resendBroker")

\* revokeSession, revokeAllSessions
Revoke(w) ==
  \/ \E p \in PersonIds, op \in {"revoke", "revokeAll"} :
       /\ StaffStarts(w, op)
       /\ FindsUser(p) /\ IsBroker(p)
       /\ ReadsStaff(w, StaffTask(op, "write", p, None))
  \/ \E op \in {"revoke", "revokeAll"} :
       /\ StaffAt(w, op, "write")
       /\ \E token \in sessions[staffing[w].id] :
            sessions' = [sessions EXCEPT ![staffing[w].id] = IF op = "revoke" THEN @ \ {token} ELSE {}]
       /\ Staffing(w, None)
       /\ UNCHANGED <<person, password, brokerRequest, raced, promoted>>

\* Outside of these routers: someone signs in, or changes their password.
StaffSignIn(p) ==
  /\ "signIn" \in staffScope.calls /\ password[p] # None
  /\ \E token \in StaffTokens \ UNION {sessions[q] : q \in PersonIds} :
       sessions' = [sessions EXCEPT ![p] = @ \cup {token}]
  /\ UNCHANGED <<person, password, brokerRequest, staffing, raced, promoted, staffScope>>

ChangePassword(p) ==
  /\ "changePassword" \in staffScope.calls /\ sessions[p] # {}
  /\ password' = [password EXCEPT ![p] = "changed"]
  /\ UNCHANGED <<person, sessions, brokerRequest, staffing, raced, promoted, staffScope>>

-----------------------------------------------------------------------------
(* Broker requests *)

WritesRequests(w, table) ==
  /\ brokerRequest' = table
  /\ Staffing(w, None)
  /\ UNCHANGED <<person, password, sessions, raced, promoted>>

SubmitRequest(w) ==
  \E r \in NextKeys(brokerRequest, BrokerRequests), b \in staffScope.bodies :
    /\ StaffStarts(w, "submit")
    /\ {"email", "phone"} \subseteq DOMAIN b /\ b.phone # None
    /\ WritesRequests(w, [brokerRequest EXCEPT ![r] = [email |-> b.email, phone |-> b.phone, life |-> "live"]])

ReadsRequest(w, op, r) ==
  /\ StaffStarts(w, op)
  /\ ReadsStaff(w, [StaffTask(op, "write", None, None) EXCEPT !.requests = {r}])

WritesLife(w, op, life) ==
  /\ StaffAt(w, op, "write")
  /\ WritesRequests(w, [r \in BrokerRequests |->
       IF r \in staffing[w].requests THEN SetLife(brokerRequest[r], life) ELSE brokerRequest[r]])

\* remove, restore, removePermanently
EditRequest(w) ==
  \/ \E r \in BrokerRequests :
       \/ IsLive(brokerRequest[r]) /\ ReadsRequest(w, "removeRequest", r)
       \/ IsDeleted(brokerRequest[r]) /\ ReadsRequest(w, "restoreRequest", r)
       \/ Exists(brokerRequest[r]) /\ ReadsRequest(w, "purgeRequest", r)
  \/ WritesLife(w, "removeRequest", "deleted")
  \/ WritesLife(w, "restoreRequest", "live")
  \/ WritesLife(w, "purgeRequest", "gone")

\* A statement fails: the e-mail address is taken, most often.
AbandonStaff(w) == staffing[w] # None /\ ReadsStaff(w, None)

-----------------------------------------------------------------------------
StaffInit ==
  /\ person = [p \in PersonIds |-> None]
  /\ password = [p \in PersonIds |-> None]
  /\ sessions = [p \in PersonIds |-> {}]
  /\ brokerRequest = [r \in BrokerRequests |-> None]
  /\ staffing = [w \in Workers |-> None]
  /\ raced = {} /\ promoted = {}
  /\ staffScope \in StaffScopes

StaffNext ==
  \/ \E w \in Workers :
       \/ CreateStaff(w) \/ CreateBroker(w)
       \/ UpdateStaff(w) \/ UpdateBroker(w)
       \/ RemoveStaff(w) \/ RemoveBroker(w)
       \/ ResendToStaff(w) \/ Revoke(w)
       \/ SubmitRequest(w) \/ EditRequest(w)
       \/ AbandonStaff(w)
  \/ \E p \in PersonIds : StaffSignIn(p) \/ ChangePassword(p)

StaffSpec == StaffInit /\ [][StaffNext]_staffVars

-----------------------------------------------------------------------------
(* Properties *)

\* The tables have their types; who exists has an account, made in the same
\* transaction, and nobody else has an account or a session.
StaffTypeOK ==
  /\ person \in [PersonIds -> {None} \cup PersonData]
  /\ brokerRequest \in [BrokerRequests -> {None} \cup RequestData]
  /\ raced \subseteq Phones /\ promoted \subseteq PersonIds
  /\ \A p \in PersonIds :
       IF Exists(person[p]) THEN password[p] \in {"first", "changed"} /\ sessions[p] \subseteq StaffTokens
       ELSE password[p] = None /\ sessions[p] = {}

\* "User with this phone number already exists": two users have one phone number
\* only if the router that does not check it gave it to one of them, or if two
\* handlers had both found it free.
PhonesDiffer ==
  \A p, q \in PersonIds :
    /\ p # q /\ Exists(person[p]) /\ Exists(person[q])
    /\ person[p].phone # None /\ person[p].phone = person[q].phone
    => person[p].unchecked \/ person[q].unchecked \/ person[p].phone \in raced

\* The brokers' router writes a user who is no broker only if that user stopped
\* being one after it was read.
BrokersOnly ==
  [][\A w \in Workers, p \in PersonIds :
       /\ staffing[w] # None /\ staffing[w].op \in BrokersOps /\ staffing[w].id = p
       /\ staffing'[w] = None
       /\ \/ person'[p] # person[p]
          \/ password'[p] # password[p]
          \/ sessions'[p] # sessions[p]
       => person[p].role = "broker" \/ p \in promoted]_staffVars

=============================================================================
