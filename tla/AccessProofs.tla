---------------------------- MODULE AccessProofs ----------------------------
(****************************************************************************)
(* Proofs about who may sign in and what they may do: Staff, the accounts of *)
(* platform users and brokers, and Roles, the grants of a company's roles, for any*)
(* number of accounts, companies, roles, resources and handlers.  A check may be*)
(* outdated when its handler writes: the invariants say of every handler what is*)
(* still true of what it has read.                                           *)
(****************************************************************************)
EXTENDS Staff, Roles, FiniteSetTheorems, TLAPS

-----------------------------------------------------------------------------
(*** Staff ***)

\* What a handler may keep.
StaffTasks ==
  [op : StaffCalls, step : {"write", "phone", "requests", "account"}, id : PersonIds \cup {None},
   body : StaffBodies \cup {None}, row : PersonData \cup {None}, requests : SUBSET BrokerRequests]

\* The tables as StaffTypeOK types them, and what every handler keeps.
Tabled ==
  /\ person \in [PersonIds -> {None} \cup PersonData]
  /\ brokerRequest \in [BrokerRequests -> {None} \cup RequestData]
  /\ staffing \in [Workers -> {None} \cup StaffTasks]
  /\ raced \subseteq Phones /\ promoted \subseteq PersonIds
  /\ staffScope \in StaffScopes

\* Who exists has an account, nobody else has one or a session.
Accounts ==
  /\ DOMAIN password = PersonIds /\ password = [p \in PersonIds |-> password[p]]
  /\ DOMAIN sessions = PersonIds /\ sessions = [p \in PersonIds |-> sessions[p]]
  /\ \A p \in PersonIds :
       IF Exists(person[p]) THEN password[p] \in {"first", "changed"} /\ sessions[p] \subseteq StaffTokens
       ELSE password[p] = None /\ sessions[p] = {}

\* The calls that read a user first.
OfUser == {"update", "remove", "purge", "resend", "revoke", "revokeAll", "updateBroker", "removeBroker",
           "purgeBroker", "resendBroker"}

\* What a handler has read of the accounts it writes.
Refers(t) ==
  /\ t.op \in OfUser => t.id \in PersonIds /\ person[t.id] # None
  /\ t.op \in {"create", "createBroker", "update", "updateBroker"} => t.body \in StaffBodies
  /\ t.op = "create" => {"email", "role"} \subseteq DOMAIN t.body
  /\ t.op = "createBroker" => t.id = None /\ "email" \in DOMAIN t.body
  /\ t.op = "updateBroker" => t.row \in PersonData /\ "role" \notin DOMAIN t.body

\* Whom the brokers' router has read is a broker, or stopped being one since.
ReadBroker(t) ==
  t.op \in BrokersOps \cap OfUser => person[t.id].role = "broker" \/ t.id \in promoted

\* Who has the phone number of a body that was checked, got it after the check; who
\* has the one that a row had when it was read, had it already or got it since.
ReadPhone(t) ==
  \A q \in PersonIds :
    /\ t.body # None /\ Exists(person[q])
    /\ Phone(t.body) # None /\ person[q].phone = Phone(t.body)
    => /\ t.op = "createBroker" /\ t.step \in {"requests", "write"} => Phone(t.body) \in raced
       /\ t.op = "updateBroker" /\ q # t.id /\ Phone(t.body) = t.row.phone =>
            t.row.unchecked \/ person[q].unchecked \/ Phone(t.body) \in raced
       /\ t.op = "updateBroker" /\ q # t.id /\ Phone(t.body) # t.row.phone /\ t.step = "write" =>
            Phone(t.body) \in raced

ReadsHold == \A w \in Workers : staffing[w] # None =>
  Refers(staffing[w]) /\ ReadBroker(staffing[w]) /\ ReadPhone(staffing[w])

\* The inductive invariant of Staff.
StaffInv == Tabled /\ Accounts /\ ReadsHold /\ PhonesDiffer

-----------------------------------------------------------------------------
(* What steps do to the invariant *)

\* A read: what a handler keeps after it must be true now.
LEMMA ReadKeepsInv ==
  ASSUME StaffInv, NEW w \in Workers, NEW t \in {None} \cup StaffTasks, ReadsStaff(w, t),
         t # None => Refers(t) /\ ReadBroker(t) /\ ReadPhone(t)
  PROVE  StaffInv'
<1>1. /\ staffing' = [staffing EXCEPT ![w] = t]
      /\ UNCHANGED <<person, password, sessions, brokerRequest, raced, promoted, staffScope>>
  BY DEF ReadsStaff, Staffing
<1>2. staffing'[w] = t /\ \A v \in Workers \ {w} : staffing'[v] = staffing[v]
  BY <1>1 DEF StaffInv, Tabled
<1>3. Tabled'
  BY <1>1 DEF StaffInv, Tabled
<1>4. Accounts'
  BY <1>1 DEF StaffInv, Accounts
<1>5. ASSUME NEW v \in Workers, staffing'[v] # None
      PROVE  Refers(staffing[v])' /\ ReadBroker(staffing[v])' /\ ReadPhone(staffing[v])'
  <2>1. Refers(staffing'[v]) /\ ReadBroker(staffing'[v]) /\ ReadPhone(staffing'[v])
    BY <1>2, <1>5 DEF StaffInv, ReadsHold
  <2> QED BY <1>1, <2>1 DEF Refers, ReadBroker, ReadPhone
<1>6. PhonesDiffer'
  BY <1>1 DEF StaffInv, PhonesDiffer
<1> QED BY <1>3, <1>4, <1>5, <1>6 DEF StaffInv, ReadsHold

\* Accounts, sessions or requests are written, and users are not.
LEMMA OthersKeepInv ==
  ASSUME StaffInv, person' = person, raced' = raced, promoted' = promoted, staffScope' = staffScope,
         brokerRequest' \in [BrokerRequests -> {None} \cup RequestData], Accounts',
         staffing' \in [Workers -> {None} \cup StaffTasks],
         \A v \in Workers : staffing'[v] = staffing[v] \/ staffing'[v] = None
  PROVE  StaffInv'
<1>1. Tabled'
  BY DEF StaffInv, Tabled
<1>2. ASSUME NEW v \in Workers, staffing'[v] # None
      PROVE  Refers(staffing[v])' /\ ReadBroker(staffing[v])' /\ ReadPhone(staffing[v])'
  <2>1. Refers(staffing'[v]) /\ ReadBroker(staffing'[v]) /\ ReadPhone(staffing'[v])
    BY <1>2 DEF StaffInv, ReadsHold
  <2> QED BY <2>1 DEF Refers, ReadBroker, ReadPhone
<1>3. PhonesDiffer'
  BY DEF StaffInv, PhonesDiffer
<1> QED BY <1>1, <1>2, <1>3 DEF StaffInv, ReadsHold

\* A user is written: with a phone number that nobody has, that nobody has checked,
\* or that another handler is writing as well.
LEMMA PersonKeepsInv ==
  ASSUME StaffInv, NEW w \in Workers, NEW p \in PersonIds, NEW row \in PersonData,
         WritesPeople(w, [person EXCEPT ![p] = row]),
         brokerRequest' \in [BrokerRequests -> {None} \cup RequestData], Accounts',
         \A q \in PersonIds \ {p} :
           Exists(row) /\ Exists(person[q]) /\ row.phone # None /\ row.phone = person[q].phone =>
             row.unchecked \/ person[q].unchecked \/ row.phone \in raced
  PROVE  StaffInv'
<1> DEFINE table == [person EXCEPT ![p] = row]
<1>1. /\ person' = table /\ staffing' = [staffing EXCEPT ![w] = None] /\ staffScope' = staffScope
      /\ raced \subseteq raced' /\ promoted \subseteq promoted'
  BY DEF WritesPeople, Staffing
<1>2. staffing'[w] = None /\ \A v \in Workers \ {w} : staffing'[v] = staffing[v]
  BY <1>1 DEF StaffInv, Tabled
<1>3. /\ table \in [PersonIds -> {None} \cup PersonData] /\ table[p] = row /\ row # None
      /\ \A q \in PersonIds \ {p} : table[q] = person[q]
  BY StaffAssumption DEF StaffInv, Tabled
<1>4. \A v \in Workers \ {w} :
        /\ staffing[v] # None /\ staffing[v].body # None /\ Phone(staffing[v].body) # None
        /\ row # person[p] /\ row.phone = Phone(staffing[v].body)
        => Phone(staffing[v].body) \in raced'
  BY <1>3 DEF WritesPeople
<1>5. \A v \in Workers \ {w} :
        /\ staffing[v] # None /\ staffing[v].op \in BrokersOps /\ staffing[v].id = p
        /\ person[p] # None /\ person[p].role = "broker" /\ row.role # "broker"
        => p \in promoted'
  BY <1>3 DEF WritesPeople
<1>6. raced' \subseteq Phones /\ promoted' \subseteq PersonIds
  <2>1. \A v \in Workers : staffing[v] # None /\ staffing[v].body # None => staffing[v].body \in StaffBodies
    BY DEF StaffInv, Tabled, StaffTasks
  <2>2. \A b \in StaffBodies : Phone(b) \in Phones \cup {None}
    BY StaffAssumption DEF Phone
  <2> QED BY <2>1, <2>2 DEF WritesPeople, StaffInv, Tabled
<1> HIDE DEF table
<1>7. Tabled'
  BY <1>1, <1>3, <1>6 DEF StaffInv, Tabled
<1>8. ASSUME NEW v \in Workers, staffing'[v] # None
      PROVE  Refers(staffing[v])' /\ ReadBroker(staffing[v])' /\ ReadPhone(staffing[v])'
  <2>1. v # w /\ staffing'[v] = staffing[v] /\ staffing[v] # None
    BY <1>2, <1>8
  <2>2. Refers(staffing[v]) /\ ReadBroker(staffing[v]) /\ ReadPhone(staffing[v])
    BY <2>1 DEF StaffInv, ReadsHold
  <2>3. Refers(staffing[v])'
    BY <1>1, <1>3, <2>1, <2>2 DEF Refers
  <2>4. ReadBroker(staffing[v])'
    BY <1>1, <1>3, <1>5, <2>1, <2>2 DEF Refers, ReadBroker
  <2>5. ReadPhone(staffing[v])'
    BY <1>1, <1>3, <1>4, <2>1, <2>2 DEF ReadPhone
  <2> QED BY <2>3, <2>4, <2>5
<1>9. PhonesDiffer'
  BY <1>1, <1>3 DEF StaffInv, PhonesDiffer
<1> QED BY <1>7, <1>8, <1>9 DEF StaffInv, ReadsHold

-----------------------------------------------------------------------------
(* Tasks *)

\* What a handler is given.
LEMMA BodyGiven ==
  ASSUME StaffInv, NEW b \in staffScope.bodies
  PROVE  b \in StaffBodies /\ b # None /\ Phone(b) \in Phones \cup {None}
BY StaffAssumption DEF StaffInv, Tabled, Phone

\* A task of a handler is one of StaffTasks, and what it has read holds.
LEMMA TaskKept ==
  ASSUME StaffInv, NEW w \in Workers, staffing[w] # None
  PROVE  /\ staffing[w] \in StaffTasks
         /\ Refers(staffing[w]) /\ ReadBroker(staffing[w]) /\ ReadPhone(staffing[w])
BY DEF StaffInv, Tabled, ReadsHold

\* A task that has read nothing yet of users.
LEMMA TaskFields ==
  ASSUME NEW op \in StaffCalls, NEW step \in {"write", "phone", "requests", "account"},
         NEW body \in StaffBodies \cup {None}
  PROVE  LET t == StaffTask(op, step, None, body)
         IN  t \in StaffTasks /\ t.op = op /\ t.step = step /\ t.body = body /\ t.id = None
BY DEF StaffTask, StaffTasks

\* A task that has read a user.
LEMMA UserTask ==
  ASSUME StaffInv, NEW p \in PersonIds, person[p] # None,
         NEW op \in OfUser, NEW step \in {"write", "phone", "account"}, NEW body \in StaffBodies \cup {None},
         op \in {"update", "updateBroker"} => body \in StaffBodies,
         op = "updateBroker" => step = "phone" /\ "role" \notin DOMAIN body /\ Exists(person[p]),
         op \in BrokersOps => IsBroker(p)
  PROVE  LET t == StaffTask(op, step, p, body)
         IN  t \in StaffTasks /\ Refers(t) /\ ReadBroker(t) /\ ReadPhone(t)
<1> DEFINE t == StaffTask(op, step, p, body)
<1>1. person[p] \in PersonData
  BY DEF StaffInv, Tabled
<1>2. p # None
  BY StaffAssumption
<1>3. op \in StaffCalls
  BY DEF OfUser, StaffCalls
<1>4. /\ t \in StaffTasks /\ t.op = op /\ t.step = step /\ t.id = p /\ t.body = body
      /\ t.row = person[p]
  BY <1>1, <1>2, <1>3 DEF StaffTask, StaffTasks
<1> HIDE DEF t
<1>5. Refers(t)
  BY <1>1, <1>4 DEF Refers, OfUser
<1>6. ReadBroker(t)
  BY <1>4 DEF ReadBroker, IsBroker
<1>7. ReadPhone(t)
  <2> SUFFICES ASSUME NEW q \in PersonIds, Exists(person[q]), q # p, op = "updateBroker",
                      Phone(body) # None, person[q].phone = Phone(body), Phone(body) = person[p].phone
               PROVE  person[p].unchecked \/ person[q].unchecked \/ Phone(body) \in raced
    BY <1>4 DEF ReadPhone, OfUser
  <2> QED BY DEF StaffInv, PhonesDiffer
<1> QED BY <1>4, <1>5, <1>6, <1>7 DEF t

\* Requests whose lives are written keep their types.
LEMMA RequestsTyped ==
  ASSUME StaffInv, NEW life \in Lives, NEW row \in RequestData \cup {None}
  PROVE  SetLife(row, life) \in RequestData \cup {None}
BY StaffAssumption DEF SetLife, Exists, IsLive, IsDeleted, RequestData

-----------------------------------------------------------------------------
(* Creating *)

\* A user who is inserted has an account from then on.
LEMMA InsertKeepsInv ==
  ASSUME StaffInv, NEW w \in Workers, NEW row \in PersonData, InsertPerson(w, row), sessions' = sessions,
         brokerRequest' \in [BrokerRequests -> {None} \cup RequestData], row.life = "live",
         \A q \in PersonIds :
           Exists(person[q]) /\ row.phone # None /\ row.phone = person[q].phone => row.unchecked \/ row.phone \in raced
  PROVE  StaffInv'
<1>1. PICK p \in NextKeys(person, PersonIds) :
        WritesPeople(w, [person EXCEPT ![p] = row]) /\ password' = [password EXCEPT ![p] = "first"]
  BY DEF InsertPerson
<1>2. p \in PersonIds /\ person[p] = None
  BY DEF NextKeys
<1>3. person' = [person EXCEPT ![p] = row]
  BY <1>1 DEF WritesPeople
<1>4. ~ Exists(person[p]) /\ Exists(row)
  BY <1>2, StaffAssumption DEF Exists, IsLive, IsDeleted
<1>5. person'[p] = row /\ \A q \in PersonIds \ {p} : person'[q] = person[q]
  BY <1>2, <1>3 DEF StaffInv, Tabled
<1>6. Accounts'
  BY <1>1, <1>2, <1>4, <1>5 DEF StaffInv, Accounts
<1> QED BY <1>1, <1>2, <1>6, PersonKeepsInv

\* The actions of Staff, one at a time.
LEMMA CreateStaffKeeps == ASSUME StaffInv, NEW w \in Workers, CreateStaff(w) PROVE StaffInv'
<1>1. ASSUME NEW b \in staffScope.bodies, {"email", "role"} \subseteq DOMAIN b,
             ReadsStaff(w, StaffTask("create", "write", None, b))
      PROVE  StaffInv'
  <2> DEFINE t == StaffTask("create", "write", None, b)
  <2>1. b \in StaffBodies
    BY BodyGiven
  <2>2. t \in StaffTasks /\ t.op = "create" /\ t.body = b
    BY <2>1, TaskFields DEF StaffCalls
  <2>3. ReadsStaff(w, t)
    BY <1>1
  <2> HIDE DEF t
  <2>4. Refers(t) /\ ReadBroker(t) /\ ReadPhone(t)
    BY <1>1, <2>1, <2>2 DEF Refers, ReadBroker, ReadPhone, OfUser, BrokersOps
  <2> QED BY <2>2, <2>3, <2>4, ReadKeepsInv
<1>2. ASSUME StaffAt(w, "create", "write"),
             LET b == staffing[w].body
             IN  InsertPerson(w, [email |-> b.email, phone |-> Phone(b), unchecked |-> TRUE,
                                  role |-> b.role, life |-> "live"]),
             UNCHANGED Others
      PROVE  StaffInv'
  <2> DEFINE b == staffing[w].body
             row == [email |-> b.email, phone |-> Phone(b), unchecked |-> TRUE, role |-> b.role, life |-> "live"]
  <2>1. b \in StaffBodies /\ {"email", "role"} \subseteq DOMAIN b
    BY <1>2, TaskKept DEF StaffAt, Refers
  <2>2. b.email \in Emails /\ b.role \in {"admin", "broker"} /\ Phone(b) \in Phones \cup {None}
    BY <2>1, StaffAssumption DEF Phone
  <2>3. row \in PersonData /\ row.unchecked /\ row.life = "live"
    BY <2>2 DEF PersonData, Lives
  <2>4. InsertPerson(w, row) /\ sessions' = sessions /\ brokerRequest' \in [BrokerRequests -> {None} \cup RequestData]
    BY <1>2 DEF Others, StaffInv, Tabled
  <2> HIDE DEF row
  <2> QED BY <2>3, <2>4, InsertKeepsInv
<1> QED BY <1>1, <1>2 DEF CreateStaff

\* A later step of a handler that creates a broker.
LEMMA BrokerStep ==
  ASSUME StaffInv, NEW w \in Workers, staffing[w] # None, staffing[w].op = "createBroker",
         NEW step \in {"requests", "write"}, NEW found \in SUBSET BrokerRequests,
         NEW t, t = [staffing[w] EXCEPT !.step = step, !.requests = found], ReadsStaff(w, t),
         \/ staffing[w].step \in {"requests", "write"}
         \/ Phone(staffing[w].body) # None => ~ PhoneConflict(Phone(staffing[w].body), None)
  PROVE  StaffInv'
<1>1. staffing[w] \in StaffTasks /\ Refers(staffing[w]) /\ ReadPhone(staffing[w])
  BY TaskKept
<1>2. /\ t \in StaffTasks /\ t.op = "createBroker" /\ t.step = step /\ t.body = staffing[w].body
      /\ t.id = staffing[w].id
  BY <1>1 DEF StaffTasks
<1>3. Refers(t) /\ ReadBroker(t)
  BY <1>1, <1>2 DEF Refers, ReadBroker, OfUser
<1>4. ReadPhone(t)
  BY <1>1, <1>2, StaffAssumption DEF ReadPhone, PhoneConflict
<1> QED BY <1>2, <1>3, <1>4, ReadKeepsInv

LEMMA CreateBrokerKeeps == ASSUME StaffInv, NEW w \in Workers, CreateBroker(w) PROVE StaffInv'
<1>1. ASSUME NEW b \in staffScope.bodies, "email" \in DOMAIN b,
             ReadsStaff(w, StaffTask("createBroker", "phone", None, b))
      PROVE  StaffInv'
  <2> DEFINE t == StaffTask("createBroker", "phone", None, b)
  <2>1. b \in StaffBodies
    BY BodyGiven
  <2>2. t \in StaffTasks /\ t.op = "createBroker" /\ t.body = b /\ t.step = "phone" /\ t.id = None
    BY <2>1, TaskFields DEF StaffCalls
  <2>3. ReadsStaff(w, t)
    BY <1>1
  <2> HIDE DEF t
  <2>4. Refers(t) /\ ReadBroker(t) /\ ReadPhone(t)
    BY <1>1, <2>1, <2>2 DEF Refers, ReadBroker, ReadPhone, OfUser, BrokersOps
  <2> QED BY <2>2, <2>3, <2>4, ReadKeepsInv
<1>2. ASSUME StaffAt(w, "createBroker", "phone"),
             LET phone == Phone(staffing[w].body) IN phone # None => ~ PhoneConflict(phone, None),
             ReadsStaff(w, [staffing[w] EXCEPT !.step = "requests"])
      PROVE  StaffInv'
  <2>1. staffing[w] \in StaffTasks
    BY <1>2, TaskKept DEF StaffAt
  <2>2. [staffing[w] EXCEPT !.step = "requests"] =
          [staffing[w] EXCEPT !.step = "requests", !.requests = staffing[w].requests]
    BY <2>1 DEF StaffTasks
  <2>3. staffing[w].requests \in SUBSET BrokerRequests
    BY <2>1 DEF StaffTasks
  <2> QED BY <1>2, <2>2, <2>3, BrokerStep DEF StaffAt
<1>3. ASSUME StaffAt(w, "createBroker", "requests"), NEW found,
             found = MatchingBrokerRequests([email |-> staffing[w].body.email, phone |-> Phone(staffing[w].body)]),
             ReadsStaff(w, [staffing[w] EXCEPT !.step = "write", !.requests = found])
      PROVE  StaffInv'
  <2>1. found \in SUBSET BrokerRequests
    BY <1>3 DEF MatchingBrokerRequests
  <2> QED BY <1>3, <2>1, BrokerStep DEF StaffAt
<1>4. ASSUME StaffAt(w, "createBroker", "write"),
             LET b == staffing[w].body
             IN  InsertPerson(w, [email |-> b.email, phone |-> Phone(b), unchecked |-> FALSE,
                                  role |-> "broker", life |-> "live"]),
             brokerRequest' = [r \in BrokerRequests |->
                                 IF r \in staffing[w].requests /\ IsLive(brokerRequest[r])
                                 THEN SetLife(brokerRequest[r], "deleted") ELSE brokerRequest[r]],
             sessions' = sessions
      PROVE  StaffInv'
  <2> DEFINE b == staffing[w].body
             row == [email |-> b.email, phone |-> Phone(b), unchecked |-> FALSE, role |-> "broker", life |-> "live"]
  <2>1. b \in StaffBodies /\ "email" \in DOMAIN b /\ b # None /\ ReadPhone(staffing[w])
    BY <1>4, TaskKept, StaffAssumption DEF StaffAt, Refers
  <2>2. b.email \in Emails /\ Phone(b) \in Phones \cup {None}
    BY <2>1, StaffAssumption DEF Phone
  <2>3. row \in PersonData /\ row.life = "live" /\ row.phone = Phone(b)
    BY <2>2 DEF PersonData, Lives
  <2>4. InsertPerson(w, row)
    BY <1>4
  <2>5. \A q \in PersonIds : Exists(person[q]) /\ row.phone # None /\ row.phone = person[q].phone => row.phone \in raced
    BY <1>4, <2>1, <2>3 DEF ReadPhone, StaffAt
  <2>6. brokerRequest' \in [BrokerRequests -> {None} \cup RequestData]
    BY <1>4, RequestsTyped DEF StaffInv, Tabled, Lives
  <2> HIDE DEF row
  <2> QED BY <1>4, <2>3, <2>4, <2>5, <2>6, InsertKeepsInv
<1> QED BY <1>1, <1>2, <1>3, <1>4 DEF CreateBroker

-----------------------------------------------------------------------------
(* Updating and removing *)

\* A user whose life does not change keeps the account.
LEMMA RowKeepsAccounts ==
  ASSUME StaffInv, NEW p \in PersonIds, NEW row \in PersonData, person' = [person EXCEPT ![p] = row],
         Exists(row) <=> Exists(person[p]), UNCHANGED <<password, sessions>>
  PROVE  Accounts'
<1>1. person'[p] = row /\ \A q \in PersonIds \ {p} : person'[q] = person[q]
  BY DEF StaffInv, Tabled
<1>2. \A q \in PersonIds : Exists(person'[q]) <=> Exists(person[q])
  BY <1>1
<1> QED BY <1>2 DEF StaffInv, Accounts

\* A row is what the columns that are sent make of it.
LEMMA SetPersonRow ==
  ASSUME NEW old \in PersonData, NEW sent,
         DOMAIN sent \subseteq {"email", "phone", "role", "unchecked"},
         "email" \in DOMAIN sent => sent["email"] \in Emails,
         "phone" \in DOMAIN sent => sent["phone"] \in Phones \cup {None},
         "role" \in DOMAIN sent => sent["role"] \in {"admin", "broker"},
         "unchecked" \in DOMAIN sent => sent["unchecked"] \in BOOLEAN
  PROVE  /\ SetPerson(old, sent) \in PersonData
         /\ SetPerson(old, sent).life = old.life
         /\ ~ Exists(old) => SetPerson(old, sent) = old
         /\ Exists(old) /\ "phone" \in DOMAIN sent => SetPerson(old, sent).phone = sent["phone"]
         /\ "phone" \notin DOMAIN sent => SetPerson(old, sent).phone = old.phone
         /\ Exists(old) /\ "unchecked" \in DOMAIN sent => SetPerson(old, sent).unchecked = sent["unchecked"]
         /\ "unchecked" \notin DOMAIN sent => SetPerson(old, sent).unchecked = old.unchecked
<1> DEFINE row == [f \in DOMAIN old |-> IF f \in DOMAIN sent THEN sent[f] ELSE old[f]]
<1>1. DOMAIN old = {"email", "phone", "unchecked", "role", "life"}
  BY DEF PersonData
<1>2. /\ row.email = IF "email" \in DOMAIN sent THEN sent["email"] ELSE old.email
      /\ row.phone = IF "phone" \in DOMAIN sent THEN sent["phone"] ELSE old.phone
      /\ row.role = IF "role" \in DOMAIN sent THEN sent["role"] ELSE old.role
      /\ row.unchecked = IF "unchecked" \in DOMAIN sent THEN sent["unchecked"] ELSE old.unchecked
      /\ row.life = old.life
  BY <1>1
<1>3. row = [email |-> row.email, phone |-> row.phone, unchecked |-> row.unchecked, role |-> row.role,
             life |-> row.life]
  BY <1>1
<1>4. /\ row.email \in Emails /\ row.phone \in Phones \cup {None} /\ row.role \in {"admin", "broker"}
      /\ row.life \in Lives
  BY <1>2 DEF PersonData
<1>5. row.unchecked \in BOOLEAN
  BY <1>2 DEF PersonData
<1>6. SetPerson(old, sent) = IF Exists(old) THEN row ELSE old
  BY DEF SetPerson
<1> HIDE DEF row
<1>7. row \in PersonData
  BY <1>3, <1>4, <1>5 DEF PersonData
<1> QED BY <1>2, <1>6, <1>7

\* An update by id: the account stays, and the phone number is as PersonKeepsInv asks.
LEMMA SetKeepsInv ==
  ASSUME StaffInv, NEW w \in Workers, NEW p \in PersonIds, person[p] # None, NEW row \in PersonData,
         row.life = person[p].life, ~ Exists(person[p]) => row = person[p],
         WritesPeople(w, [person EXCEPT ![p] = row]), UNCHANGED <<password, sessions, brokerRequest>>,
         \/ row.phone = person[p].phone /\ row.unchecked = person[p].unchecked
         \/ \A q \in PersonIds \ {p} :
              Exists(person[q]) /\ row.phone # None /\ row.phone = person[q].phone =>
                row.unchecked \/ person[q].unchecked \/ row.phone \in raced
  PROVE  StaffInv'
<1>1. person' = [person EXCEPT ![p] = row]
  BY DEF WritesPeople
<1>2. Exists(row) <=> Exists(person[p])
  BY StaffAssumption DEF Exists, IsLive, IsDeleted
<1>3. Accounts'
  BY <1>1, <1>2, RowKeepsAccounts
<1>4. brokerRequest' \in [BrokerRequests -> {None} \cup RequestData]
  BY DEF StaffInv, Tabled
<1>5. \A q \in PersonIds \ {p} :
        Exists(row) /\ Exists(person[q]) /\ row.phone # None /\ row.phone = person[q].phone =>
          row.unchecked \/ person[q].unchecked \/ row.phone \in raced
  BY <1>2 DEF StaffInv, PhonesDiffer
<1> QED BY <1>3, <1>4, <1>5, PersonKeepsInv

LEMMA UpdateStaffKeeps == ASSUME StaffInv, NEW w \in Workers, UpdateStaff(w) PROVE StaffInv'
<1>1. ASSUME NEW p \in PersonIds, NEW b \in staffScope.bodies, FindsUser(p),
             ReadsStaff(w, StaffTask("update", "write", p, b))
      PROVE  StaffInv'
  <2> DEFINE t == StaffTask("update", "write", p, b)
  <2>1. b \in StaffBodies /\ person[p] # None
    BY <1>1, BodyGiven DEF FindsUser, IsLive
  <2>2. t \in StaffTasks /\ Refers(t) /\ ReadBroker(t) /\ ReadPhone(t)
    BY <2>1, UserTask DEF OfUser, BrokersOps
  <2>3. ReadsStaff(w, t)
    BY <1>1
  <2> HIDE DEF t
  <2> QED BY <2>2, <2>3, ReadKeepsInv
<1>2. ASSUME StaffAt(w, "update", "write"),
             LET b == staffing[w].body
                 sent == IF "phone" \in DOMAIN b
                         THEN [f \in DOMAIN b \cup {"unchecked"} |-> IF f = "unchecked" THEN TRUE ELSE b[f]]
                         ELSE b
             IN  WritesPeople(w, [person EXCEPT ![staffing[w].id] = SetPerson(@, sent)]),
             UNCHANGED <<password, sessions, brokerRequest>>
      PROVE  StaffInv'
  <2> DEFINE b == staffing[w].body
             p == staffing[w].id
             sent == IF "phone" \in DOMAIN b
                     THEN [f \in DOMAIN b \cup {"unchecked"} |-> IF f = "unchecked" THEN TRUE ELSE b[f]]
                     ELSE b
             row == SetPerson(person[p], sent)
  <2>1. b \in StaffBodies /\ p \in PersonIds /\ person[p] # None
    BY <1>2, TaskKept DEF StaffAt, Refers, OfUser
  <2>2. person[p] \in PersonData
    BY <2>1 DEF StaffInv, Tabled
  <2>3. WritesPeople(w, [person EXCEPT ![p] = row])
    BY <1>2
  <2> HIDE DEF b, p
  <2>4. /\ DOMAIN sent \subseteq {"email", "phone", "role", "unchecked"}
        /\ "email" \in DOMAIN sent => sent["email"] \in Emails
        /\ "phone" \in DOMAIN sent => sent["phone"] \in Phones \cup {None}
        /\ "role" \in DOMAIN sent => sent["role"] \in {"admin", "broker"}
        /\ "unchecked" \in DOMAIN sent => sent["unchecked"] = TRUE
        /\ "unchecked" \in DOMAIN sent <=> "phone" \in DOMAIN sent
    BY <2>1, StaffAssumption
  <2> HIDE DEF sent
  <2>5. /\ row \in PersonData /\ row.life = person[p].life /\ (~ Exists(person[p]) => row = person[p])
        /\ Exists(person[p]) /\ "phone" \in DOMAIN sent => row.unchecked = TRUE
        /\ "phone" \notin DOMAIN sent => row.phone = person[p].phone /\ row.unchecked = person[p].unchecked
    BY <2>2, <2>4, SetPersonRow
  <2> HIDE DEF row
  <2> QED BY <1>2, <2>1, <2>3, <2>5, SetKeepsInv
<1> QED BY <1>1, <1>2 DEF UpdateStaff

LEMMA UpdateBrokerKeeps == ASSUME StaffInv, NEW w \in Workers, UpdateBroker(w) PROVE StaffInv'
<1>1. ASSUME NEW p \in PersonIds, NEW b \in staffScope.bodies, FindsUser(p), IsBroker(p), "role" \notin DOMAIN b,
             ReadsStaff(w, StaffTask("updateBroker", "phone", p, b))
      PROVE  StaffInv'
  <2> DEFINE t == StaffTask("updateBroker", "phone", p, b)
  <2>1. b \in StaffBodies /\ person[p] # None /\ Exists(person[p])
    BY <1>1, BodyGiven DEF FindsUser, IsLive, Exists
  <2>2. t \in StaffTasks /\ Refers(t) /\ ReadBroker(t) /\ ReadPhone(t)
    BY <1>1, <2>1, UserTask DEF OfUser
  <2>3. ReadsStaff(w, t)
    BY <1>1
  <2> HIDE DEF t
  <2> QED BY <2>2, <2>3, ReadKeepsInv
<1>2. ASSUME StaffAt(w, "updateBroker", "phone"),
             LET phone == Phone(staffing[w].body)
             IN  phone # None /\ phone # staffing[w].row.phone => ~ PhoneConflict(phone, staffing[w].id),
             ReadsStaff(w, [staffing[w] EXCEPT !.step = "write"])
      PROVE  StaffInv'
  <2> DEFINE t == [staffing[w] EXCEPT !.step = "write"]
  <2>1. staffing[w] \in StaffTasks /\ Refers(staffing[w]) /\ ReadBroker(staffing[w]) /\ ReadPhone(staffing[w])
    BY <1>2, TaskKept DEF StaffAt
  <2>2. /\ t \in StaffTasks /\ t.op = "updateBroker" /\ t.id = staffing[w].id /\ t.body = staffing[w].body
        /\ t.row = staffing[w].row /\ staffing[w].op = "updateBroker"
    BY <1>2, <2>1 DEF StaffTasks, StaffAt
  <2>3. ReadsStaff(w, t)
    BY <1>2
  <2> HIDE DEF t
  <2>4. Refers(t) /\ ReadBroker(t)
    BY <2>1, <2>2 DEF Refers, ReadBroker
  <2>5. ReadPhone(t)
    BY <1>2, <2>1, <2>2 DEF ReadPhone, PhoneConflict
  <2> QED BY <2>2, <2>3, <2>4, <2>5, ReadKeepsInv
<1>3. ASSUME StaffAt(w, "updateBroker", "write"),
             LET b == staffing[w].body
                 row == staffing[w].row
                 sent == [f \in DOMAIN b \cup {"role", "unchecked"} |->
                            CASE f = "role" -> "broker"
                              [] f = "unchecked" ->
                                   IF "phone" \in DOMAIN b THEN row.unchecked /\ b.phone = row.phone
                                   ELSE person[staffing[w].id].unchecked
                              [] OTHER -> b[f]]
             IN  WritesPeople(w, [person EXCEPT ![staffing[w].id] = SetPerson(@, sent)]),
             UNCHANGED <<password, sessions, brokerRequest>>
      PROVE  StaffInv'
  <2> DEFINE b == staffing[w].body
             p == staffing[w].id
             old == staffing[w].row
             mark == IF "phone" \in DOMAIN b THEN old.unchecked /\ b.phone = old.phone ELSE person[p].unchecked
             sent == [f \in DOMAIN b \cup {"role", "unchecked"} |->
                        CASE f = "role" -> "broker"
                          [] f = "unchecked" -> mark
                          [] OTHER -> b[f]]
             row == SetPerson(person[p], sent)
  <2>1. /\ b \in StaffBodies /\ p \in PersonIds /\ person[p] # None /\ old \in PersonData /\ "role" \notin DOMAIN b
        /\ ReadPhone(staffing[w]) /\ staffing[w].op = "updateBroker" /\ staffing[w].step = "write" /\ b # None
    BY <1>3, TaskKept, StaffAssumption DEF StaffAt, Refers, OfUser
  <2>2. person[p] \in PersonData
    BY <2>1 DEF StaffInv, Tabled
  <2>3. WritesPeople(w, [person EXCEPT ![p] = row])
    BY <1>3
  <2>4. mark \in BOOLEAN
    BY <2>1, <2>2 DEF PersonData
  <2>5. \A q \in PersonIds \ {p} :
          /\ "phone" \in DOMAIN b /\ Exists(person[q]) /\ b.phone # None /\ b.phone = person[q].phone
          => mark = TRUE \/ person[q].unchecked \/ b.phone \in raced
    BY <2>1 DEF ReadPhone, Phone
  <2>6. "phone" \notin DOMAIN b => mark = person[p].unchecked
    OBVIOUS
  <2> HIDE DEF mark, b, p, old
  <2>7. /\ DOMAIN sent = DOMAIN b \cup {"role", "unchecked"}
        /\ "email" \in DOMAIN b => sent["email"] = b["email"]
        /\ "phone" \in DOMAIN b => sent["phone"] = b["phone"]
        /\ sent["role"] = "broker" /\ sent["unchecked"] = mark
    OBVIOUS
  <2> HIDE DEF sent
  <2>8. /\ DOMAIN sent \subseteq {"email", "phone", "role", "unchecked"}
        /\ "email" \in DOMAIN sent => sent["email"] \in Emails
        /\ "phone" \in DOMAIN sent => sent["phone"] \in Phones \cup {None}
        /\ sent["role"] \in {"admin", "broker"}
        /\ "phone" \in DOMAIN sent <=> "phone" \in DOMAIN b
        /\ "unchecked" \in DOMAIN sent /\ sent["unchecked"] \in BOOLEAN
    BY <2>1, <2>4, <2>7, StaffAssumption
  <2>9. /\ row \in PersonData /\ row.life = person[p].life /\ (~ Exists(person[p]) => row = person[p])
        /\ Exists(person[p]) /\ "phone" \in DOMAIN sent => row.phone = sent["phone"]
        /\ "phone" \notin DOMAIN sent => row.phone = person[p].phone
        /\ Exists(person[p]) => row.unchecked = sent["unchecked"]
    BY <2>2, <2>8, SetPersonRow
  <2> HIDE DEF row
  <2> QED BY <1>3, <2>1, <2>3, <2>5, <2>6, <2>7, <2>8, <2>9, SetKeepsInv
<1> QED BY <1>1, <1>2, <1>3 DEF UpdateBroker

\* A user whose life is written; who is gone then loses account and sessions.
LEMMA LifeKeepsInv ==
  ASSUME StaffInv, NEW w \in Workers, NEW p \in PersonIds, person[p] # None, NEW life \in {"deleted", "gone"},
         WritesPeople(w, [person EXCEPT ![p] = SetLife(@, life)]), brokerRequest' = brokerRequest,
         life = "deleted" => UNCHANGED <<password, sessions>>,
         life = "gone" => DeletePerson(p)
  PROVE  StaffInv'
<1> DEFINE row == SetLife(person[p], life)
<1>1. person[p] \in PersonData
  BY DEF StaffInv, Tabled
<1>2. /\ row \in PersonData /\ row.phone = person[p].phone /\ row.unchecked = person[p].unchecked
      /\ Exists(row) => Exists(person[p])
  BY <1>1 DEF SetLife, PersonData, Lives, Exists, IsLive, IsDeleted
<1>3. life = "deleted" => (Exists(row) <=> Exists(person[p]))
  <2> SUFFICES ASSUME life = "deleted", Exists(person[p]) PROVE Exists(row)
    BY <1>2
  <2>1. row = [person[p] EXCEPT !.life = "deleted"]
    BY DEF SetLife
  <2>2. row.life = "deleted" /\ row # None
    BY <1>1, <1>2, <2>1, StaffAssumption DEF PersonData
  <2> QED BY <2>2 DEF Exists, IsDeleted
<1>4. life = "gone" => ~ Exists(row)
  <2> SUFFICES ASSUME life = "gone" PROVE ~ Exists(row)
    OBVIOUS
  <2>1. CASE Exists(person[p])
    <3>1. row = [person[p] EXCEPT !.life = "gone"]
      BY <2>1 DEF SetLife
    <3>2. row.life = "gone"
      BY <1>1, <3>1 DEF PersonData
    <3> QED BY <3>2 DEF Exists, IsLive, IsDeleted
  <2>2. CASE ~ Exists(person[p])
    BY <1>2, <2>2
  <2> QED BY <2>1, <2>2
<1>5. WritesPeople(w, [person EXCEPT ![p] = row])
  OBVIOUS
<1> HIDE DEF row
<1>6. person' = [person EXCEPT ![p] = row]
  BY <1>5 DEF WritesPeople
<1>7. person'[p] = row /\ \A q \in PersonIds \ {p} : person'[q] = person[q]
  BY <1>6 DEF StaffInv, Tabled
<1>8. Accounts'
  <2>1. CASE life = "deleted"
    BY <1>2, <1>3, <1>6, <2>1, RowKeepsAccounts
  <2>2. CASE life = "gone"
    BY <1>4, <1>7, <2>2 DEF DeletePerson, StaffInv, Accounts
  <2> QED BY <2>1, <2>2
<1>9. brokerRequest' \in [BrokerRequests -> {None} \cup RequestData]
  BY DEF StaffInv, Tabled
<1>10. \A q \in PersonIds \ {p} :
         Exists(row) /\ Exists(person[q]) /\ row.phone # None /\ row.phone = person[q].phone =>
           row.unchecked \/ person[q].unchecked \/ row.phone \in raced
  BY <1>2 DEF StaffInv, PhonesDiffer
<1> QED BY <1>2, <1>5, <1>8, <1>9, <1>10, PersonKeepsInv

\* Every call of a user but the updates begins like this.
LEMMA UserReadKeeps ==
  ASSUME StaffInv, NEW w \in Workers, NEW op \in OfUser \ {"update", "updateBroker"}, NEW p \in PersonIds,
         person[p] # None, NEW step \in {"write", "account"}, OfRouter(op, p),
         ReadsStaff(w, StaffTask(op, step, p, None))
  PROVE  StaffInv'
<1> DEFINE t == StaffTask(op, step, p, None)
<1>1. t \in StaffTasks /\ Refers(t) /\ ReadBroker(t) /\ ReadPhone(t)
  BY UserTask DEF OfRouter
<1>2. ReadsStaff(w, t)
  OBVIOUS
<1> HIDE DEF t
<1> QED BY <1>1, <1>2, ReadKeepsInv

LEMMA RemoveKeeps ==
  ASSUME StaffInv, NEW w \in Workers, NEW op \in {"remove", "removeBroker"}, RemovePerson(w, op)
  PROVE  StaffInv'
<1>1. ASSUME NEW p \in PersonIds, FindsUser(p), OfRouter(op, p), ReadsStaff(w, StaffTask(op, "write", p, None))
      PROVE  StaffInv'
  BY <1>1, UserReadKeeps DEF FindsUser, IsLive, OfUser
<1>2. ASSUME StaffAt(w, op, "write"), WritesPeople(w, [person EXCEPT ![staffing[w].id] = SetLife(@, "deleted")]),
             UNCHANGED <<password, sessions, brokerRequest>>
      PROVE  StaffInv'
  <2>1. staffing[w].id \in PersonIds /\ person[staffing[w].id] # None
    BY <1>2, TaskKept DEF StaffAt, Refers, OfUser
  <2> QED BY <1>2, <2>1, LifeKeepsInv
<1> QED BY <1>1, <1>2 DEF RemovePerson

LEMMA PurgeKeeps ==
  ASSUME StaffInv, NEW w \in Workers, NEW op \in {"purge", "purgeBroker"}, PurgePerson(w, op)
  PROVE  StaffInv'
<1>1. ASSUME NEW p \in PersonIds, FindsUserDeleted(p), OfRouter(op, p),
             ReadsStaff(w, StaffTask(op, "write", p, None))
      PROVE  StaffInv'
  BY <1>1, UserReadKeeps DEF FindsUserDeleted, Exists, IsLive, IsDeleted, OfUser
<1>2. ASSUME StaffAt(w, op, "write"), WritesPeople(w, [person EXCEPT ![staffing[w].id] = SetLife(@, "gone")]),
             DeletePerson(staffing[w].id), brokerRequest' = brokerRequest
      PROVE  StaffInv'
  <2>1. staffing[w].id \in PersonIds /\ person[staffing[w].id] # None
    BY <1>2, TaskKept DEF StaffAt, Refers, OfUser
  <2> QED BY <1>2, <2>1, LifeKeepsInv
<1> QED BY <1>1, <1>2 DEF PurgePerson

-----------------------------------------------------------------------------
(* Accounts, sessions and requests *)

\* What Staffing does, where users are not written.
LEMMA HandlerEnds ==
  ASSUME StaffInv, NEW w \in Workers, Staffing(w, None)
  PROVE  /\ staffing' \in [Workers -> {None} \cup StaffTasks] /\ staffScope' = staffScope
         /\ \A v \in Workers : staffing'[v] = staffing[v] \/ staffing'[v] = None
BY DEF Staffing, StaffInv, Tabled

LEMMA ResendKeeps ==
  ASSUME StaffInv, NEW w \in Workers, NEW op \in {"resend", "resendBroker"}, ResendCredentials(w, op)
  PROVE  StaffInv'
<1>1. ASSUME NEW p \in PersonIds, FindsUser(p), OfRouter(op, p), ReadsStaff(w, StaffTask(op, "account", p, None))
      PROVE  StaffInv'
  BY <1>1, UserReadKeeps DEF FindsUser, IsLive, OfUser
<1>2. ASSUME StaffAt(w, op, "account"), ReadsStaff(w, [staffing[w] EXCEPT !.step = "write"])
      PROVE  StaffInv'
  <2> DEFINE t == [staffing[w] EXCEPT !.step = "write"]
  <2>1. staffing[w] \in StaffTasks /\ Refers(staffing[w]) /\ ReadBroker(staffing[w])
    BY <1>2, TaskKept DEF StaffAt
  <2>2. t \in StaffTasks /\ t.op = op /\ t.id = staffing[w].id /\ staffing[w].op = op
    BY <1>2, <2>1 DEF StaffTasks, StaffAt
  <2>3. ReadsStaff(w, t)
    BY <1>2
  <2> HIDE DEF t
  <2>4. Refers(t) /\ ReadBroker(t) /\ ReadPhone(t)
    BY <2>1, <2>2 DEF Refers, ReadBroker, ReadPhone
  <2> QED BY <2>2, <2>3, <2>4, ReadKeepsInv
<1>3. ASSUME password' = [password EXCEPT ![staffing[w].id] = IF @ = None THEN None ELSE "first"],
             Staffing(w, None), UNCHANGED <<person, sessions, brokerRequest, raced, promoted>>
      PROVE  StaffInv'
  <2>1. Accounts'
    BY <1>3 DEF StaffInv, Accounts
  <2>2. brokerRequest' \in [BrokerRequests -> {None} \cup RequestData]
    BY <1>3 DEF StaffInv, Tabled
  <2> QED BY <1>3, <2>1, <2>2, HandlerEnds, OthersKeepInv
<1> QED BY <1>1, <1>2, <1>3 DEF ResendCredentials

LEMMA RevokeKeeps == ASSUME StaffInv, NEW w \in Workers, Revoke(w) PROVE StaffInv'
<1>1. ASSUME NEW p \in PersonIds, NEW op \in {"revoke", "revokeAll"}, FindsUser(p), IsBroker(p),
             ReadsStaff(w, StaffTask(op, "write", p, None))
      PROVE  StaffInv'
  BY <1>1, UserReadKeeps DEF FindsUser, IsLive, OfUser, OfRouter
<1>2. ASSUME NEW op \in {"revoke", "revokeAll"}, NEW token,
             sessions' = [sessions EXCEPT ![staffing[w].id] = IF op = "revoke" THEN @ \ {token} ELSE {}],
             Staffing(w, None), UNCHANGED <<person, password, brokerRequest, raced, promoted>>
      PROVE  StaffInv'
  <2>1. Accounts'
    BY <1>2 DEF StaffInv, Accounts
  <2>2. brokerRequest' \in [BrokerRequests -> {None} \cup RequestData]
    BY <1>2 DEF StaffInv, Tabled
  <2> QED BY <1>2, <2>1, <2>2, HandlerEnds, OthersKeepInv
<1> QED BY <1>1, <1>2 DEF Revoke

\* Only who has an account signs in, and only who has signed in changes the password.
LEMMA OutsideKeeps ==
  ASSUME StaffInv, NEW p \in PersonIds, StaffSignIn(p) \/ ChangePassword(p)
  PROVE  StaffInv'
<1>1. Accounts'
  BY DEF StaffSignIn, ChangePassword, StaffInv, Accounts
<1>2. UNCHANGED <<person, brokerRequest, staffing, raced, promoted, staffScope>>
  BY DEF StaffSignIn, ChangePassword
<1>3. /\ staffing' \in [Workers -> {None} \cup StaffTasks]
      /\ brokerRequest' \in [BrokerRequests -> {None} \cup RequestData]
  BY <1>2 DEF StaffInv, Tabled
<1> QED BY <1>1, <1>2, <1>3, OthersKeepInv

\* Requests are written, and nothing else.
LEMMA WritesRequestsKeeps ==
  ASSUME StaffInv, NEW w \in Workers, NEW table \in [BrokerRequests -> {None} \cup RequestData],
         WritesRequests(w, table)
  PROVE  StaffInv'
<1>1. /\ brokerRequest' = table /\ Staffing(w, None)
      /\ UNCHANGED <<person, password, sessions, raced, promoted>>
  BY DEF WritesRequests
<1>2. Accounts'
  BY <1>1 DEF StaffInv, Accounts
<1> QED BY <1>1, <1>2, HandlerEnds, OthersKeepInv

LEMMA SubmitKeeps == ASSUME StaffInv, NEW w \in Workers, SubmitRequest(w) PROVE StaffInv'
<1>1. PICK r \in NextKeys(brokerRequest, BrokerRequests), b \in staffScope.bodies :
        /\ {"email", "phone"} \subseteq DOMAIN b /\ b.phone # None
        /\ WritesRequests(w, [brokerRequest EXCEPT ![r] = [email |-> b.email, phone |-> b.phone, life |-> "live"]])
  BY DEF SubmitRequest
<1> DEFINE row == [email |-> b.email, phone |-> b.phone, life |-> "live"]
<1>2. b \in StaffBodies
  BY BodyGiven
<1>3. b.email \in Emails /\ b.phone \in Phones
  BY <1>1, <1>2, StaffAssumption
<1>4. row \in RequestData
  BY <1>3 DEF RequestData, Lives
<1>5. WritesRequests(w, [brokerRequest EXCEPT ![r] = row])
  BY <1>1
<1> HIDE DEF row
<1>6. [brokerRequest EXCEPT ![r] = row] \in [BrokerRequests -> {None} \cup RequestData]
  BY <1>4 DEF StaffInv, Tabled
<1> QED BY <1>5, <1>6, WritesRequestsKeeps

LEMMA EditRequestKeeps == ASSUME StaffInv, NEW w \in Workers, EditRequest(w) PROVE StaffInv'
<1>1. ASSUME NEW r \in BrokerRequests, NEW op \in {"removeRequest", "restoreRequest", "purgeRequest"},
             ReadsRequest(w, op, r)
      PROVE  StaffInv'
  <2> DEFINE t == [StaffTask(op, "write", None, None) EXCEPT !.requests = {r}]
  <2>1. t \in StaffTasks /\ t.op = op
    BY DEF StaffTask, StaffTasks, StaffCalls
  <2>2. ReadsStaff(w, t)
    BY <1>1 DEF ReadsRequest
  <2> HIDE DEF t
  <2>3. Refers(t) /\ ReadBroker(t) /\ ReadPhone(t)
    BY <2>1 DEF Refers, ReadBroker, ReadPhone, OfUser
  <2> QED BY <2>1, <2>2, <2>3, ReadKeepsInv
<1>2. ASSUME NEW op, NEW life \in Lives, WritesLife(w, op, life) PROVE StaffInv'
  <2> DEFINE table == [r \in BrokerRequests |->
                         IF r \in staffing[w].requests THEN SetLife(brokerRequest[r], life) ELSE brokerRequest[r]]
  <2>1. table \in [BrokerRequests -> {None} \cup RequestData]
    BY RequestsTyped DEF StaffInv, Tabled
  <2>2. WritesRequests(w, table)
    BY <1>2 DEF WritesLife
  <2> HIDE DEF table
  <2> QED BY <2>1, <2>2, WritesRequestsKeeps
<1> QED BY <1>1, <1>2 DEF EditRequest, Lives

LEMMA AbandonStaffKeeps == ASSUME StaffInv, NEW w \in Workers, AbandonStaff(w) PROVE StaffInv'
BY ReadKeepsInv DEF AbandonStaff

-----------------------------------------------------------------------------
(* The invariant, and what follows from it *)

\* Every step of Staff keeps the invariant, and it holds initially.
LEMMA StaffInvNext == StaffInv /\ [StaffNext]_staffVars => StaffInv'
<1> SUFFICES ASSUME StaffInv, [StaffNext]_staffVars PROVE StaffInv'
  OBVIOUS
<1>1. ASSUME NEW w \in Workers, CreateStaff(w) \/ CreateBroker(w) \/ UpdateStaff(w) \/ UpdateBroker(w)
      PROVE  StaffInv'
  BY <1>1, CreateStaffKeeps, CreateBrokerKeeps, UpdateStaffKeeps, UpdateBrokerKeeps
<1>2. ASSUME NEW w \in Workers, RemoveStaff(w) \/ RemoveBroker(w) PROVE StaffInv'
  BY <1>2, RemoveKeeps, PurgeKeeps DEF RemoveStaff, RemoveBroker
<1>3. ASSUME NEW w \in Workers, ResendToStaff(w) \/ Revoke(w) PROVE StaffInv'
  BY <1>3, ResendKeeps, RevokeKeeps DEF ResendToStaff
<1>4. ASSUME NEW w \in Workers, SubmitRequest(w) \/ EditRequest(w) \/ AbandonStaff(w) PROVE StaffInv'
  BY <1>4, SubmitKeeps, EditRequestKeeps, AbandonStaffKeeps
<1>5. ASSUME NEW p \in PersonIds, StaffSignIn(p) \/ ChangePassword(p) PROVE StaffInv'
  BY <1>5, OutsideKeeps
<1>6. CASE UNCHANGED staffVars
  BY <1>6 DEF staffVars, StaffInv, Tabled, Accounts, ReadsHold, Refers, ReadBroker, ReadPhone, PhonesDiffer
<1> QED BY <1>1, <1>2, <1>3, <1>4, <1>5, <1>6 DEF StaffNext

LEMMA StaffInvInit == StaffInit => StaffInv
BY StaffAssumption DEF StaffInit, StaffInv, Tabled, Accounts, ReadsHold, PhonesDiffer, Exists, IsLive, IsDeleted

\* The invariant holds throughout.
THEOREM StaffInvariant == StaffSpec => []StaffInv
<1>1. StaffInit => StaffInv
  BY StaffInvInit
<1>2. StaffInv /\ [StaffNext]_staffVars => StaffInv'
  BY StaffInvNext
<1> QED BY <1>1, <1>2, PTL DEF StaffSpec

\* broker/handler.ts of the kernel's users: for any number of overlapping handlers of
\* both routers, two users have one phone number only where no check was made, or
\* where another handler wrote it after the check.
THEOREM PhonesAreUnique == StaffSpec => []PhonesDiffer
<1>1. StaffInv => PhonesDiffer
  BY DEF StaffInv
<1> QED BY <1>1, StaffInvariant, PTL

\* The brokers' router writes, in any interleaving, only users who are brokers or
\* stopped being brokers after it read them.
THEOREM BrokersRouterWritesBrokers == StaffSpec => BrokersOnly
<1> DEFINE Step == \A w \in Workers, p \in PersonIds :
       /\ staffing[w] # None /\ staffing[w].op \in BrokersOps /\ staffing[w].id = p
       /\ staffing'[w] = None
       /\ \/ person'[p] # person[p]
          \/ password'[p] # password[p]
          \/ sessions'[p] # sessions[p]
       => person[p].role = "broker" \/ p \in promoted
<1>1. StaffInv /\ [StaffNext]_staffVars => [Step]_staffVars
  <2> SUFFICES ASSUME StaffInv, NEW w \in Workers, NEW p \in PersonIds,
                      staffing[w] # None, staffing[w].op \in BrokersOps, staffing[w].id = p
               PROVE  person[p].role = "broker" \/ p \in promoted
    OBVIOUS
  <2>1. ReadBroker(staffing[w]) /\ Refers(staffing[w])
    BY TaskKept
  <2>2. CASE staffing[w].op # "createBroker"
    BY <2>1, <2>2 DEF ReadBroker, BrokersOps, OfUser
  <2>3. CASE staffing[w].op = "createBroker"
    BY <2>1, <2>3, StaffAssumption DEF Refers
  <2> QED BY <2>2, <2>3
<1>2. StaffSpec => [][Step]_staffVars
  <2> HIDE DEF Step
  <2> QED BY <1>1, StaffInvariant, PTL DEF StaffSpec
<1> QED BY <1>2 DEF BrokersOnly

\* Users and requests keep their types, and exactly who exists has an account.
THEOREM StaffTypes == StaffSpec => []StaffTypeOK
<1>1. StaffInv => StaffTypeOK
  BY DEF StaffInv, Tabled, Accounts, StaffTypeOK
<1> QED BY <1>1, StaffInvariant, PTL

-----------------------------------------------------------------------------
(*** Roles ***)

\* The grants a role may have: of some resources, what is granted on each.
PermissionTables == UNION {[S -> Permission] : S \in SUBSET Resources}

\* What a handler may keep.
RoleJobs ==
  [op : RoleCalls, step : {"write", "permissions", "commit"}, by : RoleCallers \cup {None},
   id : RoleIds \cup {None}, org : RoleOrgs \cup {None}, body : RoleBodies \cup {None},
   old : Permission \cup {None}, oldSlug : RoleSlugs \cup {None}, missing : SUBSET Presets,
   seen : UNION {[S -> [slug : Presets, permissions : PermissionTables \cup {None}]] : S \in SUBSET RoleIds}]

\* The typing part of the invariant.
RolesTyped ==
  /\ role \in [RoleIds -> RoleRow \cup {None}]
  /\ \A r \in RoleIds : role[r] # None /\ role[r].life = "gone" => DOMAIN role[r].permissions = {}
  /\ owning \subseteq RoleOrgs /\ statements \in 0 .. MaxStatements
  /\ doing \in [Workers -> RoleJobs \cup {None}]
  /\ roleScope \in RoleScopes

\* The calls that write the grants of an existing role.
PermissionCalls == {"createPermission", "updatePermission", "removePermission"}

\* What a handler keeps is fit for its statement: the role it writes was there, of
\* the panel and organization it was looked up in, and its caller might manage it.
SoundJob(t, rows) ==
  /\ t.op = "seedRoles" <=> t.step # "write"
  /\ t.op \in {"createRole", "updateRole"} \cup PermissionCalls => t.body \in RoleBodies /\ t.by \in RoleCallers
  /\ t.op \in {"updateRole", "removeRole"} \cup PermissionCalls => t.id \in RoleIds /\ rows[t.id] # None
  /\ t.op = "createRole" => t.body.slug # None
  /\ t.op = "updateRole" => rows[t.id].panel = t.by.panel /\ rows[t.id].org = t.org
  /\ t.op \in PermissionCalls => t.body.resource \in Resources
  /\ t.op = "updatePermission" => t.old \in Permission
  /\ t.op = "removePermission" => t.body.resource \notin ManagedResources
  /\ t.op = "seedRoles" => t.org \in RoleOrgs /\ \A r \in DOMAIN t.seen : rows[r] # None

\* A caller of a company who is no owner does nothing to owners.
Guarded(t) ==
  t.by # None /\ t.by.org # None =>
    /\ t.op \in {"createRole", "updateRole"} /\ t.body.slug # None => CanManage(t.by, t.body.slug)
    /\ t.op \in {"updateRole", "removeRole"} \cup PermissionCalls =>
         t.oldSlug \in RoleSlugs /\ CanManage(t.by, t.oldSlug)
    /\ t.op # "seedRoles"

\* Every running handler keeps a sound job, within what guards it.
JobsSound == \A w \in Workers : doing[w] # None => SoundJob(doing[w], role) /\ Guarded(doing[w])

\* What must be unique among the roles: a slug within a panel and a company.
KeyOf(row) == <<row.panel, row.org, row.slug>>

\* A slug that is checked and not yet written is nobody's, unless two handlers
\* had checked it.
SlugsChecked ==
  /\ \A q, r \in RoleIds : q # r /\ IsLive(role[q]) /\ IsLive(role[r]) /\ KeyOf(role[q]) = KeyOf(role[r])
       => KeyOf(role[r]) \in overlapped
  /\ \A w \in Workers, r \in RoleIds :
       /\ IsLive(role[r]) /\ KeyOf(role[r]) \in Writes(doing[w])
       /\ ~ (doing[w].op = "updateRole" /\ doing[w].id = r)
       => KeyOf(role[r]) \in overlapped
  /\ \A v, w \in Workers : v # w => Writes(doing[v]) \cap Writes(doing[w]) \subseteq overlapped

\* The inductive invariant of Roles.
RolesInv == RolesTyped /\ JobsSound /\ EveryRoleIsManaged /\ SlugsChecked

-----------------------------------------------------------------------------
(* Tables of permissions *)

\* A table of permissions is a function from some of the resources.
LEMMA TableFields ==
  ASSUME NEW p
  PROVE  p \in PermissionTables <=>
           /\ p = [f \in DOMAIN p |-> p[f]] /\ DOMAIN p \subseteq Resources
           /\ \A f \in DOMAIN p : p[f] \in Permission
<1>1. ASSUME p \in PermissionTables
      PROVE  /\ p = [f \in DOMAIN p |-> p[f]] /\ DOMAIN p \subseteq Resources
             /\ \A f \in DOMAIN p : p[f] \in Permission
  <2>1. PICK S \in SUBSET Resources : p \in [S -> Permission]
    BY <1>1 DEF PermissionTables
  <2> QED BY <2>1
<1>2. ASSUME p = [f \in DOMAIN p |-> p[f]], DOMAIN p \subseteq Resources, \A f \in DOMAIN p : p[f] \in Permission
      PROVE  p \in PermissionTables
  <2>1. p \in [DOMAIN p -> Permission]
    BY <1>2
  <2> QED BY <1>2, <2>1 DEF PermissionTables
<1> QED BY <1>1, <1>2

\* A function made over resources is one.
LEMMA TableMade ==
  ASSUME NEW S \in SUBSET Resources, NEW P \in [S -> Permission]
  PROVE  P \in PermissionTables
BY DEF PermissionTables

\* The columns of a role and what they hold.
LEMMA RowFields ==
  RoleRow = [panel : Panels, org : RoleOrgs \cup {None}, slug : RoleSlugs,
             permissions : PermissionTables, life : {"live", "gone"}]
BY DEF RoleRow, PermissionTables

\* What the roles of a table of permissions hold in common.
Managed(p) == \A f \in ManagedResources : f \in DOMAIN p /\ Unchanged(p[f], ManagedPermission)

\* The values of a permission, before they have an id.
Values == [level : AccessLevels, actions : SUBSET (FullActions \cup {"*"})]

\* Values for some of the resources, and the managed ones as they should be.
ManagedTable(p) ==
  \E S \in SUBSET Resources :
    /\ p \in [S -> Values]
    /\ ManagedResources \subseteq S
    /\ \A f \in ManagedResources : p[f] = ManagedPermission

\* A statement that inserts values gives them its number.
LEMMA InsertedTable ==
  ASSUME NEW S \in SUBSET Resources, NEW p \in [S -> Values], NEW id \in 0 .. MaxStatements
  PROVE  /\ Inserted(p, id) \in [S -> Permission]
         /\ Inserted(p, id) \in PermissionTables
         /\ \A f \in S : Inserted(p, id)[f].level = p[f].level /\ Inserted(p, id)[f].actions = p[f].actions
<1>1. \A f \in S : p[f].level \in AccessLevels /\ p[f].actions \in SUBSET (FullActions \cup {"*"})
  BY DEF Values
<1>2. Inserted(p, id) \in [S -> Permission]
  BY <1>1 DEF Inserted, Permission
<1>3. \A f \in S : Inserted(p, id)[f].level = p[f].level /\ Inserted(p, id)[f].actions = p[f].actions
  BY DEF Inserted
<1> QED BY <1>2, <1>3, TableMade

\* The grant of managing is a grant, and what it is given on are resources.
LEMMA ManagedValues == ManagedPermission \in Values /\ ManagedResources \subseteq Resources
BY DEF ManagedPermission, Values, AccessLevels, FullActions, ManagedResources

\* A preset gives values to some of the resources, and manages those it must.
LEMMA PresetTable ==
  ASSUME NEW slug \in DefaultRoleSlugs
  PROVE  ManagedTable(PresetPermissions(slug))
<1> DEFINE full == [level |-> "company", actions |-> FullActions]
           get == [level |-> "user", actions |-> {"get"}]
<1>1. full \in Values /\ get \in Values
  BY DEF Values, AccessLevels, FullActions
<1>2. CASE slug \in {"owner", "admin"}
  <2>1. PresetPermissions(slug) =
          [r \in Resources \ {"*"} |-> IF r \in ManagedResources THEN ManagedPermission ELSE full]
    BY <1>2 DEF PresetPermissions
  <2>2. ManagedResources \subseteq Resources \ {"*"}
    BY DEF ManagedResources
  <2> QED BY <1>1, <2>1, <2>2, ManagedValues DEF ManagedTable
<1>3. CASE slug = "executive"
  <2>1. PresetPermissions(slug) =
          [r \in ManagedResources \cup (Resources \cap {"property"}) |-> ManagedPermission]
    BY <1>3 DEF PresetPermissions
  <2> QED BY <2>1, ManagedValues DEF ManagedTable
<1>4. CASE slug = "property_owner"
  <2>1. PresetPermissions(slug) =
          [r \in ManagedResources \cup (Resources \cap {"member", "property"}) |->
             IF r = "property" THEN get ELSE ManagedPermission]
    BY <1>4 DEF PresetPermissions
  <2>2. "property" \notin ManagedResources
    BY DEF ManagedResources
  <2> QED BY <1>1, <2>1, <2>2, ManagedValues DEF ManagedTable
<1> QED BY <1>2, <1>3, <1>4 DEF DefaultRoleSlugs

\* What a body gives its resource.
LEMMA NormalizedValues ==
  ASSUME NEW b \in RoleBody
  PROVE  /\ NormalizedPermission(b) \in Values /\ PermissionValues(b) \in Values
         /\ b.resource \in ManagedResources => NormalizedPermission(b) = ManagedPermission
<1>1. PermissionValues(b) \in Values
  BY DEF PermissionValues, RoleBody, Values, AccessLevels
<1> QED BY <1>1, ManagedValues DEF NormalizedPermission

\* A role a body asks for is given what is managed and what the body names.
LEMMA MergedTable ==
  ASSUME NEW b \in RoleBody
  PROVE  ManagedTable(MergedPermissions(b))
<1>1. ManagedResources \cup ({b.resource} \ {None}) \in SUBSET Resources
  BY ManagedValues DEF RoleBody
<1>2. PermissionValues(b) \in Values
  BY NormalizedValues
<1> QED BY <1>1, <1>2, ManagedValues DEF MergedPermissions, ManagedTable

\* A new role is a row whose permissions are managed.
LEMMA NewRow ==
  ASSUME NEW panel \in Panels, NEW org \in RoleOrgs \cup {None}, NEW slug \in RoleSlugs,
         NEW p, ManagedTable(p), NEW id \in 0 .. MaxStatements
  PROVE  /\ NewRole(panel, org, slug, p, id) \in RoleRow
         /\ Managed(NewRole(panel, org, slug, p, id).permissions)
         /\ KeyOf(NewRole(panel, org, slug, p, id)) = <<panel, org, slug>>
         /\ NewRole(panel, org, slug, p, id).life = "live"
         /\ NewRole(panel, org, slug, p, id).slug = slug
<1> PICK S \in SUBSET Resources :
          /\ p \in [S -> Values] /\ ManagedResources \subseteq S
          /\ \A f \in ManagedResources : p[f] = ManagedPermission
  BY DEF ManagedTable
<1>1. Inserted(p, id) \in PermissionTables
  BY InsertedTable
<1>2. Managed(Inserted(p, id))
  BY InsertedTable DEF Managed, Unchanged
<1> QED BY <1>1, <1>2, RowFields DEF NewRole, KeyOf

-----------------------------------------------------------------------------
(* What one statement leaves to the others *)

\* A role keeps its panel and its organization.
Placed(r) ==
  role[r] # None => role'[r] # None /\ role'[r].panel = role[r].panel /\ role'[r].org = role[r].org

\* Handlers that do nothing keep what they know.
LEMMA JobStays ==
  ASSUME NEW t \in RoleJobs, SoundJob(t, role), \A r \in RoleIds : Placed(r)
  PROVE  SoundJob(t, role')
<1>1. t.seen \in UNION {[S -> [slug : Presets, permissions : PermissionTables \cup {None}]] : S \in SUBSET RoleIds}
  BY DEF RoleJobs
<1>2. DOMAIN t.seen \subseteq RoleIds
  BY <1>1
<1> QED BY <1>2 DEF SoundJob, Placed

\* The other handlers' jobs, when one is done with its statement.
LEMMA DoneKeepsJobs ==
  ASSUME RolesTyped, JobsSound, NEW w \in Workers, doing' = [doing EXCEPT ![w] = None],
         \A r \in RoleIds : Placed(r)
  PROVE  JobsSound' /\ doing' \in [Workers -> RoleJobs \cup {None}]
<1>1. doing' \in [Workers -> RoleJobs \cup {None}] /\ doing'[w] = None
  BY DEF RolesTyped
<1>2. SUFFICES ASSUME NEW v \in Workers, doing'[v] # None
               PROVE  SoundJob(doing'[v], role') /\ Guarded(doing'[v])
  BY <1>1 DEF JobsSound, Guarded, CanManage
<1>3. v # w /\ doing'[v] = doing[v] /\ doing[v] \in RoleJobs
  BY <1>1, <1>2 DEF RolesTyped
<1> QED BY <1>2, <1>3, JobStays DEF JobsSound

\* A job that is taken finds every role as it was.
LEMMA TakenKeepsJobs ==
  ASSUME RolesTyped, JobsSound, NEW w \in Workers, NEW job \in RoleJobs, SoundJob(job, role), Guarded(job),
         doing' = [doing EXCEPT ![w] = job], role' = role
  PROVE  JobsSound' /\ doing' \in [Workers -> RoleJobs \cup {None}]
<1>1. doing' \in [Workers -> RoleJobs \cup {None}] /\ doing'[w] = job
  BY DEF RolesTyped
<1>2. \A r \in RoleIds : Placed(r)
  BY DEF Placed
<1>3. ASSUME NEW v \in Workers, doing'[v] # None
      PROVE  SoundJob(doing'[v], role') /\ Guarded(doing'[v])
  <2>1. CASE v = w
    BY <1>1, <1>2, <2>1, JobStays DEF Guarded
  <2>2. CASE v # w
    <3>1. doing'[v] = doing[v] /\ doing[v] \in RoleJobs
      BY <1>1, <1>3, <2>2 DEF RolesTyped
    <3> QED BY <1>2, <1>3, <3>1, JobStays DEF JobsSound, Guarded
  <2> QED BY <2>1, <2>2
<1> QED BY <1>1, <1>3 DEF JobsSound, Guarded, CanManage

\* What a handler writes is what it checked, each key once: then nobody else has
\* checked it, or that is recorded.
LEMMA DoneKeepsSlugs ==
  ASSUME SlugsChecked, NEW w \in Workers, doing[w] # None,
         doing \in [Workers -> RoleJobs \cup {None}], doing' = [doing EXCEPT ![w] = None],
         overlapped' = overlapped, NEW N \in SUBSET RoleIds,
         \A r \in RoleIds \ N : IsLive(role'[r]) => IsLive(role[r]) /\ KeyOf(role'[r]) = KeyOf(role[r]),
         \A r \in N : IsLive(role'[r]) => KeyOf(role'[r]) \in Writes(doing[w]),
         \A q, r \in N : q # r => KeyOf(role'[q]) # KeyOf(role'[r]),
         \A r \in N : doing[w].op = "updateRole" => doing[w].id = r
  PROVE  SlugsChecked'
<1>1. doing'[w] = None /\ \A v \in Workers \ {w} : doing'[v] = doing[v]
  OBVIOUS
<1>2. Writes(None) = {}
  BY DEF Writes
<1>3. \A v \in Workers : Writes(doing'[v]) = IF v = w THEN {} ELSE Writes(doing[v])
  BY <1>1, <1>2
<1>4. \A v \in Workers : Writes(doing[v])' = Writes(doing'[v])
  BY DEF Writes
<1>5. ASSUME NEW q \in RoleIds, NEW r \in RoleIds, q # r, IsLive(role'[q]), IsLive(role'[r]),
             KeyOf(role'[q]) = KeyOf(role'[r])
      PROVE  KeyOf(role'[r]) \in overlapped
  <2>1. CASE q \in N /\ r \in N
    BY <1>5, <2>1
  <2>2. CASE q \in N /\ r \notin N
    <3>1. IsLive(role[r]) /\ KeyOf(role[r]) \in Writes(doing[w]) /\ ~ (doing[w].op = "updateRole" /\ doing[w].id = r)
      BY <1>5, <2>2
    <3> QED BY <1>5, <2>2, <3>1 DEF SlugsChecked
  <2>3. CASE q \notin N /\ r \in N
    <3>1. IsLive(role[q]) /\ KeyOf(role[q]) \in Writes(doing[w]) /\ ~ (doing[w].op = "updateRole" /\ doing[w].id = q)
      BY <1>5, <2>3
    <3> QED BY <1>5, <2>3, <3>1 DEF SlugsChecked
  <2>4. CASE q \notin N /\ r \notin N
    BY <1>5, <2>4 DEF SlugsChecked
  <2> QED BY <2>1, <2>2, <2>3, <2>4
<1>6. ASSUME NEW v \in Workers, NEW r \in RoleIds, IsLive(role'[r]), KeyOf(role'[r]) \in Writes(doing'[v]),
             ~ (doing'[v].op = "updateRole" /\ doing'[v].id = r)
      PROVE  KeyOf(role'[r]) \in overlapped
  <2>1. v # w /\ doing'[v] = doing[v]
    BY <1>1, <1>3, <1>6
  <2>2. CASE r \in N
    BY <1>6, <2>1, <2>2 DEF SlugsChecked
  <2>3. CASE r \notin N
    BY <1>6, <2>1, <2>3 DEF SlugsChecked
  <2> QED BY <2>2, <2>3
<1>7. ASSUME NEW u \in Workers, NEW v \in Workers, u # v
      PROVE  Writes(doing'[u]) \cap Writes(doing'[v]) \subseteq overlapped
  BY <1>3, <1>7 DEF SlugsChecked
<1> QED BY <1>4, <1>5, <1>6, <1>7 DEF SlugsChecked, IsLive, KeyOf

\* A job that is taken has looked for its slug.
LEMMA TakenKeepsSlugs ==
  ASSUME SlugsChecked, NEW w \in Workers, doing[w] = None, NEW job,
         doing \in [Workers -> RoleJobs \cup {None}], doing' = [doing EXCEPT ![w] = job], role' = role,
         overlapped \subseteq overlapped',
         Writes(job) \cap UNION {Writes(doing[v]) : v \in Workers} \subseteq overlapped',
         \A r \in RoleIds : IsLive(role[r]) /\ KeyOf(role[r]) \in Writes(job) =>
           job.op = "updateRole" /\ job.id = r
  PROVE  SlugsChecked'
<1>1. doing'[w] = job /\ \A v \in Workers \ {w} : doing'[v] = doing[v]
  OBVIOUS
<1>2. \A v \in Workers : Writes(doing[v])' = Writes(doing'[v])
  BY DEF Writes
<1>3. \A v \in Workers \ {w} : Writes(job) \cap Writes(doing[v]) \subseteq overlapped'
  OBVIOUS
<1>4. ASSUME NEW u \in Workers, NEW v \in Workers, u # v
      PROVE  Writes(doing'[u]) \cap Writes(doing'[v]) \subseteq overlapped'
  <2>1. CASE u = w
    BY <1>1, <1>3, <1>4, <2>1
  <2>2. CASE v = w
    BY <1>1, <1>3, <1>4, <2>2
  <2>3. CASE u # w /\ v # w
    BY <1>1, <1>4, <2>3 DEF SlugsChecked
  <2> QED BY <2>1, <2>2, <2>3
<1>5. ASSUME NEW v \in Workers, NEW r \in RoleIds, IsLive(role[r]), KeyOf(role[r]) \in Writes(doing'[v]),
             ~ (doing'[v].op = "updateRole" /\ doing'[v].id = r)
      PROVE  KeyOf(role[r]) \in overlapped'
  <2>1. v # w
    BY <1>1, <1>5
  <2> QED BY <1>1, <1>5, <2>1 DEF SlugsChecked
<1> QED BY <1>2, <1>4, <1>5 DEF SlugsChecked, IsLive, KeyOf

\* A role is still where it was, and as every role should be.
WellKept(r) ==
  /\ Placed(r)
  /\ role'[r] # None /\ role'[r].life = "gone" => DOMAIN role'[r].permissions = {}
  /\ IsLive(role'[r]) => Managed(role'[r].permissions)

\* It is enough to look at the roles a statement writes (N).
LEMMA DoneKeeps ==
  ASSUME RolesInv, NEW w \in Workers, doing[w] # None, RoleDone(w), statements' \in 0 .. MaxStatements,
         role' \in [RoleIds -> RoleRow \cup {None}], NEW N \in SUBSET RoleIds,
         \A r \in RoleIds : WellKept(r),
         \A r \in RoleIds \ N : IsLive(role'[r]) => IsLive(role[r]) /\ KeyOf(role'[r]) = KeyOf(role[r]),
         \A r \in N : IsLive(role'[r]) => KeyOf(role'[r]) \in Writes(doing[w]),
         \A q, r \in N : q # r => KeyOf(role'[q]) # KeyOf(role'[r]),
         \A r \in N : doing[w].op = "updateRole" => doing[w].id = r
  PROVE  RolesInv'
<1>1. doing' = [doing EXCEPT ![w] = None] /\ UNCHANGED <<owning, overlapped, roleScope>>
  BY DEF RoleDone
<1>2. JobsSound' /\ doing' \in [Workers -> RoleJobs \cup {None}]
  BY <1>1, DoneKeepsJobs DEF RolesInv, WellKept
<1>3. SlugsChecked'
  BY <1>1, DoneKeepsSlugs DEF RolesInv, RolesTyped
<1>4. RolesTyped'
  BY <1>1, <1>2 DEF RolesInv, RolesTyped, WellKept
<1>5. EveryRoleIsManaged'
  <2>1. ASSUME NEW r \in RoleIds, IsLive(role'[r]), NEW f \in ManagedResources
        PROVE  f \in DOMAIN role'[r].permissions /\ Unchanged(role'[r].permissions[f], ManagedPermission)
    BY <2>1 DEF WellKept, Managed
  <2> QED BY <2>1 DEF EveryRoleIsManaged, LiveRoles, IsLive, Unchanged
<1> QED BY <1>2, <1>3, <1>4, <1>5 DEF RolesInv

\* A role nothing writes is well kept.
LEMMA SameIsKept ==
  ASSUME RolesInv, NEW r \in RoleIds, role'[r] = role[r]
  PROVE  WellKept(r) /\ (IsLive(role'[r]) => IsLive(role[r]) /\ KeyOf(role'[r]) = KeyOf(role[r]))
<1>1. IsLive(role[r]) => Managed(role[r].permissions)
  BY DEF RolesInv, EveryRoleIsManaged, LiveRoles, Managed
<1> QED BY <1>1 DEF WellKept, Placed, RolesInv, RolesTyped, IsLive

\* A job that is under way keeps what it should.
LEMMA JobFields ==
  ASSUME RolesInv, NEW w \in Workers, doing[w] # None
  PROVE  doing[w] \in RoleJobs /\ SoundJob(doing[w], role) /\ Guarded(doing[w])
BY DEF RolesInv, RolesTyped, JobsSound

\* The rows of a statement that changes one role and leaves its key.
LEMMA OneRowKeeps ==
  ASSUME RolesInv, NEW w \in Workers, doing[w] # None, RoleDone(w), statements' \in 0 .. MaxStatements,
         NEW r \in RoleIds, role[r] # None, NEW row \in RoleRow, role' = [role EXCEPT ![r] = row],
         row.panel = role[r].panel, row.org = role[r].org, row.slug = role[r].slug,
         row.life = "live" => role[r].life = "live" /\ Managed(row.permissions),
         row.life = "gone" => DOMAIN row.permissions = {}
  PROVE  RolesInv'
<1>1. role \in [RoleIds -> RoleRow \cup {None}]
  BY DEF RolesInv, RolesTyped
<1>2. role' \in [RoleIds -> RoleRow \cup {None}] /\ role'[r] = row /\ \A q \in RoleIds \ {r} : role'[q] = role[q]
  BY <1>1
<1>3. row # None
  BY RolesAssumption
<1>4. WellKept(r) /\ (IsLive(role'[r]) => IsLive(role[r]) /\ KeyOf(role'[r]) = KeyOf(role[r]))
  BY <1>2, <1>3 DEF WellKept, Placed, IsLive, KeyOf
<1>5. \A q \in RoleIds : WellKept(q) /\ (IsLive(role'[q]) => IsLive(role[q]) /\ KeyOf(role'[q]) = KeyOf(role[q]))
  BY <1>2, <1>4, SameIsKept
<1> QED
  <2> DEFINE N == {}
  <2>1. \A q \in RoleIds \ N : IsLive(role'[q]) => IsLive(role[q]) /\ KeyOf(role'[q]) = KeyOf(role[q])
    BY <1>5
  <2>2. N \in SUBSET RoleIds
    OBVIOUS
  <2> QED BY ONLY <1>2, <1>5, <2>1, <2>2, RolesInv, w \in Workers, doing[w] # None, RoleDone(w),
                  statements' \in 0 .. MaxStatements, DoneKeeps

\* A statement that finds nothing to change.
LEMMA NoRowKeeps ==
  ASSUME RolesInv, NEW w \in Workers, doing[w] # None, RoleDone(w), statements' = statements, role' = role
  PROVE  RolesInv'
<1> DEFINE N == {}
<1>1. statements' \in 0 .. MaxStatements /\ role' \in [RoleIds -> RoleRow \cup {None}]
  BY DEF RolesInv, RolesTyped
<1>2. \A q \in RoleIds : WellKept(q) /\ (IsLive(role'[q]) => IsLive(role[q]) /\ KeyOf(role'[q]) = KeyOf(role[q]))
  BY SameIsKept
<1>3. \A q \in RoleIds \ N : IsLive(role'[q]) => IsLive(role[q]) /\ KeyOf(role'[q]) = KeyOf(role[q])
  BY <1>2
<1>4. N \in SUBSET RoleIds
  OBVIOUS
<1> QED BY ONLY <1>1, <1>2, <1>3, <1>4, RolesInv, w \in Workers, doing[w] # None, RoleDone(w), DoneKeeps

-----------------------------------------------------------------------------
(* The statements *)

\* A live role has permissions, and they are managed.
LEMMA LiveRow ==
  ASSUME RolesInv, NEW r \in RoleIds, IsLive(role[r])
  PROVE  /\ role[r] \in RoleRow /\ role[r] # None /\ role[r].life = "live"
         /\ role[r].permissions \in PermissionTables /\ Managed(role[r].permissions)
         /\ \A p \in PermissionTables : [role[r] EXCEPT !.permissions = p] \in RoleRow
<1>1. role[r] \in RoleRow /\ role[r] # None /\ role[r].life = "live"
  BY DEF RolesInv, RolesTyped, IsLive
<1>2. Managed(role[r].permissions)
  BY DEF RolesInv, EveryRoleIsManaged, LiveRoles, Managed
<1> QED BY <1>1, <1>2, RowFields

\* A statement that replaces the permissions of a live role.
LEMMA PermissionsKeep ==
  ASSUME RolesInv, NEW w \in Workers, doing[w] # None, RoleDone(w), statements' \in 0 .. MaxStatements,
         NEW r \in RoleIds, IsLive(role[r]), NEW p \in PermissionTables, Managed(p),
         role' = [role EXCEPT ![r] = [role[r] EXCEPT !.permissions = p]]
  PROVE  RolesInv'
<1> DEFINE row == [role[r] EXCEPT !.permissions = p]
<1>1. role[r] \in RoleRow /\ role[r] # None /\ role[r].life = "live" /\ row \in RoleRow
  BY LiveRow
<1>2. /\ row.panel = role[r].panel /\ row.org = role[r].org /\ row.slug = role[r].slug
      /\ row.life = "live" /\ row.permissions = p
  BY <1>1, RowFields
<1> HIDE DEF row
<1>3. role' = [role EXCEPT ![r] = row]
  BY DEF row
<1> QED BY ONLY <1>1, <1>2, <1>3, Managed(p), RolesInv, w \in Workers, doing[w] # None, RoleDone(w),
                statements' \in 0 .. MaxStatements, r \in RoleIds, OneRowKeeps

\* A handler that stops writes nothing more.
LEMMA AbandonKeeps ==
  ASSUME RolesInv, NEW w \in Workers, AbandonRoles(w)
  PROVE  RolesInv'
BY NoRowKeeps DEF AbandonRoles

\* The slug that is written was checked.
LEMMA InsertRoleKeeps ==
  ASSUME RolesInv, NEW w \in Workers, Reached(w, "createRole"), InsertRole(w)
  PROVE  RolesInv'
<1> DEFINE job == doing[w]
<1>1. doing[w] # None /\ job.op = "createRole" /\ RoleDone(w) /\ statements' = statements + 1 /\ statements < MaxStatements
  BY DEF Reached, InsertRole
<1>2. /\ job \in RoleJobs /\ job.body \in RoleBody /\ job.by \in RoleCaller
      /\ job.body.slug \in RoleSlugs /\ job.body.slug # None /\ job.org \in RoleOrgs \cup {None}
  BY <1>1, JobFields, RolesAssumption DEF SoundJob, RoleJobs, RoleBody
<1>3. statements' \in 0 .. MaxStatements
  BY <1>1, RolesAssumption DEF RolesInv, RolesTyped
<1>4. PICK r \in FreshRoles(1) :
        role' = [role EXCEPT ![r] = NewRole(job.by.panel, job.org, job.body.slug,
                                            MergedPermissions(job.body), statements')]
  BY DEF InsertRole
<1>5. r \in RoleIds /\ role[r] = None
  BY DEF FreshRoles
<1>6. ManagedTable(MergedPermissions(job.body))
  BY <1>2, MergedTable
<1>7. job.by.panel \in Panels
  BY <1>2 DEF RoleCaller
<1> DEFINE row == NewRole(job.by.panel, job.org, job.body.slug, MergedPermissions(job.body), statements')
<1>8. /\ row \in RoleRow /\ Managed(row.permissions) /\ row.life = "live"
      /\ KeyOf(row) = <<job.by.panel, job.org, job.body.slug>>
  <2> HIDE DEF job
  <2> QED BY <1>2, <1>3, <1>6, <1>7, NewRow
<1>9. Writes(job) = {<<job.by.panel, job.org, job.body.slug>>}
  BY <1>1, <1>2 DEF Writes
<1> HIDE DEF row
<1>10. role' = [role EXCEPT ![r] = row] /\ role \in [RoleIds -> RoleRow \cup {None}]
  BY <1>4 DEF row, RolesInv, RolesTyped
<1>11. role' \in [RoleIds -> RoleRow \cup {None}] /\ role'[r] = row /\ \A q \in RoleIds \ {r} : role'[q] = role[q]
  BY <1>5, <1>8, <1>10
<1>12. WellKept(r)
  BY <1>5, <1>8, <1>11 DEF WellKept, Placed
<1>13. \A q \in RoleIds \ {r} : WellKept(q) /\ (IsLive(role'[q]) => IsLive(role[q]) /\ KeyOf(role'[q]) = KeyOf(role[q]))
  BY <1>11, SameIsKept
<1> DEFINE N == {r}
<1>14. /\ N \in SUBSET RoleIds /\ \A q \in RoleIds : WellKept(q)
       /\ \A q \in RoleIds \ N : IsLive(role'[q]) => IsLive(role[q]) /\ KeyOf(role'[q]) = KeyOf(role[q])
  BY <1>5, <1>12, <1>13
<1>15. \A q \in N : IsLive(role'[q]) => KeyOf(role'[q]) \in Writes(doing[w])
  BY <1>8, <1>9, <1>11
<1>16. \A p, q \in N : p # q => KeyOf(role'[p]) # KeyOf(role'[q])
  OBVIOUS
<1>17. \A q \in N : doing[w].op = "updateRole" => doing[w].id = q
  BY <1>1
<1> HIDE DEF N
<1> QED BY ONLY <1>1, <1>3, <1>11, <1>14, <1>15, <1>16, <1>17, RolesInv, w \in Workers, DoneKeeps

\* So it is when a role is renamed, and it is the role that was looked up.
LEMMA WriteRoleKeeps ==
  ASSUME RolesInv, NEW w \in Workers, Reached(w, "updateRole"), WriteRole(w)
  PROVE  RolesInv'
<1> DEFINE job == doing[w]
           r == job.id
           row == [role[r] EXCEPT !.slug = job.body.slug]
<1>1. doing[w] # None /\ job.op = "updateRole" /\ RoleDone(w) /\ statements' = statements
  BY DEF Reached, WriteRole
<1>2. /\ job \in RoleJobs /\ job.body \in RoleBody /\ r \in RoleIds /\ role[r] # None
      /\ role[r].panel = job.by.panel /\ role[r].org = job.org
  BY <1>1, JobFields, RolesAssumption DEF SoundJob
<1>3. CASE ~ (job.body.slug # None /\ IsLive(role[r]))
  BY <1>1, <1>3, NoRowKeeps DEF WriteRole
<1>4. CASE job.body.slug # None /\ IsLive(role[r])
  <2>1. role[r] \in RoleRow /\ role[r].life = "live" /\ Managed(role[r].permissions) /\ job.body.slug \in RoleSlugs
    BY <1>2, <1>4, LiveRow DEF RoleBody
  <2>2. role' = [role EXCEPT ![r].slug = job.body.slug] /\ role \in [RoleIds -> RoleRow \cup {None}]
    BY <1>4 DEF WriteRole, RolesInv, RolesTyped
  <2>3. /\ row \in RoleRow /\ row.panel = role[r].panel /\ row.org = role[r].org /\ row.slug = job.body.slug
        /\ row.life = "live" /\ row.permissions = role[r].permissions
    BY <2>1, RowFields
  <2>4. role' = [role EXCEPT ![r] = row]
    BY <1>2, <2>2
  <2>5. Writes(job) = {<<job.by.panel, job.org, job.body.slug>>}
    BY <1>1, <1>4 DEF Writes
  <2> HIDE DEF row, job, r
  <2>6. role' \in [RoleIds -> RoleRow \cup {None}] /\ role'[r] = row /\ \A q \in RoleIds \ {r} : role'[q] = role[q]
    BY <1>2, <2>2, <2>3, <2>4
  <2>7. row # None
    BY <2>3, RolesAssumption
  <2>8. WellKept(r)
    BY <1>2, <2>1, <2>3, <2>6, <2>7 DEF WellKept, Placed
  <2>9. \A q \in RoleIds \ {r} : WellKept(q) /\ (IsLive(role'[q]) => IsLive(role[q]) /\ KeyOf(role'[q]) = KeyOf(role[q]))
    BY <2>6, SameIsKept
  <2>10. KeyOf(role'[r]) = <<job.by.panel, job.org, job.body.slug>>
    BY <1>2, <2>3, <2>6 DEF KeyOf
  <2> DEFINE N == {r}
  <2>11. /\ N \in SUBSET RoleIds /\ \A q \in RoleIds : WellKept(q)
         /\ \A q \in RoleIds \ N : IsLive(role'[q]) => IsLive(role[q]) /\ KeyOf(role'[q]) = KeyOf(role[q])
    BY <1>2, <2>8, <2>9
  <2>12. \A q \in N : IsLive(role'[q]) => KeyOf(role'[q]) \in Writes(doing[w])
    BY <2>5, <2>10 DEF job
  <2>13. \A p, q \in N : p # q => KeyOf(role'[p]) # KeyOf(role'[q])
    OBVIOUS
  <2>14. \A q \in N : doing[w].op = "updateRole" => doing[w].id = q
    BY DEF r, job
  <2>15. statements' \in 0 .. MaxStatements
    BY <1>1 DEF RolesInv, RolesTyped
  <2> HIDE DEF N
  <2> QED BY ONLY <1>1, <2>6, <2>11, <2>12, <2>13, <2>14, <2>15, RolesInv, w \in Workers, DoneKeeps
<1> QED BY <1>3, <1>4

\* The statements on tables, one at a time: a role leaves with its grants.
LEMMA DeleteRoleKeeps ==
  ASSUME RolesInv, NEW w \in Workers, Reached(w, "removeRole"), DeleteRole(w)
  PROVE  RolesInv'
<1> DEFINE r == doing[w].id
<1>1. /\ doing[w] # None /\ doing[w].op = "removeRole" /\ RoleDone(w) /\ statements' = statements
      /\ role' = IF IsLive(role[r]) THEN [role EXCEPT ![r] = Removed(role[r])] ELSE role
  BY DEF Reached, DeleteRole
<1>2. r \in RoleIds /\ role[r] # None
  BY <1>1, JobFields DEF SoundJob
<1>3. CASE ~ IsLive(role[r])
  BY <1>1, <1>3, NoRowKeeps
<1>4. CASE IsLive(role[r])
  <2>1. role[r] \in RoleRow
    BY <1>2, <1>4, LiveRow
  <2>2. [q \in {} |-> None] \in PermissionTables
    BY DEF PermissionTables
  <2>3. /\ Removed(role[r]) \in RoleRow /\ Removed(role[r]).panel = role[r].panel
        /\ Removed(role[r]).org = role[r].org /\ Removed(role[r]).slug = role[r].slug
        /\ Removed(role[r]).life = "gone" /\ DOMAIN Removed(role[r]).permissions = {}
    BY <2>1, <2>2, RowFields DEF Removed
  <2>4. statements' \in 0 .. MaxStatements
    BY <1>1 DEF RolesInv, RolesTyped
  <2>5. role' = [role EXCEPT ![r] = Removed(role[r])]
    BY <1>1, <1>4
  <2> QED BY <1>1, <1>2, <2>3, <2>4, <2>5, OneRowKeeps
<1> QED BY <1>3, <1>4

\* A grant enters the table of a role the handler still finds managed.
LEMMA InsertPermissionKeeps ==
  ASSUME RolesInv, NEW w \in Workers, Reached(w, "createPermission"), InsertPermission(w)
  PROVE  RolesInv'
<1> DEFINE job == doing[w]
           r == job.id
           row == [f \in {job.body.resource} |-> NormalizedPermission(job.body)]
           old == role[r].permissions
           p == [f \in DOMAIN old \cup DOMAIN row |-> IF f \in DOMAIN old THEN old[f] ELSE Inserted(row, statements')[f]]
<1>1. /\ doing[w] # None /\ job.op = "createPermission" /\ RoleDone(w) /\ statements' = statements + 1
      /\ statements < MaxStatements /\ IsLive(role[r])
      /\ role' = [role EXCEPT ![r] = [role[r] EXCEPT !.permissions = p]]
  BY DEF Reached, InsertPermission
<1>2. job.body \in RoleBody /\ r \in RoleIds /\ job.body.resource \in Resources
  BY <1>1, JobFields, RolesAssumption DEF SoundJob, PermissionCalls
<1>3. statements' \in 0 .. MaxStatements
  BY <1>1, RolesAssumption DEF RolesInv, RolesTyped
<1>4. old \in PermissionTables /\ Managed(old)
  BY <1>1, <1>2, LiveRow
<1>5. row \in [{job.body.resource} -> Values] /\ {job.body.resource} \in SUBSET Resources
  BY <1>2, NormalizedValues
<1>6. Inserted(row, statements') \in [{job.body.resource} -> Permission]
  <2> HIDE DEF row, job
  <2> QED BY <1>3, <1>5, InsertedTable
<1>7. DOMAIN row = {job.body.resource}
  OBVIOUS
<1>8. DOMAIN old \subseteq Resources /\ \A f \in DOMAIN old : old[f] \in Permission
  <2> HIDE DEF old
  <2> QED BY <1>4, TableFields
<1>9. p \in PermissionTables
  <2> DEFINE D == DOMAIN old \cup {job.body.resource}
  <2>1. p \in [D -> Permission]
    <3> HIDE DEF row, old, job
    <3> QED BY <1>6, <1>7, <1>8
  <2>2. D \in SUBSET Resources
    BY <1>2, <1>8
  <2> HIDE DEF p, D
  <2> QED BY <2>1, <2>2, TableMade
<1>10. Managed(p)
  <2> HIDE DEF row, old
  <2> QED BY <1>4 DEF Managed, Unchanged
<1> HIDE DEF p, job, r
<1> QED BY <1>1, <1>2, <1>3, <1>9, <1>10, PermissionsKeep DEF r, job

\* What a body leaves out is as it was read, and what is managed stays managed.
LEMMA SetPermissionKeeps ==
  ASSUME RolesInv, NEW w \in Workers, Reached(w, "updatePermission"), SetPermission(w)
  PROVE  RolesInv'
<1> DEFINE job == doing[w]
           r == job.id
           f == job.body.resource
           body == [job.body EXCEPT !.level = IF @ = None THEN job.old.level ELSE @,
                                    !.actions = IF @ = None THEN job.old.actions ELSE @]
           row == NormalizedPermission(body)
           old == role[r].permissions
           p == [old EXCEPT ![f] = [level |-> row.level, actions |-> row.actions, id |-> @.id]]
<1>1. doing[w] # None /\ job.op = "updatePermission" /\ RoleDone(w) /\ statements' = statements
  BY DEF Reached, SetPermission
<1>2. job.body \in RoleBody /\ job.old \in Permission /\ r \in RoleIds /\ f \in Resources
  BY <1>1, JobFields, RolesAssumption DEF SoundJob, PermissionCalls
<1>3. CASE ~ HasPermissionRow(job)
  BY <1>1, <1>3, NoRowKeeps DEF SetPermission
<1>4. CASE HasPermissionRow(job)
  <2>1. IsLive(role[r]) /\ f \in DOMAIN old
    BY <1>4 DEF HasPermissionRow
  <2>2. role' = [role EXCEPT ![r] = [role[r] EXCEPT !.permissions = p]]
    BY <1>4 DEF SetPermission
  <2>3. body \in RoleBody /\ body.resource = f
    BY <1>2 DEF RoleBody, Permission
  <2>4. row \in Values /\ (f \in ManagedResources => row = ManagedPermission)
    <3> HIDE DEF body, f
    <3> QED BY <2>3, NormalizedValues
  <2>5. old \in PermissionTables /\ Managed(old)
    BY <1>2, <2>1, LiveRow
  <2> DEFINE new == [level |-> row.level, actions |-> row.actions, id |-> old[f].id]
  <2>6. /\ old = [g \in DOMAIN old |-> old[g]] /\ DOMAIN old \subseteq Resources
        /\ \A g \in DOMAIN old : old[g] \in Permission
    <3> HIDE DEF old
    <3> QED BY <2>5, TableFields
  <2>7. new \in Permission /\ new.level = row.level /\ new.actions = row.actions
    <3> HIDE DEF row, old, f
    <3> QED BY <2>1, <2>4, <2>6 DEF Values, Permission
  <2>8. p = [old EXCEPT ![f] = new]
    OBVIOUS
  <2> HIDE DEF p, new, row, old, f, r
  <2>9. p \in [DOMAIN old -> Permission] /\ p[f] = new /\ \A g \in DOMAIN old \ {f} : p[g] = old[g]
    BY <2>1, <2>6, <2>7, <2>8
  <2>10. p \in PermissionTables /\ DOMAIN p = DOMAIN old
    BY <2>6, <2>9, TableMade
  <2>11. Managed(p)
    BY <2>4, <2>5, <2>7, <2>9, <2>10 DEF Managed, Unchanged
  <2>12. statements' \in 0 .. MaxStatements
    BY <1>1 DEF RolesInv, RolesTyped
  <2> QED BY <1>1, <1>2, <2>1, <2>2, <2>10, <2>11, <2>12, PermissionsKeep
<1> QED BY <1>3, <1>4

\* What is managed is not removed.
LEMMA DeletePermissionKeeps ==
  ASSUME RolesInv, NEW w \in Workers, Reached(w, "removePermission"), DeletePermission(w)
  PROVE  RolesInv'
<1> DEFINE job == doing[w]
           r == job.id
           f == job.body.resource
           old == role[r].permissions
           p == [g \in DOMAIN old \ {f} |-> old[g]]
<1>1. doing[w] # None /\ job.op = "removePermission" /\ RoleDone(w) /\ statements' = statements
  BY DEF Reached, DeletePermission
<1>2. r \in RoleIds /\ f \in Resources /\ f \notin ManagedResources
  BY <1>1, JobFields DEF SoundJob, PermissionCalls
<1>3. CASE ~ HasPermissionRow(job)
  BY <1>1, <1>3, NoRowKeeps DEF DeletePermission
<1>4. CASE HasPermissionRow(job)
  <2>1. IsLive(role[r]) /\ f \in DOMAIN old
    BY <1>4 DEF HasPermissionRow
  <2>2. role' = [role EXCEPT ![r] = [role[r] EXCEPT !.permissions = p]]
    BY <1>4 DEF DeletePermission
  <2>3. old \in PermissionTables /\ Managed(old)
    BY <1>2, <2>1, LiveRow
  <2> HIDE DEF old, r, f
  <2>4. DOMAIN old \subseteq Resources /\ \A g \in DOMAIN old : old[g] \in Permission
    BY <2>3, TableFields
  <2>5. p \in [DOMAIN old \ {f} -> Permission] /\ DOMAIN old \ {f} \in SUBSET Resources
    BY <2>4
  <2>6. p \in PermissionTables
    <3> HIDE DEF p
    <3> QED BY <2>5, TableMade
  <2>7. Managed(p)
    BY <1>2, <2>3 DEF Managed, Unchanged
  <2>8. statements' \in 0 .. MaxStatements
    BY <1>1 DEF RolesInv, RolesTyped
  <2> HIDE DEF p
  <2> QED BY <1>1, <1>2, <2>1, <2>2, <2>6, <2>7, <2>8, PermissionsKeep
<1> QED BY <1>3, <1>4

-----------------------------------------------------------------------------
(* The reads *)

\* A handler that has read keeps what its call is about.
LEMMA NewJobType ==
  ASSUME NEW op \in RoleCalls, NEW c \in RoleCallers \cup {None}
  PROVE  /\ NewJob(op, c) \in RoleJobs /\ NewJob(op, c).op = op /\ NewJob(op, c).step = "write"
         /\ NewJob(op, c).by = c /\ NewJob(op, c).org = None /\ NewJob(op, c).old = None
         /\ NewJob(op, c).oldSlug = None
<1> DEFINE nothing == [r \in {} |-> None]
<1>1. nothing \in [{} -> [slug : Presets, permissions : PermissionTables \cup {None}]]
  OBVIOUS
<1>2. nothing \in UNION {[S -> [slug : Presets, permissions : PermissionTables \cup {None}]] : S \in SUBSET RoleIds}
  BY <1>1
<1> HIDE DEF nothing
<1>3. NewJob(op, c) = [op |-> op, step |-> "write", by |-> c, id |-> None, org |-> None, body |-> None, old |-> None,
                       oldSlug |-> None, missing |-> {}, seen |-> nothing]
  BY DEF NewJob, nothing
<1> QED BY <1>2, <1>3 DEF RoleJobs

\* A job is taken that has looked for the slugs it will write.
LEMMA TakeKeeps ==
  ASSUME RolesInv, NEW w \in Workers, NEW job \in RoleJobs, SoundJob(job, role), Guarded(job), Take(w, job),
         overlapped \subseteq overlapped',
         Writes(job) \cap UNION {Writes(doing[v]) : v \in Workers} \subseteq overlapped',
         \A r \in RoleIds : IsLive(role[r]) /\ KeyOf(role[r]) \in Writes(job) =>
           job.op = "updateRole" /\ job.id = r
  PROVE  RolesInv'
<1>1. /\ doing[w] = None /\ doing' = [doing EXCEPT ![w] = job]
      /\ UNCHANGED <<role, owning, statements, roleScope>>
  BY DEF Take
<1>2. JobsSound' /\ doing' \in [Workers -> RoleJobs \cup {None}]
  BY <1>1, TakenKeepsJobs DEF RolesInv
<1>3. SlugsChecked'
  BY <1>1, TakenKeepsSlugs DEF RolesInv, RolesTyped
<1>4. RolesTyped'
  BY <1>1, <1>2 DEF RolesInv, RolesTyped
<1>5. EveryRoleIsManaged'
  BY <1>1 DEF RolesInv, EveryRoleIsManaged, LiveRoles, IsLive, Unchanged
<1> QED BY <1>2, <1>3, <1>4, <1>5 DEF RolesInv

\* A handler that begins, and writes no table, keeps what the others rely on.
LEMMA TakeOnlyKeeps ==
  ASSUME RolesInv, NEW w \in Workers, NEW job \in RoleJobs, SoundJob(job, role), Guarded(job), TakeOnly(w, job),
         job.op \in {"removeRole"} \cup PermissionCalls
  PROVE  RolesInv'
<1>1. Writes(job) = {}
  BY DEF Writes, PermissionCalls
<1> QED BY <1>1, TakeKeeps DEF TakeOnly

\* What each handler has read when it begins is sound: creating a role,
LEMMA TakeCreate ==
  ASSUME RolesInv, NEW w \in Workers, NEW c \in RoleCallers, NEW b \in RoleBodies, NEW org \in RoleOrgs \cup {None},
         b.slug # None, ~ SlugConflict(c.panel, org, b.slug, None), c.org # None => CanManage(c, b.slug),
         NEW job \in RoleJobs, job.op = "createRole", job.step = "write", job.by = c, job.org = org, job.body = b,
         TakeWithSlug(w, job)
  PROVE  RolesInv'
<1>3. SoundJob(job, role) /\ Guarded(job)
  BY DEF SoundJob, Guarded, PermissionCalls
<1>4. Writes(job) \subseteq {<<c.panel, org, b.slug>>}
  BY DEF Writes
<1>5. ASSUME NEW r \in RoleIds, IsLive(role[r]), KeyOf(role[r]) \in Writes(job)
      PROVE  FALSE
  <2>1. role[r].panel = c.panel /\ role[r].org = org /\ role[r].slug = b.slug
    BY <1>4, <1>5 DEF KeyOf
  <2>2. r # None
    BY RolesAssumption
  <2> QED BY <1>5, <2>1, <2>2 DEF SlugConflict, LiveRoles
<1>6. Take(w, job) /\ overlapped' = overlapped \cup (Writes(job) \cap UNION {Writes(doing[v]) : v \in Workers})
  BY DEF TakeWithSlug
<1> QED BY <1>3, <1>5, <1>6, TakeKeeps

\* updating one,
LEMMA TakeUpdate ==
  ASSUME RolesInv, NEW w \in Workers, NEW c \in RoleCallers, NEW b \in RoleBodies, NEW r \in RoleIds,
         FindsRole(c, r), NEW oldSlug \in {None, role[r].slug},
         b.slug # None => ~ SlugConflict(c.panel, role[r].org, b.slug, r),
         c.org # None => /\ oldSlug = role[r].slug /\ CanManage(c, role[r].slug)
                         /\ b.slug # None => CanManage(c, b.slug),
         NEW job \in RoleJobs, job.op = "updateRole", job.step = "write", job.by = c, job.id = r,
         job.org = role[r].org, job.body = b, job.oldSlug = oldSlug, TakeWithSlug(w, job)
  PROVE  RolesInv'
<1>1. /\ IsLive(role[r]) /\ role[r].panel = c.panel /\ role[r] # None /\ role[r] \in RoleRow
      /\ role[r].org \in RoleOrgs \cup {None} /\ role[r].slug \in RoleSlugs
  BY LiveRow, RowFields DEF FindsRole
<1>4. SoundJob(job, role)
  BY <1>1 DEF SoundJob, PermissionCalls
<1>5. Guarded(job)
  BY <1>1 DEF Guarded, PermissionCalls
<1>6. Writes(job) \subseteq {<<c.panel, role[r].org, b.slug>>}
  BY DEF Writes
<1>7. b.slug = None => Writes(job) = {}
  BY DEF Writes
<1>8. ASSUME NEW q \in RoleIds, IsLive(role[q]), KeyOf(role[q]) \in Writes(job)
      PROVE  job.op = "updateRole" /\ job.id = q
  <2>1. b.slug # None /\ role[q].panel = c.panel /\ role[q].org = role[r].org /\ role[q].slug = b.slug
    BY <1>6, <1>7, <1>8 DEF KeyOf
  <2> QED BY <1>8, <2>1 DEF SlugConflict, LiveRoles
<1>9. Take(w, job) /\ overlapped' = overlapped \cup (Writes(job) \cap UNION {Writes(doing[v]) : v \in Workers})
  BY DEF TakeWithSlug
<1> QED BY <1>4, <1>5, <1>8, <1>9, TakeKeeps

\* removing one,
LEMMA TakeRemove ==
  ASSUME RolesInv, NEW w \in Workers, NEW c \in RoleCallers, NEW r \in RoleIds, IsLive(role[r]),
         NEW oldSlug \in {None, role[r].slug},
         c.org # None => oldSlug = role[r].slug /\ CanManage(c, role[r].slug),
         NEW job \in RoleJobs, job.op = "removeRole", job.step = "write", job.by = c, job.id = r,
         job.oldSlug = oldSlug, TakeOnly(w, job)
  PROVE  RolesInv'
<1>1. role[r] # None /\ role[r].slug \in RoleSlugs
  BY LiveRow, RowFields
<1>4. SoundJob(job, role) /\ Guarded(job)
  BY <1>1 DEF SoundJob, Guarded, PermissionCalls
<1> QED BY <1>4, TakeOnlyKeeps

\* and the three calls on its grants.
LEMMA TakePermission ==
  ASSUME RolesInv, NEW w \in Workers, NEW op \in PermissionCalls, NEW c \in RoleCallers, NEW b \in RoleBodies,
         NEW r \in RoleIds, IsLive(role[r]), NEW old \in Permission \cup {None}, NEW oldSlug \in {None, role[r].slug},
         b.resource # None,
         op = "updatePermission" => old \in Permission,
         op = "removePermission" => b.resource \notin ManagedResources,
         c.org # None => oldSlug = role[r].slug /\ CanManage(c, role[r].slug),
         NEW job \in RoleJobs, job.op = op, job.step = "write", job.by = c, job.id = r, job.body = b,
         job.oldSlug = oldSlug, job.old = old, TakeOnly(w, job)
  PROVE  RolesInv'
<1>1. role[r] # None /\ role[r].slug \in RoleSlugs /\ b.resource \in Resources
  BY LiveRow, RowFields, RolesAssumption DEF RoleBody
<1>4. SoundJob(job, role)
  BY <1>1 DEF SoundJob, PermissionCalls
<1>5. Guarded(job)
  BY <1>1 DEF Guarded, PermissionCalls
<1> QED BY <1>4, <1>5, TakeOnlyKeeps

\* A permission that is found is one of the role's.
LEMMA FoundPermission ==
  ASSUME RolesInv, NEW r \in RoleIds, IsLive(role[r]), NEW b \in RoleBodies, PermissionOf(r, b) # None
  PROVE  b.resource # None /\ PermissionOf(r, b) \in Permission
<1>1. role[r].permissions \in PermissionTables
  BY LiveRow
<1>2. DOMAIN role[r].permissions \subseteq Resources /\ \A f \in DOMAIN role[r].permissions : role[r].permissions[f] \in Permission
  BY <1>1, TableFields
<1> QED BY <1>2, RolesAssumption DEF PermissionOf

-----------------------------------------------------------------------------
(* The endpoints *)

\* Who is admitted to an endpoint.
LEMMA AdmittedCallers ==
  ASSUME RolesInv, NEW w \in Workers, NEW op
  PROVE  /\ \A c \in CompanyCalls(w, op) : c \in RoleCallers /\ c.org # None /\ c.panel = "company"
         /\ \A panel : \A c \in KernelCalls(w, panel, op) : c \in RoleCallers /\ c.org = None /\ c.panel = panel
         /\ roleScope.bodies \subseteq RoleBodies
<1>1. roleScope.callers \subseteq RoleCallers /\ roleScope.bodies \subseteq RoleBodies
  BY RolesAssumption DEF RolesInv, RolesTyped
<1> QED BY <1>1, RolesAssumption DEF CompanyCalls, KernelCalls, Admitted

\* The handlers of Roles, one at a time.
LEMMA CreateRoleKeeps ==
  ASSUME RolesInv, NEW w \in Workers, CompanyCreateRole(w) \/ KernelCreateRole(w) \/ ProptryxCreateRole(w)
  PROVE  RolesInv'
<1>1. ASSUME NEW c \in CompanyCalls(w, "createRole"), NEW b \in roleScope.bodies, b.slug # None, CanManage(c, b.slug),
             ~ SlugConflict("company", c.org, b.slug, None),
             TakeWithSlug(w, [NewJob("createRole", c) EXCEPT !.org = c.org, !.body = b])
      PROVE  RolesInv'
  <2>1. c \in RoleCallers /\ c.panel = "company" /\ b \in RoleBodies /\ c.org \in RoleOrgs \cup {None}
    BY AdmittedCallers, RolesAssumption DEF RoleCaller
  <2> DEFINE job == [NewJob("createRole", c) EXCEPT !.org = c.org, !.body = b]
  <2>2n. NewJob("createRole", c) \in RoleJobs
    BY <1>1, <2>1, NewJobType DEF RoleCalls
  <2>2j. job \in RoleJobs
    BY <1>1, <2>1, <2>2n, RolesAssumption DEF RoleJobs
  <2>2f. job.op = "createRole" /\ job.step = "write" /\ job.by = c /\ job.org = c.org /\ job.body = b
    BY <1>1, <2>1, <2>2n, NewJobType DEF RoleJobs, RoleCalls
  <2>2s. TakeWithSlug(w, job)
    BY <1>1
  <2> HIDE DEF job
  <2> QED BY <1>1, <2>1, <2>2j, <2>2f, <2>2s, TakeCreate
<1>2. ASSUME NEW c \in KernelCalls(w, "company", "createRole"), NEW b \in roleScope.bodies, NEW org \in owning, b.slug # None,
             ~ SlugConflict("company", org, b.slug, None),
             TakeWithSlug(w, [NewJob("createRole", c) EXCEPT !.org = org, !.body = b])
      PROVE  RolesInv'
  <2>1. c \in RoleCallers /\ c.panel = "company" /\ c.org = None /\ b \in RoleBodies
    BY AdmittedCallers
  <2>2. org \in RoleOrgs \cup {None}
    BY DEF RolesInv, RolesTyped
  <2> DEFINE job == [NewJob("createRole", c) EXCEPT !.org = org, !.body = b]
  <2>3n. NewJob("createRole", c) \in RoleJobs
    BY <1>2, <2>1, <2>2, NewJobType DEF RoleCalls
  <2>3j. job \in RoleJobs
    BY <1>2, <2>1, <2>2, <2>3n, RolesAssumption DEF RoleJobs
  <2>3f. job.op = "createRole" /\ job.step = "write" /\ job.by = c /\ job.org = org /\ job.body = b
    BY <1>2, <2>1, <2>2, <2>3n, NewJobType DEF RoleJobs, RoleCalls
  <2>3s. TakeWithSlug(w, job)
    BY <1>2
  <2> HIDE DEF job
  <2> QED BY <1>2, <2>1, <2>2, <2>3j, <2>3f, <2>3s, TakeCreate
<1>3. ASSUME NEW c \in KernelCalls(w, "proptryx", "createRole"), NEW b \in roleScope.bodies, b.slug # None,
             ~ SlugConflict("proptryx", None, b.slug, None),
             TakeWithSlug(w, [NewJob("createRole", c) EXCEPT !.body = b])
      PROVE  RolesInv'
  <2>1. c \in RoleCallers /\ c.panel = "proptryx" /\ c.org = None /\ b \in RoleBodies /\ None \in RoleOrgs \cup {None}
    BY AdmittedCallers
  <2> DEFINE job == [NewJob("createRole", c) EXCEPT !.body = b]
  <2>2n. NewJob("createRole", c) \in RoleJobs
    BY <1>3, <2>1, NewJobType DEF RoleCalls
  <2>2j. job \in RoleJobs
    BY <1>3, <2>1, <2>2n, RolesAssumption DEF RoleJobs
  <2>2f. job.op = "createRole" /\ job.step = "write" /\ job.by = c /\ job.org = None /\ job.body = b
    BY <1>3, <2>1, <2>2n, NewJobType DEF RoleJobs, RoleCalls
  <2>2s. TakeWithSlug(w, job)
    BY <1>3
  <2> HIDE DEF job
  <2> QED BY <1>3, <2>1, <2>2j, <2>2f, <2>2s, TakeCreate
<1>4. ASSUME Reached(w, "createRole"), InsertRole(w)
      PROVE  RolesInv'
  BY <1>4, InsertRoleKeeps
<1> QED BY <1>1, <1>2, <1>3, <1>4 DEF CompanyCreateRole, KernelCreateRole, ProptryxCreateRole, ByCompany, ByKernel

LEMMA UpdateRoleKeeps ==
  ASSUME RolesInv, NEW w \in Workers, CompanyUpdateRole(w) \/ KernelUpdateRole(w) \/ ProptryxUpdateRole(w)
  PROVE  RolesInv'
<1>1. ASSUME NEW c \in CompanyCalls(w, "updateRole"), NEW b \in roleScope.bodies, NEW r \in RoleIds,
             FindsRole(c, r), CanManage(c, role[r].slug),
             b.slug # None => CanManage(c, b.slug) /\ ~ SlugConflict("company", c.org, b.slug, r),
             TakeWithSlug(w, [NewJob("updateRole", c) EXCEPT !.id = r, !.org = c.org, !.body = b,
                                                             !.oldSlug = role[r].slug])
      PROVE  RolesInv'
  <2>1. c \in RoleCallers /\ c.panel = "company" /\ c.org # None /\ b \in RoleBodies /\ role[r].org = c.org
    BY <1>1, AdmittedCallers DEF FindsRole
  <2> DEFINE job == [NewJob("updateRole", c) EXCEPT !.id = r, !.org = c.org, !.body = b, !.oldSlug = role[r].slug]
  <2>2t. role[r].slug \in RoleSlugs /\ role[r].org \in RoleOrgs \cup {None}
    BY <1>1, LiveRow, RowFields DEF FindsRole
  <2>2n. NewJob("updateRole", c) \in RoleJobs
    BY <1>1, <2>1, <2>2t, NewJobType DEF RoleCalls
  <2>2j. job \in RoleJobs
    BY <1>1, <2>1, <2>2t, <2>2n, RolesAssumption DEF RoleJobs
  <2>2f. job.op = "updateRole" /\ job.step = "write" /\ job.by = c /\ job.id = r /\ job.org = role[r].org /\ job.body = b /\ job.oldSlug = role[r].slug
    BY <1>1, <2>1, <2>2t, <2>2n, NewJobType DEF RoleJobs, RoleCalls
  <2>2s. TakeWithSlug(w, job)
    BY <1>1
  <2> HIDE DEF job
  <2> QED BY <1>1, <2>1, <2>2j, <2>2f, <2>2s, TakeUpdate
<1>2. ASSUME NEW panel \in Panels, NEW c \in KernelCalls(w, panel, "updateRole"), NEW b \in roleScope.bodies, NEW r \in RoleIds,
             FindsRole(c, r), b.slug # None => ~ SlugConflict(panel, role[r].org, b.slug, r),
             TakeWithSlug(w, [NewJob("updateRole", c) EXCEPT !.id = r, !.org = role[r].org, !.body = b])
      PROVE  RolesInv'
  <2>1. c \in RoleCallers /\ c.panel = panel /\ c.org = None /\ b \in RoleBodies
    BY AdmittedCallers
  <2> DEFINE job == [NewJob("updateRole", c) EXCEPT !.id = r, !.org = role[r].org, !.body = b]
  <2>2t. role[r].slug \in RoleSlugs /\ role[r].org \in RoleOrgs \cup {None}
    BY <1>2, LiveRow, RowFields DEF FindsRole
  <2>2n. NewJob("updateRole", c) \in RoleJobs
    BY <1>2, <2>1, <2>2t, NewJobType DEF RoleCalls
  <2>2j. job \in RoleJobs
    BY <1>2, <2>1, <2>2t, <2>2n, RolesAssumption DEF RoleJobs
  <2>2f. job.op = "updateRole" /\ job.step = "write" /\ job.by = c /\ job.id = r /\ job.org = role[r].org /\ job.body = b /\ job.oldSlug = None
    BY <1>2, <2>1, <2>2t, <2>2n, NewJobType DEF RoleJobs, RoleCalls
  <2>2s. TakeWithSlug(w, job)
    BY <1>2
  <2> HIDE DEF job
  <2> QED BY <1>2, <2>1, <2>2j, <2>2f, <2>2s, TakeUpdate
<1>3. ASSUME Reached(w, "updateRole"), WriteRole(w)
      PROVE  RolesInv'
  BY <1>3, WriteRoleKeeps
<1> QED BY <1>1, <1>2, <1>3 DEF CompanyUpdateRole, KernelUpdateRole, ProptryxUpdateRole, ByCompany, ByKernel, Panels

LEMMA RemoveRoleKeeps ==
  ASSUME RolesInv, NEW w \in Workers, CompanyRemoveRole(w) \/ KernelRemoveRole(w) \/ ProptryxRemoveRole(w)
  PROVE  RolesInv'
<1>1. ASSUME NEW c \in CompanyCalls(w, "removeRole"), NEW r \in RoleIds,
             FindsRole(c, r), CanManage(c, role[r].slug),
             TakeOnly(w, [NewJob("removeRole", c) EXCEPT !.id = r, !.oldSlug = role[r].slug])
      PROVE  RolesInv'
  <2>1. c \in RoleCallers /\ IsLive(role[r])
    BY <1>1, AdmittedCallers DEF FindsRole
  <2> DEFINE job == [NewJob("removeRole", c) EXCEPT !.id = r, !.oldSlug = role[r].slug]
  <2>2t. role[r].slug \in RoleSlugs /\ role[r].org \in RoleOrgs \cup {None}
    BY <1>1, LiveRow, RowFields DEF FindsRole
  <2>2n. NewJob("removeRole", c) \in RoleJobs
    BY <1>1, <2>1, <2>2t, NewJobType DEF RoleCalls
  <2>2j. job \in RoleJobs
    BY <1>1, <2>1, <2>2t, <2>2n, RolesAssumption DEF RoleJobs
  <2>2f. job.op = "removeRole" /\ job.step = "write" /\ job.by = c /\ job.id = r /\ job.oldSlug = role[r].slug
    BY <1>1, <2>1, <2>2t, <2>2n, NewJobType DEF RoleJobs, RoleCalls
  <2>2s. TakeOnly(w, job)
    BY <1>1
  <2> HIDE DEF job
  <2> QED BY <1>1, <2>1, <2>2j, <2>2f, <2>2s, TakeRemove
<1>2. ASSUME NEW panel \in Panels, NEW c \in KernelCalls(w, panel, "removeRole"), NEW r \in RoleIds, FindsRole(c, r),
             TakeOnly(w, [NewJob("removeRole", c) EXCEPT !.id = r])
      PROVE  RolesInv'
  <2>1. c \in RoleCallers /\ c.org = None /\ IsLive(role[r])
    BY <1>2, AdmittedCallers DEF FindsRole
  <2> DEFINE job == [NewJob("removeRole", c) EXCEPT !.id = r]
  <2>2n. NewJob("removeRole", c) \in RoleJobs
    BY <1>2, <2>1, NewJobType DEF RoleCalls
  <2>2j. job \in RoleJobs
    BY <1>2, <2>1, <2>2n, RolesAssumption DEF RoleJobs
  <2>2f. job.op = "removeRole" /\ job.step = "write" /\ job.by = c /\ job.id = r /\ job.oldSlug = None
    BY <1>2, <2>1, <2>2n, NewJobType DEF RoleJobs, RoleCalls
  <2>2s. TakeOnly(w, job)
    BY <1>2
  <2> HIDE DEF job
  <2> QED BY <1>2, <2>1, <2>2j, <2>2f, <2>2s, TakeRemove
<1>3. ASSUME Reached(w, "removeRole"), DeleteRole(w)
      PROVE  RolesInv'
  BY <1>3, DeleteRoleKeeps
<1> QED BY <1>1, <1>2, <1>3 DEF CompanyRemoveRole, KernelRemoveRole, ProptryxRemoveRole, ByCompany, ByKernel, Panels

LEMMA CreatePermissionKeeps ==
  ASSUME RolesInv, NEW w \in Workers, CompanyCreatePermission(w) \/ KernelCreatePermission(w) \/ ProptryxCreatePermission(w)
  PROVE  RolesInv'
<1>1. ASSUME NEW c \in CompanyCalls(w, "createPermission"), NEW b \in roleScope.bodies, NEW r \in RoleIds,
             FindsRole(c, r), CanManage(c, role[r].slug), b.resource # None,
             TakeOnly(w, [NewJob("createPermission", c) EXCEPT !.id = r, !.body = b, !.oldSlug = role[r].slug])
      PROVE  RolesInv'
  <2>1. c \in RoleCallers /\ b \in RoleBodies /\ IsLive(role[r])
    BY <1>1, AdmittedCallers DEF FindsRole
  <2>2. role[r].slug \in RoleSlugs
    BY <2>1, LiveRow, RowFields
  <2>3. b.resource # None
    BY <1>1, <2>1
  <2> DEFINE job == [NewJob("createPermission", c) EXCEPT !.id = r, !.body = b, !.oldSlug = role[r].slug]
             old == None
  <2>4. NewJob("createPermission", c) \in RoleJobs
    BY <2>1, NewJobType DEF RoleCalls
  <2>5. job \in RoleJobs
    BY <2>1, <2>2, <2>3, <2>4 DEF RoleJobs
  <2>6. /\ job.op = "createPermission" /\ job.step = "write" /\ job.by = c /\ job.id = r /\ job.body = b
        /\ job.oldSlug = role[r].slug /\ job.old = old
    BY <2>1, <2>4, NewJobType DEF RoleJobs, RoleCalls
  <2>7. TakeOnly(w, job) /\ old \in Permission \cup {None}
    BY <1>1, <2>3
  <2> HIDE DEF job
  <2> QED BY <1>1, <2>1, <2>3, <2>5, <2>6, <2>7, TakePermission DEF PermissionCalls
<1>2. ASSUME NEW panel \in Panels, NEW c \in KernelCalls(w, panel, "createPermission"), NEW b \in roleScope.bodies, NEW r \in RoleIds,
             IsLive(role[r]), b.resource # None,
             TakeOnly(w, [NewJob("createPermission", c) EXCEPT !.id = r, !.body = b])
      PROVE  RolesInv'
  <2>1. c \in RoleCallers /\ b \in RoleBodies /\ IsLive(role[r]) /\ c.org = None
    BY <1>2, AdmittedCallers
  <2>2. role[r].slug \in RoleSlugs
    BY <2>1, LiveRow, RowFields
  <2>3. b.resource # None
    BY <1>2, <2>1
  <2> DEFINE job == [NewJob("createPermission", c) EXCEPT !.id = r, !.body = b]
             old == None
  <2>4. NewJob("createPermission", c) \in RoleJobs
    BY <2>1, NewJobType DEF RoleCalls
  <2>5. job \in RoleJobs
    BY <2>1, <2>2, <2>3, <2>4 DEF RoleJobs
  <2>6. /\ job.op = "createPermission" /\ job.step = "write" /\ job.by = c /\ job.id = r /\ job.body = b
        /\ job.oldSlug = None /\ job.old = old
    BY <2>1, <2>4, NewJobType DEF RoleJobs, RoleCalls
  <2>7. TakeOnly(w, job) /\ old \in Permission \cup {None}
    BY <1>2, <2>3
  <2> HIDE DEF job
  <2> QED BY <1>2, <2>1, <2>3, <2>5, <2>6, <2>7, TakePermission DEF PermissionCalls
<1>3. ASSUME Reached(w, "createPermission"), InsertPermission(w)
      PROVE  RolesInv'
  BY <1>3, InsertPermissionKeeps
<1> QED BY <1>1, <1>2, <1>3 DEF CompanyCreatePermission, KernelCreatePermission, ProptryxCreatePermission, ByCompany, ByKernel, Panels, FindsRole

LEMMA UpdatePermissionKeeps ==
  ASSUME RolesInv, NEW w \in Workers, CompanyUpdatePermission(w) \/ KernelUpdatePermission(w) \/ ProptryxUpdatePermission(w)
  PROVE  RolesInv'
<1>1. ASSUME NEW c \in CompanyCalls(w, "updatePermission"), NEW b \in roleScope.bodies, NEW r \in RoleIds,
             FindsRole(c, r), CanManage(c, role[r].slug), PermissionOf(r, b) # None,
             TakeOnly(w, [NewJob("updatePermission", c) EXCEPT !.id = r, !.body = b, !.oldSlug = role[r].slug, !.old = PermissionOf(r, b)])
      PROVE  RolesInv'
  <2>1. c \in RoleCallers /\ b \in RoleBodies /\ IsLive(role[r])
    BY <1>1, AdmittedCallers DEF FindsRole
  <2>2. role[r].slug \in RoleSlugs
    BY <2>1, LiveRow, RowFields
  <2>3. b.resource # None /\ PermissionOf(r, b) \in Permission
    BY ONLY RolesInv, r \in RoleIds, <2>1, PermissionOf(r, b) # None, <1>1, FoundPermission
  <2> DEFINE job == [NewJob("updatePermission", c) EXCEPT !.id = r, !.body = b, !.oldSlug = role[r].slug, !.old = PermissionOf(r, b)]
             old == PermissionOf(r, b)
  <2>4. NewJob("updatePermission", c) \in RoleJobs
    BY <2>1, NewJobType DEF RoleCalls
  <2>5. job \in RoleJobs
    BY <2>1, <2>2, <2>3, <2>4 DEF RoleJobs
  <2>6. /\ job.op = "updatePermission" /\ job.step = "write" /\ job.by = c /\ job.id = r /\ job.body = b
        /\ job.oldSlug = role[r].slug /\ job.old = old
    BY <2>1, <2>4, NewJobType DEF RoleJobs, RoleCalls
  <2>7. TakeOnly(w, job) /\ old \in Permission \cup {None}
    BY <1>1, <2>3
  <2> HIDE DEF job
  <2> QED BY <1>1, <2>1, <2>3, <2>5, <2>6, <2>7, TakePermission DEF PermissionCalls
<1>2. ASSUME NEW panel \in Panels, NEW c \in KernelCalls(w, panel, "updatePermission"), NEW b \in roleScope.bodies, NEW r \in RoleIds,
             IsLive(role[r]), PermissionOf(r, b) # None,
             TakeOnly(w, [NewJob("updatePermission", c) EXCEPT !.id = r, !.body = b, !.old = PermissionOf(r, b)])
      PROVE  RolesInv'
  <2>1. c \in RoleCallers /\ b \in RoleBodies /\ IsLive(role[r]) /\ c.org = None
    <3>1. \A x \in KernelCalls(w, panel, "updatePermission") : x \in RoleCallers /\ x.org = None
      BY ONLY RolesInv, w \in Workers, AdmittedCallers
    <3>2. b \in RoleBodies
      BY AdmittedCallers
    <3> QED BY <1>2, <3>1, <3>2
  <2>2. role[r].slug \in RoleSlugs
    BY <2>1, LiveRow, RowFields
  <2>3. b.resource # None /\ PermissionOf(r, b) \in Permission
    BY ONLY RolesInv, r \in RoleIds, <2>1, PermissionOf(r, b) # None, <1>2, FoundPermission
  <2> DEFINE job == [NewJob("updatePermission", c) EXCEPT !.id = r, !.body = b, !.old = PermissionOf(r, b)]
             old == PermissionOf(r, b)
  <2>4. NewJob("updatePermission", c) \in RoleJobs
    BY <2>1, NewJobType DEF RoleCalls
  <2>5. job \in RoleJobs
    BY <2>1, <2>2, <2>3, <2>4 DEF RoleJobs
  <2>6. /\ job.op = "updatePermission" /\ job.step = "write" /\ job.by = c /\ job.id = r /\ job.body = b
        /\ job.oldSlug = None /\ job.old = old
    BY <2>1, <2>4, NewJobType DEF RoleJobs, RoleCalls
  <2>7. TakeOnly(w, job) /\ old \in Permission \cup {None}
    BY <1>2, <2>3
  <2> HIDE DEF job
  <2> QED BY <1>2, <2>1, <2>3, <2>5, <2>6, <2>7, TakePermission DEF PermissionCalls
<1>3. ASSUME Reached(w, "updatePermission"), SetPermission(w)
      PROVE  RolesInv'
  BY <1>3, SetPermissionKeeps
<1> QED BY <1>1, <1>2, <1>3 DEF CompanyUpdatePermission, KernelUpdatePermission, ProptryxUpdatePermission, ByCompany, ByKernel, Panels, FindsRole

LEMMA RemovePermissionKeeps ==
  ASSUME RolesInv, NEW w \in Workers, CompanyRemovePermission(w) \/ KernelRemovePermission(w) \/ ProptryxRemovePermission(w)
  PROVE  RolesInv'
<1>1. ASSUME NEW c \in CompanyCalls(w, "removePermission"), NEW b \in roleScope.bodies, NEW r \in RoleIds,
             FindsRole(c, r), CanManage(c, role[r].slug), PermissionOf(r, b) # None, b.resource \notin ManagedResources,
             TakeOnly(w, [NewJob("removePermission", c) EXCEPT !.id = r, !.body = b, !.oldSlug = role[r].slug, !.old = PermissionOf(r, b)])
      PROVE  RolesInv'
  <2>1. c \in RoleCallers /\ b \in RoleBodies /\ IsLive(role[r])
    BY <1>1, AdmittedCallers DEF FindsRole
  <2>2. role[r].slug \in RoleSlugs
    BY <2>1, LiveRow, RowFields
  <2>3. b.resource # None /\ PermissionOf(r, b) \in Permission
    BY ONLY RolesInv, r \in RoleIds, <2>1, PermissionOf(r, b) # None, <1>1, FoundPermission
  <2> DEFINE job == [NewJob("removePermission", c) EXCEPT !.id = r, !.body = b, !.oldSlug = role[r].slug, !.old = PermissionOf(r, b)]
             old == PermissionOf(r, b)
  <2>4. NewJob("removePermission", c) \in RoleJobs
    BY <2>1, NewJobType DEF RoleCalls
  <2>5. job \in RoleJobs
    BY <2>1, <2>2, <2>3, <2>4 DEF RoleJobs
  <2>6. /\ job.op = "removePermission" /\ job.step = "write" /\ job.by = c /\ job.id = r /\ job.body = b
        /\ job.oldSlug = role[r].slug /\ job.old = old
    BY <2>1, <2>4, NewJobType DEF RoleJobs, RoleCalls
  <2>7. TakeOnly(w, job) /\ old \in Permission \cup {None}
    BY <1>1, <2>3
  <2> HIDE DEF job
  <2> QED BY <1>1, <2>1, <2>3, <2>5, <2>6, <2>7, TakePermission DEF PermissionCalls
<1>2. ASSUME NEW panel \in Panels, NEW c \in KernelCalls(w, panel, "removePermission"), NEW b \in roleScope.bodies, NEW r \in RoleIds,
             IsLive(role[r]), PermissionOf(r, b) # None, b.resource \notin ManagedResources,
             TakeOnly(w, [NewJob("removePermission", c) EXCEPT !.id = r, !.body = b, !.old = PermissionOf(r, b)])
      PROVE  RolesInv'
  <2>1. c \in RoleCallers /\ b \in RoleBodies /\ IsLive(role[r]) /\ c.org = None
    BY <1>2, AdmittedCallers
  <2>2. role[r].slug \in RoleSlugs
    BY <2>1, LiveRow, RowFields
  <2>3. b.resource # None /\ PermissionOf(r, b) \in Permission
    BY ONLY RolesInv, r \in RoleIds, <2>1, PermissionOf(r, b) # None, <1>2, FoundPermission
  <2> DEFINE job == [NewJob("removePermission", c) EXCEPT !.id = r, !.body = b, !.old = PermissionOf(r, b)]
             old == PermissionOf(r, b)
  <2>4. NewJob("removePermission", c) \in RoleJobs
    BY <2>1, NewJobType DEF RoleCalls
  <2>5. job \in RoleJobs
    BY <2>1, <2>2, <2>3, <2>4 DEF RoleJobs
  <2>6. /\ job.op = "removePermission" /\ job.step = "write" /\ job.by = c /\ job.id = r /\ job.body = b
        /\ job.oldSlug = None /\ job.old = old
    BY <2>1, <2>4, NewJobType DEF RoleJobs, RoleCalls
  <2>7. TakeOnly(w, job) /\ old \in Permission \cup {None}
    BY <1>2, <2>3
  <2> HIDE DEF job
  <2> QED BY <1>2, <2>1, <2>3, <2>5, <2>6, <2>7, TakePermission DEF PermissionCalls
<1>3. ASSUME Reached(w, "removePermission"), DeletePermission(w)
      PROVE  RolesInv'
  BY <1>3, DeletePermissionKeeps
<1> QED BY <1>1, <1>2, <1>3 DEF CompanyRemovePermission, KernelRemovePermission, ProptryxRemovePermission, ByCompany, ByKernel, Panels, FindsRole

-----------------------------------------------------------------------------
(* The default roles of a company *)

\* What the transaction seeds.
LEMMA SeedRolesKeeps ==
  ASSUME RolesInv, NEW w \in Workers, SeedRoles(w)
  PROVE  RolesInv'
<1> PICK org \in owning :
      TakeWithSlug(w, [NewJob("seedRoles", None) EXCEPT
                         !.step = "permissions", !.org = org,
                         !.missing = Presets \ {role[r].slug : r \in Defaults(org)},
                         !.seen = [r \in Defaults(org) |-> [slug |-> role[r].slug, permissions |-> None]]])
  BY DEF SeedRoles
<1> DEFINE missing == Presets \ {role[r].slug : r \in Defaults(org)}
           seen == [r \in Defaults(org) |-> [slug |-> role[r].slug, permissions |-> None]]
           job == [NewJob("seedRoles", None) EXCEPT
                     !.step = "permissions", !.org = org, !.missing = missing, !.seen = seen]
<1>1. TakeWithSlug(w, job)
  OBVIOUS
<1>2. Defaults(org) \subseteq RoleIds /\ \A r \in Defaults(org) : role[r] # None /\ role[r].slug \in Presets
  BY DEF Defaults, LiveRoles, IsLive
<1>3. seen \in UNION {[S -> [slug : Presets, permissions : PermissionTables \cup {None}]] : S \in SUBSET RoleIds}
  <2>1. seen \in [Defaults(org) -> [slug : Presets, permissions : PermissionTables \cup {None}]]
    BY <1>2
  <2> QED BY <1>2, <2>1
<1>4. org \in RoleOrgs
  BY DEF RolesInv, RolesTyped
<1>5. DOMAIN seen = Defaults(org) /\ missing \subseteq Presets
  OBVIOUS
<1> HIDE DEF seen, missing
<1>6. NewJob("seedRoles", None) \in RoleJobs
  BY NewJobType DEF RoleCalls
<1>7. job \in RoleJobs
  BY <1>3, <1>4, <1>5, <1>6 DEF RoleJobs
<1>8. /\ job.op = "seedRoles" /\ job.step = "permissions" /\ job.by = None /\ job.org = org
      /\ job.missing = missing /\ job.seen = seen
  BY <1>6, NewJobType DEF RoleJobs, RoleCalls
<1> HIDE DEF job
<1>9. SoundJob(job, role) /\ Guarded(job)
  BY <1>2, <1>4, <1>5, <1>8 DEF SoundJob, Guarded, PermissionCalls
<1>10. ASSUME NEW r \in RoleIds, IsLive(role[r]), KeyOf(role[r]) \in Writes(job)
      PROVE  FALSE
  <2>1. role[r].panel = "company" /\ role[r].org = org /\ role[r].slug \in missing
    BY <1>8, <1>10 DEF Writes, KeyOf
  <2>2. r \in Defaults(org)
    BY <1>5, <1>10, <2>1 DEF Defaults, LiveRoles
  <2> QED BY <2>1, <2>2 DEF missing
<1>11. /\ Take(w, job) /\ overlapped \subseteq overlapped'
       /\ Writes(job) \cap UNION {Writes(doing[v]) : v \in Workers} \subseteq overlapped'
  BY <1>1 DEF TakeWithSlug
<1> QED BY <1>7, <1>9, <1>10, <1>11, TakeKeeps

\* Reading the permissions changes neither what is checked nor what is written.
LEMMA SeedPermissionsKeeps ==
  ASSUME RolesInv, NEW w \in Workers, SeedPermissions(w)
  PROVE  RolesInv'
<1> DEFINE job == doing[w]
           seen == [r \in DOMAIN job.seen |-> [slug |-> job.seen[r].slug, permissions |-> role[r].permissions]]
           next == [job EXCEPT !.step = "commit", !.seen = seen]
<1>1. /\ job # None /\ job.step = "permissions" /\ UNCHANGED <<role, owning, overlapped, statements, roleScope>>
      /\ doing' = [doing EXCEPT ![w] = next]
  BY DEF SeedPermissions
<1>2. job \in RoleJobs /\ SoundJob(job, role) /\ Guarded(job) /\ doing \in [Workers -> RoleJobs \cup {None}]
  BY <1>1, JobFields DEF RolesInv, RolesTyped
<1>3. job.op = "seedRoles" /\ job.org \in RoleOrgs /\ \A r \in DOMAIN job.seen : role[r] # None
  BY <1>1, <1>2 DEF SoundJob
<1>4. DOMAIN job.seen \subseteq RoleIds /\ \A r \in DOMAIN job.seen : job.seen[r].slug \in Presets
  <2>1. job.seen \in UNION {[S -> [slug : Presets, permissions : PermissionTables \cup {None}]] : S \in SUBSET RoleIds}
    BY <1>2 DEF RoleJobs
  <2> QED BY <2>1
<1>5. \A r \in DOMAIN job.seen : role[r].permissions \in PermissionTables
  BY <1>3, <1>4, RowFields DEF RolesInv, RolesTyped
<1>6. seen \in UNION {[S -> [slug : Presets, permissions : PermissionTables \cup {None}]] : S \in SUBSET RoleIds}
  <2>1. seen \in [DOMAIN job.seen -> [slug : Presets, permissions : PermissionTables \cup {None}]]
    BY <1>4, <1>5
  <2> QED BY <1>4, <2>1
<1>7. DOMAIN seen = DOMAIN job.seen
  OBVIOUS
<1> HIDE DEF seen
<1>8. next \in RoleJobs
  BY <1>2, <1>6 DEF RoleJobs
<1>9. /\ next.op = job.op /\ next.step = "commit" /\ next.by = job.by /\ next.org = job.org /\ next.body = job.body
      /\ next.missing = job.missing /\ next.seen = seen /\ next.oldSlug = job.oldSlug
  BY <1>2 DEF RoleJobs
<1> HIDE DEF next
<1>10. SoundJob(next, role) /\ Guarded(next)
  BY <1>2, <1>3, <1>7, <1>9 DEF SoundJob, Guarded, PermissionCalls
<1>11. JobsSound' /\ doing' \in [Workers -> RoleJobs \cup {None}]
  BY <1>1, <1>8, <1>10, TakenKeepsJobs DEF RolesInv
<1>12. Writes(next) \subseteq Writes(job)
  BY <1>1, <1>3, <1>9 DEF Writes
<1>13. \A v \in Workers : Writes(doing'[v]) \subseteq Writes(doing[v])
  BY <1>1, <1>2, <1>12
<1>14. \A v \in Workers : Writes(doing[v])' = Writes(doing'[v])
  BY DEF Writes
<1>15. SlugsChecked'
  <2>1. ASSUME NEW v \in Workers, NEW r \in RoleIds, IsLive(role[r]), KeyOf(role[r]) \in Writes(doing'[v]),
               ~ (doing'[v].op = "updateRole" /\ doing'[v].id = r)
        PROVE  KeyOf(role[r]) \in overlapped
    <3>1. v = w => job.op # "updateRole"
      BY <1>3
    <3>2. v # w => doing'[v] = doing[v]
      BY <1>1, <1>2
    <3> QED BY <1>13, <2>1, <3>1, <3>2 DEF RolesInv, SlugsChecked
  <2> QED BY <1>1, <1>13, <1>14, <2>1 DEF RolesInv, SlugsChecked, IsLive, KeyOf
<1>16. RolesTyped'
  BY <1>1, <1>11 DEF RolesInv, RolesTyped
<1>17. EveryRoleIsManaged'
  BY <1>1 DEF RolesInv, EveryRoleIsManaged, LiveRoles, IsLive, Unchanged
<1> QED BY <1>11, <1>15, <1>16, <1>17 DEF RolesInv

\* There are as many of the first n keys that are free as they say, or fewer.
LEMMA FreshAreFinite ==
  ASSUME NEW n \in Nat
  PROVE  IsFiniteSet(FreshRoles(n))
<1> DEFINE Before(x) == {s \in RoleIds : role[s] = None /\ s < x}
           F == [r \in FreshRoles(n) |-> Cardinality(Before(r))]
<1>0. RoleIds \subseteq Nat
  BY RolesAssumption
<1>1. ASSUME NEW r \in RoleIds
      PROVE  IsFiniteSet(Before(r)) /\ Cardinality(Before(r)) \in Nat
  <2>1. r \in Nat /\ Before(r) \in SUBSET Nat
    BY <1>0
  <2>3. \A s \in Before(r) : s <= r
    BY <1>0
  <2>2. IsFiniteSet(Before(r))
    BY <2>1, <2>3, FS_BoundedSetOfNaturals
  <2> QED BY <2>2, FS_CardinalityType
<1>2. ASSUME NEW q \in FreshRoles(n), NEW r \in FreshRoles(n), q < r
      PROVE  Cardinality(Before(q)) < Cardinality(Before(r))
  <2>1. q \in RoleIds /\ r \in RoleIds /\ role[q] = None /\ q \in Nat /\ r \in Nat
    BY <1>0 DEF FreshRoles
  <2>2. q \notin Before(q) /\ Before(q) \cup {q} \in SUBSET Before(r)
    <3>1. q \notin Before(q)
      BY <2>1
    <3>2. \A s \in RoleIds : s < q => s < r
      BY ONLY <1>0, <1>2, <2>1
    <3>3. Before(q) \subseteq Before(r)
      BY <3>2
    <3>4. q \in Before(r)
      BY <1>2, <2>1
    <3> QED BY <3>1, <3>3, <3>4
  <2>3. IsFiniteSet(Before(q)) /\ IsFiniteSet(Before(r)) /\ Cardinality(Before(q)) \in Nat /\ Cardinality(Before(r)) \in Nat
    BY <1>1, <2>1
  <2> HIDE DEF Before
  <2>4. Cardinality(Before(q) \cup {q}) = Cardinality(Before(q)) + 1
    BY <2>2, <2>3, FS_AddElement
  <2>5. Cardinality(Before(q) \cup {q}) <= Cardinality(Before(r))
    BY <2>2, <2>3, FS_Subset
  <2> QED BY <2>3, <2>4, <2>5
<1>3. \A r \in FreshRoles(n) : r \in RoleIds /\ r \in Nat /\ Cardinality(Before(r)) < n
  BY RolesAssumption DEF FreshRoles
<1>4. F \in [FreshRoles(n) -> 0 .. n]
  BY <1>1, <1>3
<1>5. \A q, r \in FreshRoles(n) : F[q] = F[r] => q = r
  <2> HIDE DEF Before
  <2>1. ASSUME NEW q \in FreshRoles(n), NEW r \in FreshRoles(n), q # r
        PROVE  F[q] # F[r]
    <3>1. Cardinality(Before(q)) \in Nat /\ Cardinality(Before(r)) \in Nat
      BY <1>1, <1>3
    <3>2. q < r \/ r < q
      BY <1>3, <2>1
    <3> QED BY <1>2, <3>1, <3>2
  <2> QED BY <2>1
<1> HIDE DEF F
<1>6. F \in Injection(FreshRoles(n), 0 .. n)
  BY <1>4, <1>5 DEF Injection, IsInjective
<1>7. IsFiniteSet(0 .. n)
  BY FS_Interval
<1> QED BY <1>6, <1>7, FS_Injection

\* The new roles of a company take one of its missing slugs each.
LEMMA SlugsAreDealt ==
  ASSUME NEW missing \in SUBSET Presets, NEW R, R = FreshRoles(Cardinality(missing)),
         Cardinality(R) = Cardinality(missing),
         NEW f, f = CHOOSE g \in [R -> missing] : \A slug \in missing : \E r \in R : g[r] = slug
  PROVE  /\ \A r \in R : r \in RoleIds /\ role[r] = None /\ f[r] \in missing
         /\ \A q, r \in R : q # r => f[q] # f[r]
<1>1. IsFiniteSet(missing)
  <2>1. IsFiniteSet({"owner"} \cup {"admin"} \cup {"executive"} \cup {"property_owner"})
    BY FS_Singleton, FS_Union
  <2>2. missing \in SUBSET ({"owner"} \cup {"admin"} \cup {"executive"} \cup {"property_owner"})
    BY RolesAssumption DEF DefaultRoleSlugs
  <2> QED BY ONLY <2>1, <2>2, FS_Subset
<1>2. IsFiniteSet(R)
  <2>1. Cardinality(missing) \in Nat
    BY <1>1, FS_CardinalityType
  <2> QED BY <2>1, FreshAreFinite
<1>3. \E g \in [R -> missing] : \A slug \in missing : \E r \in R : g[r] = slug
  <2>1. ExistsBijection(R, missing)
    BY <1>1, <1>2, FS_SameCardinalityBij
  <2> QED BY <2>1 DEF ExistsBijection, Bijection, Surjection
<1>4. f \in [R -> missing] /\ \A slug \in missing : \E r \in R : f[r] = slug
  BY <1>3
<1>5. f \in Surjection(R, missing)
  BY <1>4 DEF Surjection
<1>6. f \in Injection(R, missing)
  BY ONLY <1>2, <1>5, Cardinality(R) = Cardinality(missing), FS_SurjSameCardinalityImpliesInj
<1> QED BY <1>4, <1>6 DEF Injection, IsInjective, FreshRoles

\* Whatever the transaction read, the permissions of a role that are managed are
\* those of its preset, or were so already.
LEMMA SeededTable ==
  ASSUME NEW now \in PermissionTables, Managed(now), NEW seen, NEW preset, ManagedTable(preset),
         NEW id \in 0 .. MaxStatements
  PROVE  SeededRoles(now, seen, preset, id) \in PermissionTables /\ Managed(SeededRoles(now, seen, preset, id))
<1> DEFINE same(f) == f \in DOMAIN seen /\ f \in DOMAIN now /\ seen[f].id = now[f].id
           deleted == {f \in DOMAIN now : same(f) /\ f \notin DOMAIN preset}
           updated == {f \in DOMAIN now : same(f) /\ f \in DOMAIN preset /\ ~ Unchanged(seen[f], preset[f])}
           inserted == DOMAIN preset \ DOMAIN seen
           D == (DOMAIN now \ deleted) \cup inserted
           all == [f \in D |-> IF f \in inserted THEN Inserted(preset, id)[f]
                               ELSE IF f \in updated THEN Inserted(preset, now[f].id)[f] ELSE now[f]]
<1>1. SeededRoles(now, seen, preset, id) = all
  BY DEF SeededRoles
<1>2. PICK S \in SUBSET Resources :
        /\ preset \in [S -> Values] /\ ManagedResources \subseteq S
        /\ \A f \in ManagedResources : preset[f] = ManagedPermission
  BY DEF ManagedTable
<1>3. DOMAIN preset = S /\ inserted \subseteq S /\ updated \subseteq S /\ updated \subseteq DOMAIN now
      /\ deleted \cap S = {}
  BY <1>2
<1>4. DOMAIN now \subseteq Resources /\ \A f \in DOMAIN now : now[f] \in Permission
  BY TableFields
<1>5. \A f \in DOMAIN now : now[f].id \in 0 .. MaxStatements
  BY <1>4 DEF Permission
<1> HIDE DEF inserted, updated, deleted
<1>6. ASSUME NEW f \in S, NEW i \in 0 .. MaxStatements
      PROVE  Inserted(preset, i)[f] \in Permission
             /\ Inserted(preset, i)[f].level = preset[f].level /\ Inserted(preset, i)[f].actions = preset[f].actions
  BY <1>2, InsertedTable
<1>7. ASSUME NEW f \in D
      PROVE  all[f] \in Permission /\ (f \in ManagedResources => Unchanged(all[f], ManagedPermission))
  <2>1. CASE f \in inserted
    <3>1. all[f] = Inserted(preset, id)[f] /\ f \in S
      BY <1>3, <2>1
    <3> QED BY <1>2, <1>6, <3>1 DEF Unchanged
  <2>2. CASE f \notin inserted /\ f \in updated
    <3>1. all[f] = Inserted(preset, now[f].id)[f] /\ f \in S /\ now[f].id \in 0 .. MaxStatements
      BY <1>3, <1>5, <2>2
    <3> QED BY <1>2, <1>6, <3>1 DEF Unchanged
  <2>3. CASE f \notin inserted /\ f \notin updated
    <3>1. all[f] = now[f] /\ f \in DOMAIN now
      BY <2>3
    <3> QED BY <1>4, <3>1 DEF Managed, Unchanged
  <2> QED BY <2>1, <2>2, <2>3
<1>8. all \in [D -> Permission] /\ D \subseteq Resources
  BY <1>3, <1>4, <1>7
<1>9. Managed(all)
  <2>1. ManagedResources \subseteq D
    BY <1>2, <1>3 DEF Managed
  <2> QED BY <1>7, <2>1 DEF Managed
<1> HIDE DEF all, D
<1> QED BY <1>1, <1>8, <1>9 DEF PermissionTables


\* A role of the company is given the permissions of its preset.
LEMMA SeededRow ==
  ASSUME RolesInv, NEW r \in RoleIds, IsLive(role[r]), NEW slug \in Presets, NEW seen, NEW id \in 0 .. MaxStatements,
         role'[r] = [role[r] EXCEPT !.permissions = SeededRoles(@, seen, PresetPermissions(slug), id)]
  PROVE  /\ role'[r] \in RoleRow /\ WellKept(r) /\ KeyOf(role'[r]) = KeyOf(role[r])
<1> DEFINE p == SeededRoles(role[r].permissions, seen, PresetPermissions(slug), id)
<1>1. slug \in DefaultRoleSlugs
  BY RolesAssumption
<1>2. ManagedTable(PresetPermissions(slug))
  BY <1>1, PresetTable
<1>3. role[r].permissions \in PermissionTables /\ Managed(role[r].permissions) /\ role[r] \in RoleRow /\ role[r].life = "live"
  BY LiveRow
<1>4. p \in PermissionTables /\ Managed(p)
  BY <1>2, <1>3, SeededTable
<1>5. role'[r] = [role[r] EXCEPT !.permissions = p]
  OBVIOUS
<1> HIDE DEF p
<1>6. /\ role'[r] \in RoleRow /\ role'[r].permissions = p /\ role'[r].life = "live"
      /\ role'[r].panel = role[r].panel /\ role'[r].org = role[r].org /\ role'[r].slug = role[r].slug
  BY <1>3, <1>4, <1>5, RowFields
<1>7. role'[r] # None
  BY <1>6, RolesAssumption
<1> QED BY <1>4, <1>6, <1>7 DEF WellKept, Placed, KeyOf

\* The slugs that were missing, and only those, are given to new roles.
LEMMA SeedCommitKeeps ==
  ASSUME RolesInv, NEW w \in Workers, SeedCommit(w)
  PROVE  RolesInv'
<1> DEFINE job == doing[w]
           R == FreshRoles(Cardinality(job.missing))
           f == CHOOSE g \in [R -> job.missing] : \A slug \in job.missing : \E r \in R : g[r] = slug
           New(r) == NewRole("company", job.org, f[r], PresetPermissions(f[r]), statements')
           Seeded(r) == [role[r] EXCEPT !.permissions =
                           SeededRoles(@, job.seen[r].permissions, PresetPermissions(job.seen[r].slug), statements')]
<1>1. /\ job # None /\ job.step = "commit" /\ statements < MaxStatements /\ statements' = statements + 1
      /\ Cardinality(R) = Cardinality(job.missing) /\ RoleDone(w)
  BY DEF SeedCommit
<1>2. role' = [r \in RoleIds |-> IF r \in R THEN New(r)
                                 ELSE IF r \in DOMAIN job.seen /\ IsLive(role[r]) THEN Seeded(r) ELSE role[r]]
  BY DEF SeedCommit
<1>3. job \in RoleJobs /\ SoundJob(job, role)
  BY <1>1, JobFields
<1>4. job.op = "seedRoles" /\ job.org \in RoleOrgs /\ job.missing \in SUBSET Presets
  BY <1>1, <1>3 DEF SoundJob, RoleJobs
<1>5. \A r \in DOMAIN job.seen : job.seen[r].slug \in Presets
  <2>1. job.seen \in UNION {[S -> [slug : Presets, permissions : PermissionTables \cup {None}]] : S \in SUBSET RoleIds}
    BY <1>3 DEF RoleJobs
  <2> QED BY <2>1
<1>6. statements' \in 0 .. MaxStatements
  BY <1>1, RolesAssumption DEF RolesInv, RolesTyped
<1>7. /\ \A r \in R : r \in RoleIds /\ role[r] = None /\ f[r] \in job.missing
      /\ \A q, r \in R : q # r => f[q] # f[r]
  BY ONLY <1>1, <1>4, SlugsAreDealt
<1>8. Writes(job) = {<<"company", job.org, slug>> : slug \in job.missing}
  BY <1>1, <1>4 DEF Writes
<1> HIDE DEF f, R, Seeded, New
<1>9. ASSUME NEW r \in R
      PROVE  /\ role'[r] \in RoleRow /\ WellKept(r) /\ KeyOf(role'[r]) = <<"company", job.org, f[r]>>
             /\ KeyOf(role'[r]) \in Writes(job)
  <2>1. r \in RoleIds /\ role[r] = None /\ f[r] \in job.missing /\ role'[r] = New(r)
    BY <1>2, <1>7
  <2>2. f[r] \in DefaultRoleSlugs /\ f[r] \in RoleSlugs /\ "company" \in Panels
    BY <1>4, <2>1, RolesAssumption DEF Panels
  <2>3. ManagedTable(PresetPermissions(f[r]))
    BY <2>2, PresetTable
  <2>4. /\ New(r) \in RoleRow /\ Managed(New(r).permissions) /\ KeyOf(New(r)) = <<"company", job.org, f[r]>>
        /\ New(r).life = "live"
    BY <1>4, <1>6, <2>2, <2>3, NewRow DEF New
  <2> QED BY <1>8, <2>1, <2>4 DEF WellKept, Placed
<1>10. ASSUME NEW r \in RoleIds \ R
       PROVE  /\ role'[r] \in RoleRow \cup {None} /\ WellKept(r)
              /\ IsLive(role'[r]) => IsLive(role[r]) /\ KeyOf(role'[r]) = KeyOf(role[r])
  <2>1. CASE r \in DOMAIN job.seen /\ IsLive(role[r])
    <3>1. role'[r] = Seeded(r) /\ job.seen[r].slug \in Presets
      BY <1>2, <1>5, <2>1
    <3> QED BY <1>6, <2>1, <3>1, SeededRow DEF Seeded
  <2>2. CASE ~ (r \in DOMAIN job.seen /\ IsLive(role[r]))
    <3>1. role'[r] = role[r]
      BY <1>2, <2>2
    <3>2. role[r] \in RoleRow \cup {None}
      BY DEF RolesInv, RolesTyped
    <3> QED BY <3>1, <3>2, SameIsKept
  <2> QED BY <2>1, <2>2
<1>11. \A r \in RoleIds : role'[r] \in RoleRow \cup {None} /\ WellKept(r)
  BY <1>9, <1>10
<1>12. role' \in [RoleIds -> RoleRow \cup {None}]
  BY <1>2, <1>11
<1>13. R \in SUBSET RoleIds
  BY <1>7
<1>14. \A q, r \in R : q # r => KeyOf(role'[q]) # KeyOf(role'[r])
  BY <1>7, <1>9
<1>15. /\ \A r \in RoleIds \ R : IsLive(role'[r]) => IsLive(role[r]) /\ KeyOf(role'[r]) = KeyOf(role[r])
       /\ \A r \in R : IsLive(role'[r]) => KeyOf(role'[r]) \in Writes(doing[w])
       /\ \A r \in R : doing[w].op = "updateRole" => doing[w].id = r
       /\ doing[w] # None
       /\ \A r \in RoleIds : WellKept(r)
  BY <1>1, <1>4, <1>9, <1>10, <1>11
<1> QED BY ONLY <1>1, <1>6, <1>12, <1>13, <1>14, <1>15, RolesInv, w \in Workers, DoneKeeps

\* The handlers under way keep their jobs, those of the company's roles included.
LEMMA CompanyPurgedKeeps ==
  ASSUME RolesInv, NEW org \in RoleOrgs, CompanyPurged(org)
  PROVE  RolesInv'
<1>1. /\ owning' = owning \ {org} /\ UNCHANGED <<doing, overlapped, statements, roleScope>>
      /\ role' = [r \in RoleIds |-> IF IsLive(role[r]) /\ role[r].org = org THEN Removed(role[r]) ELSE role[r]]
  BY DEF CompanyPurged
<1>2. ASSUME NEW r \in RoleIds
      PROVE  /\ role'[r] \in RoleRow \cup {None} /\ WellKept(r)
             /\ IsLive(role'[r]) => role'[r] = role[r]
  <2>1. CASE IsLive(role[r]) /\ role[r].org = org
    <3>1. role'[r] = Removed(role[r]) /\ role[r] \in RoleRow
      BY <1>1, <2>1, LiveRow
    <3> DEFINE nothing == [f \in {} |-> None]
    <3>2. nothing \in [{} -> Permission] /\ DOMAIN nothing = {}
      OBVIOUS
    <3>3. nothing \in PermissionTables
      BY <3>2 DEF PermissionTables
    <3>4. role'[r] = [role[r] EXCEPT !.life = "gone", !.permissions = nothing]
      BY <3>1 DEF Removed
    <3> HIDE DEF nothing
    <3>5. /\ role'[r] \in RoleRow /\ role'[r].life = "gone" /\ role'[r].permissions = nothing
          /\ role'[r].panel = role[r].panel /\ role'[r].org = role[r].org
      BY <3>1, <3>3, <3>4, RowFields
    <3>6. role'[r] # None
      BY <3>5, RolesAssumption
    <3> QED BY <3>2, <3>5, <3>6 DEF WellKept, Placed, IsLive
  <2>2. CASE ~ (IsLive(role[r]) /\ role[r].org = org)
    <3>1. role'[r] = role[r]
      BY <1>1, <2>2
    <3>2. role[r] \in RoleRow \cup {None}
      BY DEF RolesInv, RolesTyped
    <3> QED BY <3>1, <3>2, SameIsKept
  <2> QED BY <2>1, <2>2
<1>3. role' \in [RoleIds -> RoleRow \cup {None}]
  BY <1>1, <1>2
<1>4. RolesTyped'
  BY <1>1, <1>2, <1>3 DEF RolesInv, RolesTyped, WellKept
<1>5. JobsSound'
  <2>1. ASSUME NEW v \in Workers, doing[v] # None
        PROVE  SoundJob(doing[v], role') /\ Guarded(doing[v])
    BY <1>2, <2>1, JobFields, JobStays DEF WellKept
  <2> QED BY <1>1, <2>1 DEF JobsSound, Guarded, CanManage
<1>6. EveryRoleIsManaged'
  <2>1. ASSUME NEW r \in RoleIds, IsLive(role'[r]), NEW f \in ManagedResources
        PROVE  f \in DOMAIN role'[r].permissions /\ Unchanged(role'[r].permissions[f], ManagedPermission)
    BY <1>2, <2>1 DEF WellKept, Managed
  <2> QED BY <2>1 DEF EveryRoleIsManaged, LiveRoles, IsLive, Unchanged
<1>7. SlugsChecked'
  <2>1. \A v \in Workers : Writes(doing[v])' = Writes(doing[v])
    BY <1>1 DEF Writes
  <2>2. \A r \in RoleIds : IsLive(role'[r]) => IsLive(role[r]) /\ KeyOf(role'[r]) = KeyOf(role[r])
    BY <1>2
  <2> QED BY <1>1, <2>1, <2>2 DEF RolesInv, SlugsChecked, IsLive, KeyOf
<1> QED BY <1>4, <1>5, <1>6, <1>7 DEF RolesInv


-----------------------------------------------------------------------------
(* Every behaviour *)

\* The companies start with the defaults, no two roles alike.
LEMMA RolesInitially == RolesInit => RolesInv
<1> SUFFICES ASSUME RolesInit
             PROVE  RolesInv
  OBVIOUS
<1> DEFINE First(r) == NewRole(FirstRoles[r].panel, FirstRoles[r].org, FirstRoles[r].slug,
                         PresetPermissions(IF FirstRoles[r].panel = "company" THEN FirstRoles[r].slug ELSE "owner"), 0)
<1>1. /\ role = [r \in RoleIds |-> IF r \notin DOMAIN FirstRoles THEN None ELSE First(r)]
      /\ owning = RoleOrgs /\ doing = [w \in Workers |-> None] /\ overlapped = {} /\ statements = 0
      /\ roleScope \in RoleScopes
  BY DEF RolesInit
<1>2. ASSUME NEW r \in DOMAIN FirstRoles
      PROVE  /\ First(r) \in RoleRow /\ Managed(First(r).permissions) /\ First(r).life = "live"
             /\ KeyOf(First(r)) = <<FirstRoles[r].panel, FirstRoles[r].org, FirstRoles[r].slug>>
  <2>1. /\ FirstRoles[r].panel \in Panels /\ FirstRoles[r].org \in RoleOrgs \cup {None} /\ FirstRoles[r].slug \in RoleSlugs
        /\ FirstRoles[r].panel = "company" => FirstRoles[r].slug \in DefaultRoleSlugs
        /\ 0 \in 0 .. MaxStatements
    BY RolesAssumption
  <2>2. ManagedTable(PresetPermissions(IF FirstRoles[r].panel = "company" THEN FirstRoles[r].slug ELSE "owner"))
    BY <2>1, PresetTable DEF DefaultRoleSlugs
  <2> QED BY <2>1, <2>2, NewRow
<1> HIDE DEF First
<1>3. ASSUME NEW r \in RoleIds, role[r] # None
      PROVE  r \in DOMAIN FirstRoles /\ role[r] = First(r)
  BY <1>1, <1>3
<1>4. RolesTyped
  <2>1. role \in [RoleIds -> RoleRow \cup {None}]
    BY <1>1, <1>2
  <2>2. \A r \in RoleIds : role[r] # None => role[r].life = "live"
    BY <1>2, <1>3
  <2>3. doing \in [Workers -> RoleJobs \cup {None}] /\ statements \in 0 .. MaxStatements
    BY <1>1, RolesAssumption
  <2> QED BY <1>1, <2>1, <2>2, <2>3 DEF RolesTyped
<1>5. JobsSound
  BY <1>1 DEF JobsSound
<1>6. EveryRoleIsManaged
  BY <1>2, <1>3 DEF EveryRoleIsManaged, LiveRoles, IsLive, Managed
<1>7. SlugsChecked
  <2>1. \A w \in Workers : Writes(doing[w]) = {}
    BY <1>1 DEF Writes
  <2>2. ASSUME NEW q \in RoleIds, NEW r \in RoleIds, q # r, IsLive(role[q]), IsLive(role[r]), KeyOf(role[q]) = KeyOf(role[r])
        PROVE  FALSE
    <3>1. q \in DOMAIN FirstRoles /\ r \in DOMAIN FirstRoles /\ KeyOf(First(q)) = KeyOf(First(r))
      BY <1>3, <2>2 DEF IsLive
    <3>2. /\ FirstRoles[q].panel = FirstRoles[r].panel /\ FirstRoles[q].org = FirstRoles[r].org
          /\ FirstRoles[q].slug = FirstRoles[r].slug
      BY <1>2, <3>1
    <3>3. /\ FirstRoles[q] \in [panel : Panels, org : RoleOrgs \cup {None}, slug : RoleSlugs]
          /\ FirstRoles[r] \in [panel : Panels, org : RoleOrgs \cup {None}, slug : RoleSlugs]
          /\ FirstRoles[q] # FirstRoles[r]
      BY <2>2, <3>1, RolesAssumption
    <3> QED BY ONLY <3>2, <3>3
  <2> QED BY <2>1, <2>2 DEF SlugsChecked
<1> QED BY <1>4, <1>5, <1>6, <1>7 DEF RolesInv

\* Each operation of each router, the seeding of a company and its end keep the invariant.
LEMMA RolesStep == RolesInv /\ [RolesNext]_rolesVars => RolesInv'
<1> SUFFICES ASSUME RolesInv, [RolesNext]_rolesVars
             PROVE  RolesInv'
  OBVIOUS
<1>1. ASSUME NEW w \in Workers, CompanyCreateRole(w) \/ KernelCreateRole(w) \/ ProptryxCreateRole(w)
      PROVE  RolesInv'
  BY <1>1, CreateRoleKeeps
<1>2. ASSUME NEW w \in Workers, CompanyUpdateRole(w) \/ KernelUpdateRole(w) \/ ProptryxUpdateRole(w)
      PROVE  RolesInv'
  BY <1>2, UpdateRoleKeeps
<1>3. ASSUME NEW w \in Workers, CompanyRemoveRole(w) \/ KernelRemoveRole(w) \/ ProptryxRemoveRole(w)
      PROVE  RolesInv'
  BY <1>3, RemoveRoleKeeps
<1>4. ASSUME NEW w \in Workers, CompanyCreatePermission(w) \/ KernelCreatePermission(w) \/ ProptryxCreatePermission(w)
      PROVE  RolesInv'
  BY <1>4, CreatePermissionKeeps
<1>5. ASSUME NEW w \in Workers, CompanyUpdatePermission(w) \/ KernelUpdatePermission(w) \/ ProptryxUpdatePermission(w)
      PROVE  RolesInv'
  BY <1>5, UpdatePermissionKeeps
<1>6. ASSUME NEW w \in Workers, CompanyRemovePermission(w) \/ KernelRemovePermission(w) \/ ProptryxRemovePermission(w)
      PROVE  RolesInv'
  BY <1>6, RemovePermissionKeeps
<1>7. ASSUME NEW w \in Workers, SeedRoles(w)
      PROVE  RolesInv'
  BY <1>7, SeedRolesKeeps
<1>8. ASSUME NEW w \in Workers, SeedPermissions(w)
      PROVE  RolesInv'
  BY <1>8, SeedPermissionsKeeps
<1>9. ASSUME NEW w \in Workers, SeedCommit(w)
      PROVE  RolesInv'
  BY <1>9, SeedCommitKeeps
<1>10. ASSUME NEW w \in Workers, AbandonRoles(w)
       PROVE  RolesInv'
  BY <1>10, AbandonKeeps
<1>11. ASSUME NEW org \in RoleOrgs, CompanyPurged(org)
       PROVE  RolesInv'
  BY <1>11, CompanyPurgedKeeps
<1>12. ASSUME UNCHANGED rolesVars
       PROVE  RolesInv'
  <2>1. \A w \in Workers : Writes(doing[w])' = Writes(doing[w])
    BY <1>12 DEF Writes, rolesVars
  <2>2. UNCHANGED <<role, owning, doing, overlapped, statements, roleScope>>
    BY <1>12 DEF rolesVars
  <2>3. RolesTyped'
    BY <2>2 DEF RolesInv, RolesTyped
  <2>4. JobsSound'
    BY <2>2 DEF RolesInv, JobsSound, Guarded, CanManage
  <2>5. EveryRoleIsManaged'
    BY <2>2 DEF RolesInv, EveryRoleIsManaged, LiveRoles, IsLive, Unchanged
  <2>6. SlugsChecked'
    BY <2>1, <2>2 DEF RolesInv, SlugsChecked, IsLive, KeyOf
  <2> QED BY <2>3, <2>4, <2>5, <2>6 DEF RolesInv
<1> QED BY <1>1, <1>2, <1>3, <1>4, <1>5, <1>6, <1>7, <1>8, <1>9, <1>10, <1>11, <1>12 DEF RolesNext

\* Every handler's job is fit for its statement, every role is managed, and a slug
\* that two roles share, or that a handler is about to give a second one, is one
\* that two handlers had checked.
THEOREM RolesInvariant == RolesSpec => []RolesInv
<1> QED BY RolesInitially, RolesStep, PTL DEF RolesSpec

\* The tables of roles and permissions and the handlers have their types, and a
\* role that is gone took its permissions along.
THEOREM RolesTypes == RolesSpec => []RolesTypeOK
<1>1. RolesInv => RolesTypeOK
  <2> SUFFICES ASSUME RolesInv
               PROVE  RolesTypeOK
    OBVIOUS
  <2>1. ASSUME NEW r \in RoleIds, role[r] # None
        PROVE  /\ role[r].panel \in Panels /\ role[r].org \in RoleOrgs \cup {None} /\ role[r].slug \in RoleSlugs
               /\ role[r].life \in {"live", "gone"} /\ IsPermissions(role[r].permissions)
               /\ role[r].life = "gone" => DOMAIN role[r].permissions = {}
    <3>1. role[r] \in RoleRow
      BY <2>1 DEF RolesInv, RolesTyped
    <3>2. role[r].permissions \in PermissionTables
      BY <3>1, RowFields
    <3>3. IsPermissions(role[r].permissions)
      BY <3>2, TableFields DEF IsPermissions
    <3>4. role[r].life = "gone" => DOMAIN role[r].permissions = {}
      BY <2>1 DEF RolesInv, RolesTyped
    <3> QED BY <3>1, <3>3, <3>4, RowFields
  <2>2. \A w \in Workers : doing[w] # None => doing[w].op \in RoleCalls /\ doing[w].by \in RoleCallers \cup {None}
    BY JobFields DEF RoleJobs
  <2> QED BY <2>1, <2>2 DEF RolesTypeOK, RolesInv, RolesTyped
<1> QED BY <1>1, RolesInvariant, PTL

\* Two roles share a slug only if two handlers had checked it before either wrote.
THEOREM RoleTwins == RolesSpec => []TwinsOverlapped
<1>1. RolesInv => TwinsOverlapped
  BY DEF RolesInv, SlugsChecked, TwinsOverlapped, LiveRoles, KeyOf
<1> QED BY <1>1, RolesInvariant, PTL

\* Every role has the account, session and user permissions as the code manages
\* them, whatever the routers and the seeding do to one another.
THEOREM RolesManaged == RolesSpec => []EveryRoleIsManaged
<1>1. RolesInv => EveryRoleIsManaged
  BY DEF RolesInv
<1> QED BY <1>1, RolesInvariant, PTL


-----------------------------------------------------------------------------
(* Roles of owners *)

\* What a statement of a handler may leave of roles, when its caller may not
\* manage those of owners.
LEMMA StatementGuarded ==
  ASSUME RolesInv, NEW w \in Workers, Outsider(doing[w]), NEW r \in RoleIds, role'[r] # role[r],
         \/ Reached(w, "createRole") /\ InsertRole(w)
         \/ Reached(w, "updateRole") /\ WriteRole(w)
         \/ Reached(w, "removeRole") /\ DeleteRole(w)
         \/ Reached(w, "createPermission") /\ InsertPermission(w)
         \/ Reached(w, "updatePermission") /\ SetPermission(w)
         \/ Reached(w, "removePermission") /\ DeletePermission(w)
  PROVE  \/ ~ IsOwnerSlug(role'[r].slug)
         \/ doing[w].oldSlug # None /\ ~ IsOwnerSlug(doing[w].oldSlug) /\ role'[r].slug = role[r].slug
<1> DEFINE job == doing[w]
<1>1. job \in RoleJobs /\ SoundJob(job, role) /\ Guarded(job) /\ job # None
  BY JobFields DEF Outsider
<1>2. job.by # None /\ job.by.org # None /\ ~ IsOwnerSlug(job.by.slug)
  BY DEF Outsider
<1>3. /\ job.op \in {"createRole", "updateRole"} /\ job.body.slug # None => ~ IsOwnerSlug(job.body.slug)
      /\ job.op \in {"updateRole", "removeRole"} \cup PermissionCalls =>
           job.oldSlug # None /\ ~ IsOwnerSlug(job.oldSlug)
  BY <1>1, <1>2, RolesAssumption DEF Guarded, CanManage
<1>4. role \in [RoleIds -> RoleRow \cup {None}]
  BY DEF RolesInv, RolesTyped
<1>5. CASE Reached(w, "createRole") /\ InsertRole(w)
  <2>1. PICK q \in FreshRoles(1) :
          role' = [role EXCEPT ![q] = NewRole(job.by.panel, job.org, job.body.slug,
                                              MergedPermissions(job.body), statements')]
    BY <1>5 DEF InsertRole
  <2>2. r = q /\ role'[r].slug = job.body.slug
    BY <1>4, <2>1 DEF NewRole
  <2> QED BY <1>1, <1>3, <1>5, <2>2 DEF Reached, SoundJob
<1>6. CASE Reached(w, "updateRole") /\ WriteRole(w)
  <2>1. job.body.slug # None /\ role' = [role EXCEPT ![job.id].slug = job.body.slug] /\ IsLive(role[job.id])
    BY <1>6 DEF WriteRole
  <2>2. r = job.id /\ role[r] \in RoleRow
    BY <1>4, <2>1 DEF IsLive
  <2>3. role'[r].slug = job.body.slug
    BY <1>4, <2>1, <2>2, RowFields
  <2> QED BY <1>3, <1>6, <2>1, <2>3 DEF Reached
<1>7. CASE Reached(w, "removeRole") /\ DeleteRole(w)
  <2>1. role' = [role EXCEPT ![job.id] = Removed(@)] /\ IsLive(role[job.id])
    BY <1>7 DEF DeleteRole
  <2>2. r = job.id /\ role[r] \in RoleRow /\ role'[r] = Removed(role[r])
    BY <1>4, <2>1 DEF IsLive
  <2>3. role'[r].slug = role[r].slug
    BY <2>2, RowFields DEF Removed
  <2> QED BY <1>3, <1>7, <2>3 DEF Reached
<1>8. ASSUME NEW p, job.op \in PermissionCalls, IsLive(role[job.id]),
             role' = [role EXCEPT ![job.id].permissions = p]
      PROVE  job.oldSlug # None /\ ~ IsOwnerSlug(job.oldSlug) /\ role'[r].slug = role[r].slug
  <2>1. r = job.id /\ role[r] \in RoleRow
    BY <1>4, <1>8 DEF IsLive
  <2>2. role'[r].slug = role[r].slug
    BY <1>4, <1>8, <2>1, RowFields
  <2> QED BY <1>3, <1>8, <2>2
<1>9. CASE Reached(w, "createPermission") /\ InsertPermission(w)
  <2> DEFINE row == [f \in {job.body.resource} |-> NormalizedPermission(job.body)]
             old == role[job.id].permissions
             p == [f \in DOMAIN old \cup DOMAIN row |-> IF f \in DOMAIN old THEN old[f] ELSE Inserted(row, statements')[f]]
  <2>1. IsLive(role[job.id]) /\ role' = [role EXCEPT ![job.id].permissions = p]
    BY <1>9 DEF InsertPermission
  <2> HIDE DEF p
  <2>2. job.op \in PermissionCalls
    BY <1>9 DEF Reached, PermissionCalls
  <2> QED BY <1>8, <2>1, <2>2
<1>10. CASE Reached(w, "updatePermission") /\ SetPermission(w)
  <2> DEFINE row == NormalizedPermission([job.body EXCEPT
                      !.level = IF @ = None THEN job.old.level ELSE @,
                      !.actions = IF @ = None THEN job.old.actions ELSE @])
             old == role[job.id].permissions
             p == [old EXCEPT ![job.body.resource] = [level |-> row.level, actions |-> row.actions, id |-> @.id]]
  <2>1. /\ HasPermissionRow(job)
        /\ role' = [role EXCEPT ![job.id].permissions[job.body.resource] =
                      [level |-> row.level, actions |-> row.actions, id |-> @.id]]
    BY <1>10 DEF SetPermission
  <2>2. IsLive(role[job.id]) /\ role' = [role EXCEPT ![job.id].permissions = p]
    BY <2>1 DEF HasPermissionRow
  <2> HIDE DEF p
  <2>3. job.op \in PermissionCalls
    BY <1>10 DEF Reached, PermissionCalls
  <2> QED BY <1>8, <2>2, <2>3
<1>11. CASE Reached(w, "removePermission") /\ DeletePermission(w)
  <2> DEFINE old == role[job.id].permissions
             p == [f \in DOMAIN old \ {job.body.resource} |-> old[f]]
  <2>1. HasPermissionRow(job) /\ role' = [role EXCEPT ![job.id].permissions = p]
    BY <1>11 DEF DeletePermission
  <2>2. IsLive(role[job.id])
    BY <2>1 DEF HasPermissionRow
  <2> HIDE DEF p
  <2>3. job.op \in PermissionCalls
    BY <1>11 DEF Reached, PermissionCalls
  <2> QED BY <1>8, <2>1, <2>2, <2>3
<1> QED BY <1>5, <1>6, <1>7, <1>9, <1>10, <1>11

\* No other step of a handler both ends its job and changes a role for a caller.
LEMMA StepGuarded ==
  ASSUME RolesInv, RolesNext, NEW w \in Workers, NEW r \in RoleIds, Outsider(doing[w]), doing'[w] = None, role'[r] # role[r]
  PROVE  \/ ~ IsOwnerSlug(role'[r].slug)
         \/ doing[w].oldSlug # None /\ ~ IsOwnerSlug(doing[w].oldSlug) /\ role'[r].slug = role[r].slug
<1> DEFINE Statement(v) ==
             \/ Reached(v, "createRole") /\ InsertRole(v)
             \/ Reached(v, "updateRole") /\ WriteRole(v)
             \/ Reached(v, "removeRole") /\ DeleteRole(v)
             \/ Reached(v, "createPermission") /\ InsertPermission(v)
             \/ Reached(v, "updatePermission") /\ SetPermission(v)
             \/ Reached(v, "removePermission") /\ DeletePermission(v)
<1>1. doing[w] # None /\ Guarded(doing[w]) /\ SoundJob(doing[w], role) /\ doing \in [Workers -> RoleJobs \cup {None}]
  BY JobFields DEF Outsider, RolesInv, RolesTyped
<1>2. \A org \in RoleOrgs : ~ CompanyPurged(org)
  BY <1>1 DEF CompanyPurged
<1>3. ASSUME NEW v \in Workers, NEW job, Take(v, job)
      PROVE  FALSE
  BY <1>3 DEF Take
<1>4. ASSUME NEW v \in Workers, Statement(v)
      PROVE  v = w
  <2>1. RoleDone(v)
    BY <1>4 DEF InsertRole, WriteRole, DeleteRole, InsertPermission, SetPermission, DeletePermission
  <2> QED BY <1>1, <2>1 DEF RoleDone
<1>5. ASSUME NEW v \in Workers, SeedCommit(v)
      PROVE  FALSE
  <2>1. RoleDone(v) /\ doing[v] # None /\ doing[v].step = "commit"
    BY <1>5 DEF SeedCommit
  <2>2. v = w
    BY <1>1, <2>1 DEF RoleDone
  <2> QED BY <1>1, <2>1, <2>2 DEF SoundJob, Guarded, Outsider
<1>6. \A v \in Workers : ~ SeedRoles(v) /\ ~ SeedPermissions(v) /\ ~ AbandonRoles(v)
  BY <1>3 DEF SeedRoles, TakeWithSlug, SeedPermissions, AbandonRoles
<1>7. PICK v \in Workers :
        \/ CompanyCreateRole(v) \/ CompanyUpdateRole(v) \/ CompanyRemoveRole(v)
        \/ CompanyCreatePermission(v) \/ CompanyUpdatePermission(v) \/ CompanyRemovePermission(v)
        \/ KernelCreateRole(v) \/ KernelUpdateRole(v) \/ KernelRemoveRole(v)
        \/ KernelCreatePermission(v) \/ KernelUpdatePermission(v) \/ KernelRemovePermission(v)
        \/ ProptryxCreateRole(v) \/ ProptryxUpdateRole(v) \/ ProptryxRemoveRole(v)
        \/ ProptryxCreatePermission(v) \/ ProptryxUpdatePermission(v) \/ ProptryxRemovePermission(v)
  BY <1>2, <1>5, <1>6 DEF RolesNext
<1>8. Statement(v)
  <2>1. \A job : ~ TakeWithSlug(v, job) /\ ~ TakeOnly(v, job)
    BY <1>3 DEF TakeWithSlug, TakeOnly
  <2>2. CASE CompanyCreateRole(v) \/ KernelCreateRole(v) \/ ProptryxCreateRole(v)
    BY <2>1, <2>2 DEF CompanyCreateRole, KernelCreateRole, ProptryxCreateRole, ByCompany, ByKernel
  <2>3. CASE CompanyUpdateRole(v) \/ KernelUpdateRole(v) \/ ProptryxUpdateRole(v)
    BY <2>1, <2>3 DEF CompanyUpdateRole, KernelUpdateRole, ProptryxUpdateRole, ByCompany, ByKernel
  <2>4. CASE CompanyRemoveRole(v) \/ KernelRemoveRole(v) \/ ProptryxRemoveRole(v)
    BY <2>1, <2>4 DEF CompanyRemoveRole, KernelRemoveRole, ProptryxRemoveRole, ByCompany, ByKernel
  <2>5. CASE CompanyCreatePermission(v) \/ KernelCreatePermission(v) \/ ProptryxCreatePermission(v)
    BY <2>1, <2>5 DEF CompanyCreatePermission, KernelCreatePermission, ProptryxCreatePermission, ByCompany, ByKernel
  <2>6. CASE CompanyUpdatePermission(v) \/ KernelUpdatePermission(v) \/ ProptryxUpdatePermission(v)
    BY <2>1, <2>6 DEF CompanyUpdatePermission, KernelUpdatePermission, ProptryxUpdatePermission, ByCompany, ByKernel
  <2>7. CASE CompanyRemovePermission(v) \/ KernelRemovePermission(v) \/ ProptryxRemovePermission(v)
    BY <2>1, <2>7 DEF CompanyRemovePermission, KernelRemovePermission, ProptryxRemovePermission, ByCompany, ByKernel
  <2> QED BY <1>7, <2>2, <2>3, <2>4, <2>5, <2>6, <2>7
<1>9. v = w
  BY <1>4, <1>8
<1> HIDE DEF Statement
<1>10. Statement(w)
  BY <1>8, <1>9
<1> QED BY ONLY <1>10, RolesInv, w \in Workers, r \in RoleIds, Outsider(doing[w]), role'[r] # role[r], StatementGuarded DEF Statement

\* A member of another role neither changes an owner role nor makes one.
THEOREM OwnersGuarded == RolesSpec => OwnerRoleGuarded
<1> DEFINE Step == \A w \in Workers, r \in RoleIds :
             Outsider(doing[w]) /\ doing'[w] = None /\ role'[r] # role[r]
             => \/ ~ IsOwnerSlug(role'[r].slug)
                \/ doing[w].oldSlug # None /\ ~ IsOwnerSlug(doing[w].oldSlug) /\ role'[r].slug = role[r].slug
<1>1. RolesInv /\ [RolesNext]_rolesVars => [Step]_rolesVars
  <2> SUFFICES ASSUME RolesInv, RolesNext
               PROVE  Step
    OBVIOUS
  <2> QED BY StepGuarded
<1>2. RolesSpec => [][Step]_rolesVars
  BY <1>1, RolesInvariant, PTL DEF RolesSpec
<1> QED BY <1>2 DEF OwnerRoleGuarded

=============================================================================
