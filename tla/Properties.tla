------------------------------- MODULE Properties -------------------------------
(***************************************************************************)
(* Properties, written by the company service (by the people of one          *)
(* organization) and by the kernel service (by staff, brokers and people of   *)
(* a company).  A handler reads the property, checks the plan, the caller and *)
(* the owners it is given, and then writes in one transaction, by primary     *)
(* key; the row lock of its first UPDATE makes transactions on one property   *)
(* follow one another, unless an UPDATE finds no row to lock because the       *)
(* property was moved to another organization.                                *)
(***************************************************************************)
EXTENDS Tables, OrgLimits, FiniteSets

CONSTANTS
  Orgs,            \* organizations
  People,          \* users: members of organizations, brokers, staff
  Props,           \* primary keys of properties (bounds the inserts)
  Callers,         \* who calls: a set of Caller records
  Bodies,          \* what is sent: a set of Body records (bounds the requests)
  PropertyPlan,    \* the plan of each organization
  PropertyScopes   \* a behaviour takes calls, callers, bodies and keys from one of them, and
                   \* moves properties between organizations if "moveProperty" is a call

Kinds == {"RETAIL", "OFFICE", "WAREHOUSE", "COMMERCIAL_PARKING"}
Certificates == {"PENDING", "RECEIVED", "NOT_REQUIRED"}
Maybe(S) == S \cup {None}

PropertyOps == {"createProperty", "updateProperty", "removeProperty", "kernelCreateProperty",
                "kernelUpdateProperty", "kernelRemoveProperty", "restoreProperty",
                "purgeProperty", "announce", "moveProperty", "membership", "organization", "person"}

\* org: the active organization of a caller on the company panel.  ownOnly:
\* the caller's access level is "user".
Caller == [user : People, broker : BOOLEAN, org : Maybe(Orgs), ownOnly : BOOLEAN,
           may : SUBSET {"update", "publish", "verify"}]

\* A field that is None is undefined: the request does not mention it.
\* terms: owners with the area each of them is given; details: the kinds whose
\* details are given; mandate: media with or without an e-mandate.
Terms == [People -> {"none", "owner", "area"}]
Body == [kind : Maybe(Kinds), details : Maybe(SUBSET Kinds), org : Maybe(Orgs),
         superOwner : Maybe(People), coOwners : Maybe(SUBSET People), terms : Maybe(Terms),
         certificate : Maybe(Certificates), dated : BOOLEAN, published : Maybe(BOOLEAN),
         verified : Maybe(BOOLEAN), mandate : Maybe(BOOLEAN)]

Property == [org : Maybe(Orgs), kind : Kinds, superOwner : Maybe(People),
             creator : Maybe(People), certificate : Certificates, operational : BOOLEAN,
             dated : BOOLEAN, published : BOOLEAN, verified : BOOLEAN, life : Lives]

NoOne == [u \in People |-> "none"]

\* The rows of other tables that an update may insert: an owner, details of a
\* kind, media with an e-mandate.
OwnerRow(u) == <<"owner", u>>
DetailsRow(k) == <<"details", k>>
MandateRow == <<"media", "mandate">>
PropertyRows == {OwnerRow(u) : u \in People} \cup {DetailsRow(k) : k \in Kinds} \cup {MandateRow}

\* An update between its first statement and its commit: did it lock the row of
\* the property, and which rows were committed by others since?
Transaction == [locks : BOOLEAN, unseen : SUBSET PropertyRows]

PropertyScope == [calls : SUBSET PropertyOps, callers : SUBSET Callers, bodies : SUBSET Bodies,
                  props : SUBSET Props]

PropertyTask == [op : PropertyOps, prop : Maybe(Props), by : Callers, body : Maybe(Bodies),
                 old : Maybe(Property), terms : Terms]

ASSUME PropertiesAssumption ==
  /\ Props \subseteq Nat
  /\ Callers \subseteq Caller
  /\ Bodies \subseteq Body
  /\ PropertyPlan \in [Orgs -> PlanRow]
  /\ PropertyScopes \subseteq PropertyScope
  /\ IsFiniteSet(Props)
  /\ \A c \in Callers : c.broker => c.org = None  \* a broker is on the panel of the kernel service
  /\ None \notin Props /\ None \notin Orgs /\ None \notin People
  /\ None \notin Bodies /\ None \notin Property /\ None \notin PropertyTask /\ None \notin Terms
  /\ None \notin Transaction
  /\ None \notin Kinds /\ None \notin Certificates /\ None \notin BOOLEAN

VARIABLES
  prop,       \* table property
  terms,      \* table property_owner, by property
  details,    \* the four tables of details, by property: the kinds with a row
  mandate,    \* table property_media, by property: is there an e-mandate?
  announced,  \* was the publication announced to the notification service?
  position,       \* table member, by organization and user, as far as it is read here
  liveOrgs,   \* organizations that are not deleted
  editing,    \* what each handler keeps across its awaits
  tx,         \* the transaction of each handler that is in the middle of an update
  aside,      \* properties written by two updates at once, of which one had locked nothing
  within      \* the scope of this behaviour

propertiesVars ==
  <<prop, terms, details, mandate, announced, position, liveOrgs, editing, tx, aside, within>>

-----------------------------------------------------------------------------
(* The limit on properties *)

MembersOfOrg(o) == {u \in People : position[o][u] # None}

\* usedProperties: those of the organization, and those of nobody's
\* organization that a member owns or created.
UsedProperties(o) ==
  {p \in Props : /\ IsLive(prop[p])
                 /\ \/ prop[p].org = o
                    \/ /\ prop[p].org = None
                       /\ {prop[p].superOwner, prop[p].creator} \cap MembersOfOrg(o) # {}}

PropertyAllowed(o) ==
  LimitAllows(PropertyPlan[o], "maxProperties", Cardinality(UsedProperties(o)), 1)

-----------------------------------------------------------------------------
(* Owners and their terms *)

\* normalizePropertyOwnerTerms: the super owner, then the terms given, then the
\* co-owners who are not there yet.
NormalizedTerms(super, body) ==
  [u \in People |->
    IF body.terms # None /\ body.terms[u] # "none" THEN body.terms[u]
    ELSE IF u = super \/ (body.coOwners # None /\ u \in body.coOwners) THEN "owner"
    ELSE "none"]

\* mergePropertyOwnerTermsWithExisting: what a term leaves out stays.
MergedTerms(new, old) == [u \in People |-> IF new[u] = "owner" /\ old[u] = "area" THEN "area" ELSE new[u]]

KernelNormalizedTerms(super, body) == NormalizedTerms(super, body)
KernelMergedTerms(new, old) == MergedTerms(new, old)

CoOwners(ts, super) == {u \in People : ts[u] # "none"} \ {super}

IsPropertyOwner(o, u) == position[o][u] = "property_owner"

\* validateCompanyPropertyReferences; a super owner who is not sent is not checked.
ValidReferences(o, super, others) ==
  /\ o \in liveOrgs
  /\ super # None => IsPropertyOwner(o, super)
  /\ \A u \in others : IsPropertyOwner(o, u)

\* validateKernelPropertyReferences: without an organization any user will do.
KernelValidReferences(o, super, others) == o # None => ValidReferences(o, super, others)

-----------------------------------------------------------------------------
(* Fields *)

Given(new, old) == IF new = None THEN old ELSE new

\* getDerivedPropertyFields, from the status sent or else from the one read.
Derived(row, status, dated) ==
  [row EXCEPT !.operational = status # "PENDING",
              !.dated = status = "RECEIVED" \/ (status = "NOT_REQUIRED" /\ dated)]

KernelDerived(row, status, dated) == Derived(row, status, dated)

GivenDetails(kind, body) == IF body.details = None THEN {} ELSE body.details \cap {kind}

ReplacedDetails_KeepsOthers(p, kind, body, unseen) ==
  [details EXCEPT ![p] = (@ \ {kind}) \cup GivenDetails(kind, body)]

\* replacePropertyTypeDetails: every row that the DELETEs see goes, and the one of
\* the kind comes back.
ReplacedDetails(p, kind, body, unseen) ==
  [details EXCEPT ![p] = GivenDetails(kind, body) \cup {k \in @ : DetailsRow(k) \in unseen}]

KernelReplacedDetails(p, kind, body, unseen) == ReplacedDetails(p, kind, body, unseen)

\* An update leaves the details alone unless it names a kind or details; the
\* kind is the one sent, or else the one that was read.
TouchesDetails(body) == body.kind # None \/ body.details # None

ReplacedMandate(p, body, unseen) ==
  [mandate EXCEPT ![p] = Given(body.mandate, @) \/ (MandateRow \in unseen /\ @)]

-----------------------------------------------------------------------------
(* The steps of a handler *)

\* canAccessPropertyAsCurrentUser
OwnsProperty(p, u) == u \in {prop[p].creator, prop[p].superOwner} \/ terms[p][u] # "none"

\* The company service looks for a property of the caller's organization.
Reaches(c, p) ==
  /\ c.org # None /\ prop[p].org = c.org
  /\ c.ownOnly => OwnsProperty(p, c.user)

\* The kernel service: staff reach everything, a broker what they created.
KernelReaches(c, p) ==
  /\ c.org # None => prop[p].org = c.org
  /\ IF c.broker THEN prop[p].creator = c.user ELSE c.ownOnly => OwnsProperty(p, c.user)

StartEdit(w, t) ==
  /\ editing[w] = None
  /\ t.op \in within.calls
  /\ editing' = [editing EXCEPT ![w] = t]
  /\ UNCHANGED <<prop, terms, details, mandate, announced, position, liveOrgs, tx, aside, within>>

Ends(w, op, next) ==
  /\ editing[w] # None /\ editing[w].op = op
  /\ editing' = [editing EXCEPT ![w] = next]
  /\ UNCHANGED <<announced, position, liveOrgs, within>>

EndEdit(w, op) == Ends(w, op, None)

\* After its transaction a handler reads the property again, to announce it if
\* it was not published when it was first read.
EndWrite(w, op, p) ==
  LET old == editing[w].old
  IN  Ends(w, op, IF old # None /\ old.published THEN None
                  ELSE [editing[w] EXCEPT !.op = "announce", !.prop = p, !.body = None])

Edit(op, p, c, body, ts) ==
  [op |-> op, prop |-> p, by |-> c, body |-> body, terms |-> ts,
   old |-> IF p = None THEN None ELSE prop[p]]

-----------------------------------------------------------------------------
(* Creating *)

NewProperty(org, super, creator, body) ==
  LET row == [org |-> org, kind |-> body.kind, superOwner |-> super, creator |-> creator,
              certificate |-> Given(body.certificate, "PENDING"), operational |-> FALSE,
              dated |-> body.dated, published |-> Given(body.published, FALSE),
              verified |-> Given(body.verified, FALSE), life |-> "live"]
  IN  IF body.certificate = None THEN row ELSE Derived(row, body.certificate, body.dated)

FreshProperty(p) ==
  p \in within.props /\ prop[p] = None /\ \A q \in Props : q < p => prop[q] # None

\* A handler that has read its plan and its references, and nothing else yet.
CreateBegin(w, c, body) ==
  LET super == body.superOwner
      ts == NormalizedTerms(super, body)
  IN  /\ body.kind # None
      /\ c.org # None
      /\ PropertyAllowed(c.org)
      /\ ValidReferences(c.org, super, CoOwners(ts, super))
      /\ StartEdit(w, Edit("createProperty", None, c, body, ts))

InsertProperty(p, row, ts, body) ==
  /\ FreshProperty(p)
  /\ prop' = [prop EXCEPT ![p] = row]
  /\ terms' = [terms EXCEPT ![p] = ts]
  /\ mandate' = ReplacedMandate(p, body, {})
  /\ details' = ReplacedDetails(p, row.kind, body, {})
  /\ UNCHANGED <<tx, aside>>

CreateProperty(w) ==
  LET t == editing[w]
  IN  \E p \in Props :
        /\ EndWrite(w, "createProperty", p)
        /\ InsertProperty(p, NewProperty(t.by.org, t.body.superOwner, t.by.user, t.body),
                          t.terms, t.body)

\* A broker's property is the broker's own and in no organization.
KernelOrg(c, body, org) == IF c.broker THEN None ELSE IF c.org # None THEN c.org ELSE Given(body.org, org)
KernelSuperOwner(c, body, super) == IF c.broker THEN c.user ELSE Given(body.superOwner, super)

\* hasEMandateMedia
HasMandate(body) == body.mandate = TRUE

KernelCreateBegin(w, c, body) ==
  LET org == KernelOrg(c, body, None)
      super == KernelSuperOwner(c, body, None)
      ts == KernelNormalizedTerms(super, body)
  IN  /\ body.kind # None
      /\ body.published = TRUE => "publish" \in c.may
      /\ body.verified = TRUE => "verify" \in c.may
      /\ c.broker => HasMandate(body)
      /\ c.broker \/ org # None
      /\ org # None => PropertyAllowed(org)
      /\ KernelValidReferences(org, super, CoOwners(ts, super))
      /\ StartEdit(w, Edit("kernelCreateProperty", None, c, body, ts))

KernelCreateProperty(w) ==
  LET t == editing[w]
      org == KernelOrg(t.by, t.body, None)
      super == KernelSuperOwner(t.by, t.body, None)
  IN  \E p \in Props :
        /\ EndWrite(w, "kernelCreateProperty", p)
        /\ InsertProperty(p, NewProperty(org, super, t.by.user, t.body), t.terms, t.body)

-----------------------------------------------------------------------------
(* Updating *)

TouchesOwners(body) == body.coOwners # None \/ body.terms # None

TermsToWrite(p, super, body) ==
  LET new == NormalizedTerms(super, body)
  IN  IF TouchesOwners(body) THEN MergedTerms(new, terms[p]) ELSE new

UpdateBegin(w, p, c, body) ==
  LET super == Given(body.superOwner, prop[p].superOwner)
      ts == TermsToWrite(p, super, body)
  IN  /\ IsLive(prop[p])
      /\ Reaches(c, p)
      /\ ValidReferences(c.org, body.superOwner, CoOwners(ts, super))
      /\ StartEdit(w, Edit("updateProperty", p, c, body, ts))

\* The columns of an UPDATE: what is sent, and what is derived from the row that
\* was read before.
Updated(row, old, body) ==
  LET sent == [row EXCEPT !.kind = Given(body.kind, @),
                          !.superOwner = Given(body.superOwner, @),
                          !.certificate = Given(body.certificate, @),
                          !.published = Given(body.published, @),
                          !.verified = Given(body.verified, @)]
  IN  Derived(sent, Given(body.certificate, old.certificate), body.dated \/ old.dated)

\* The handlers that are in the middle of an update of a property, and the lock
\* of its row.
Updating(v, p) == tx[v] # None /\ editing[v] # None /\ editing[v].prop = p
RowFree(w, p) == \A v \in Workers \ {w} : Updating(v, p) => ~ tx[v].locks

\* The company's UPDATE is of the property in the caller's organization; if it was
\* moved away, nothing is locked.  The kernel's is by id.
RowMatches(t) == t.op = "kernelUpdateProperty" \/ prop[t.prop].org = t.by.org
FindsRow(w) == IF tx[w] = None THEN RowMatches(editing[w]) ELSE tx[w].locks

\* The first statement of the transaction.  (As long as no property is moved every
\* UPDATE finds its row, and one step stands for each transaction.)
LockRow(w) ==
  LET t == editing[w]
  IN  /\ "moveProperty" \in within.calls
      /\ t # None /\ t.op \in {"updateProperty", "kernelUpdateProperty"} /\ tx[w] = None
      /\ Exists(prop[t.prop])
      /\ RowMatches(t) => RowFree(w, t.prop)
      /\ tx' = [tx EXCEPT ![w] = [locks |-> RowMatches(t), unseen |-> {}]]
      /\ UNCHANGED <<prop, terms, details, mandate, announced, position, liveOrgs, editing, aside, within>>

DetailsKind(t) == Given(t.body.kind, t.old.kind)

InsertedRows(t) ==
  {OwnerRow(u) : u \in {v \in People : TouchesOwners(t.body) /\ t.terms[v] # "none"}}
    \cup {DetailsRow(k) : k \in {j \in GivenDetails(DetailsKind(t), t.body) : TouchesDetails(t.body)}}
    \cup (IF t.body.mandate = TRUE THEN {MandateRow} ELSE {})

\* The row comes first, so that its lock covers the rest.  Nothing is written
\* about a property that is gone.  What was committed since the first statement
\* may have been missed by the DELETEs (a row that is there twice is refused).
WriteUpdate(w, row) ==
  LET t == editing[w]
      p == t.prop
  IN  /\ Exists(prop[p])
      /\ tx[w] = None /\ RowMatches(t) => RowFree(w, p)
      /\ prop' = [prop EXCEPT ![p] = row]
      /\ \E unseen \in SUBSET (IF tx[w] = None THEN {} ELSE tx[w].unseen \ InsertedRows(t)) :
           /\ mandate' = ReplacedMandate(p, t.body, unseen)
           /\ terms' = [terms EXCEPT ![p] =
                IF ~ TouchesOwners(t.body) THEN @
                ELSE [u \in People |-> IF OwnerRow(u) \in unseen THEN @[u] ELSE t.terms[u]]]
           /\ details' = IF TouchesDetails(t.body) THEN ReplacedDetails(p, DetailsKind(t), t.body, unseen)
                         ELSE details
      /\ tx' = [v \in Workers |->
           IF v = w THEN None
           ELSE IF Updating(v, p) THEN [tx[v] EXCEPT !.unseen = @ \cup InsertedRows(t)] ELSE tx[v]]
      /\ aside' = IF \E v \in Workers \ {w} : Updating(v, p) /\ ~ (FindsRow(w) /\ tx[v].locks)
                  THEN aside \cup {p} ELSE aside

\* A property that was moved away keeps its columns; its owners, media and
\* details are written all the same.
UpdateProperty(w) ==
  LET t == editing[w]
  IN  /\ EndWrite(w, "updateProperty", t.prop)
      /\ WriteUpdate(w, IF FindsRow(w) THEN Updated(prop[t.prop], t.old, t.body) ELSE prop[t.prop])

\* getPropertyUpdatePermissionError: who may not update may still publish or
\* verify; what does not change the row that was read needs no permission.
OnlyFlags(body) ==
  body = [b \in DOMAIN body |->
    IF b \in {"published", "verified"} THEN body[b] ELSE IF b = "dated" THEN FALSE ELSE None]

MayUpdate(c, row, body) ==
  \/ "update" \in c.may
  \/ /\ OnlyFlags(body)
     /\ body.published \in {None, row.published} \/ "publish" \in c.may
     /\ body.verified \in {None, row.verified} \/ "verify" \in c.may

KernelUpdateBegin(w, p, c, body) ==
  LET org == KernelOrg(c, body, prop[p].org)
      super == KernelSuperOwner(c, body, prop[p].superOwner)
      new == KernelNormalizedTerms(super, body)
      ts == IF TouchesOwners(body) THEN KernelMergedTerms(new, terms[p]) ELSE new
  IN  /\ IsLive(prop[p])
      /\ org # prop[p].org => "moveProperty" \in within.calls
      /\ KernelReaches(c, p)
      /\ MayUpdate(c, prop[p], body)
      /\ c.broker /\ body.mandate # None => HasMandate(body)
      /\ KernelValidReferences(org, super, CoOwners(ts, super))
      /\ StartEdit(w, Edit("kernelUpdateProperty", p, c, body, ts))

\* Organization and super owner are always written, from the row that was read
\* if the request does not name them.
KernelUpdateProperty(w) ==
  LET t == editing[w]
  IN  /\ EndWrite(w, "kernelUpdateProperty", t.prop)
      /\ Exists(prop[t.prop])
      /\ WriteUpdate(w, [Updated(prop[t.prop], t.old, t.body) EXCEPT
           !.org = KernelOrg(t.by, t.body, t.old.org),
           !.superOwner = KernelSuperOwner(t.by, t.body, t.old.superOwner)])

-----------------------------------------------------------------------------
(* Removing and restoring *)

RemovalBegin_Unlimited(w, op, p, c) ==
  /\ Exists(prop[p])
  /\ IF op = "removeProperty" THEN Reaches(c, p) ELSE KernelReaches(c, p)
  /\ op \in {"removeProperty", "kernelRemoveProperty"} => ~ IsDeleted(prop[p])
  /\ op = "restoreProperty" => IsDeleted(prop[p])
  /\ StartEdit(w, Edit(op, p, c, None, NoOne))

RemovalBegin(w, op, p, c) ==
  /\ Exists(prop[p])
  /\ IF op = "removeProperty" THEN Reaches(c, p) ELSE KernelReaches(c, p)
  /\ op \in {"removeProperty", "kernelRemoveProperty"} => ~ IsDeleted(prop[p])
  /\ op = "restoreProperty" =>
       /\ IsDeleted(prop[p])
       /\ prop[p].org # None => PropertyAllowed(prop[p].org)
  /\ StartEdit(w, Edit(op, p, c, None, NoOne))

SetPropertyLife(w, p, life) ==
  /\ RowFree(w, p)
  /\ prop' = [prop EXCEPT ![p] = SetLife(@, life)]
  /\ UNCHANGED <<terms, details, mandate, tx, aside>>

RemoveProperty(w) ==
  LET p == editing[w].prop
  IN  /\ EndEdit(w, "removeProperty")
      /\ IF prop[p].org = editing[w].by.org THEN SetPropertyLife(w, p, "deleted")
         ELSE UNCHANGED <<prop, terms, details, mandate, tx, aside>>

KernelRemoveProperty(w) ==
  EndEdit(w, "kernelRemoveProperty") /\ SetPropertyLife(w, editing[w].prop, "deleted")

\* Media and zones come back with the property; nothing deletes them softly.
RestoreProperty(w) ==
  EndEdit(w, "restoreProperty") /\ SetPropertyLife(w, editing[w].prop, "live")

\* Whatever refers to a property goes with it.
DeleteProperties(ps) ==
  /\ \A p \in ps, v \in Workers : Updating(v, p) => ~ tx[v].locks
  /\ prop' = [p \in Props |-> IF p \in ps THEN SetLife(prop[p], "gone") ELSE prop[p]]
  /\ terms' = [p \in Props |-> IF p \in ps THEN NoOne ELSE terms[p]]
  /\ details' = [p \in Props |-> IF p \in ps THEN {} ELSE details[p]]
  /\ mandate' = [p \in Props |-> mandate[p] /\ p \notin ps]
  /\ UNCHANGED <<tx, aside>>

PurgeProperty(w) == EndEdit(w, "purgeProperty") /\ DeleteProperties({editing[w].prop})

\* A refused write, or a crash: the transaction is rolled back.
EditFails(w) ==
  /\ editing[w] # None /\ editing[w].op # "announce"
  /\ editing' = [editing EXCEPT ![w] = None]
  /\ tx' = [tx EXCEPT ![w] = None]
  /\ UNCHANGED <<prop, terms, details, mandate, announced, position, liveOrgs, aside, within>>

AnnouncementDue_AfterCreation(t) ==
  t.old = None /\ prop[t.prop].published /\ prop[t.prop].org # None

\* What was read after the transaction is published, in an organization (for the
\* company service: in the caller's).
AnnouncementDue(t) ==
  /\ Exists(prop[t.prop]) /\ prop[t.prop].published /\ prop[t.prop].org # None
  /\ t.by.org # None => prop[t.prop].org = t.by.org

\* notifyPropertyPublished: a request that fails, or a crash before it, is not
\* repeated.
NotifyPropertyPublished(w) ==
  LET t == editing[w]
  IN  /\ t # None /\ t.op = "announce"
      /\ editing' = [editing EXCEPT ![w] = None]
      /\ \E outcome \in {"sent", "lost"} :
           announced' = IF AnnouncementDue(t) THEN [announced EXCEPT ![t.prop] = outcome]
                        ELSE announced
      /\ UNCHANGED <<prop, terms, details, mandate, position, liveOrgs, tx, aside, within>>

-----------------------------------------------------------------------------
(* What other parts of the system do meanwhile *)

MembershipChanges(o, u) ==
  /\ "membership" \in within.calls
  /\ \E r \in {None, "property_owner"} : position' = [position EXCEPT ![o][u] = r]
  /\ UNCHANGED <<prop, terms, details, mandate, announced, liveOrgs, editing, tx, aside, within>>

\* remove and restore of a company; a permanent removal takes its properties.
OrganizationChanges(o) ==
  /\ "organization" \in within.calls
  /\ \/ /\ liveOrgs' \in {liveOrgs \cup {o}, liveOrgs \ {o}}
        /\ UNCHANGED <<prop, terms, details, mandate, tx, aside>>
     \/ /\ DeleteProperties({p \in Props : Exists(prop[p]) /\ prop[p].org = o})
        /\ liveOrgs' = liveOrgs \ {o}
  /\ UNCHANGED <<announced, position, editing, within>>

\* ON DELETE of a user: columns become null, property_owner rows go.
PersonDeleted(u) ==
  /\ "person" \in within.calls
  /\ \A p \in Props, v \in Workers : Updating(v, p) => ~ tx[v].locks
  /\ prop' = [p \in Props |->
       IF prop[p] = None THEN None
       ELSE [prop[p] EXCEPT !.superOwner = IF @ = u THEN None ELSE @,
                            !.creator = IF @ = u THEN None ELSE @]]
  /\ terms' = [p \in Props |-> [terms[p] EXCEPT ![u] = "none"]]
  /\ position' = [o \in Orgs |-> [position[o] EXCEPT ![u] = None]]
  /\ UNCHANGED <<details, mandate, announced, liveOrgs, editing, tx, aside, within>>

-----------------------------------------------------------------------------

PropertiesInit ==
  /\ prop = [p \in Props |-> None]
  /\ terms = [p \in Props |-> NoOne]
  /\ details = [p \in Props |-> {}]
  /\ mandate = [p \in Props |-> FALSE]
  /\ announced = [p \in Props |-> "no"]
  /\ position = [o \in Orgs |-> [u \in People |->
       IF \E c \in Callers : c.user = u /\ c.org = None THEN None ELSE "property_owner"]]
  /\ liveOrgs = Orgs
  /\ editing = [w \in Workers |-> None]
  /\ tx = [w \in Workers |-> None]
  /\ aside = {}
  /\ within \in PropertyScopes

RemovalOps == {"removeProperty", "kernelRemoveProperty", "restoreProperty", "purgeProperty"}

PropertyBegin(w, c) ==
  \/ \E body \in within.bodies : CreateBegin(w, c, body) \/ KernelCreateBegin(w, c, body)
  \/ \E p \in Props :
       \/ \E body \in within.bodies : UpdateBegin(w, p, c, body) \/ KernelUpdateBegin(w, p, c, body)
       \/ \E op \in RemovalOps \cap within.calls : RemovalBegin(w, op, p, c)

PropertyWrite(w) ==
  \/ CreateProperty(w) \/ KernelCreateProperty(w)
  \/ LockRow(w) \/ UpdateProperty(w) \/ KernelUpdateProperty(w)
  \/ RemoveProperty(w) \/ KernelRemoveProperty(w) \/ RestoreProperty(w) \/ PurgeProperty(w)
  \/ NotifyPropertyPublished(w) \/ EditFails(w)

PropertiesNext ==
  \/ \E w \in Workers :
       PropertyWrite(w) \/ \E c \in within.callers : PropertyBegin(w, c)
  \/ \E o \in Orgs : OrganizationChanges(o) \/ \E u \in People : MembershipChanges(o, u)
  \/ \E u \in People : PersonDeleted(u)

PropertiesSpec == PropertiesInit /\ [][PropertiesNext]_propertiesVars

-----------------------------------------------------------------------------
(* Properties *)

\* Tables and handlers have their types; a property that is gone left nothing.
PropertiesTypeOK ==
  /\ prop \in [Props -> Maybe(Property)]
  /\ terms \in [Props -> Terms]
  /\ details \in [Props -> SUBSET Kinds]
  /\ mandate \in [Props -> BOOLEAN]
  /\ announced \in [Props -> {"no", "sent", "lost"}]
  /\ position \in [Orgs -> [People -> {None, "property_owner", "other"}]]
  /\ liveOrgs \subseteq Orgs
  /\ editing \in [Workers -> Maybe(PropertyTask)]
  /\ tx \in [Workers -> Maybe(Transaction)]
  /\ aside \subseteq Props
  /\ within \in PropertyScopes
  /\ \A p \in Props : ~ Exists(prop[p]) => terms[p] = NoOne /\ details[p] = {} /\ ~ mandate[p]

\* "Type-specific extension tables": whatever two updates of the two services
\* read before each other's writes, a property has the details of two kinds only
\* if it was moved away from an update of the company service, which therefore
\* locked nothing and ran beside another update of the same property.
OneKindOfDetails == \A p \in Props : Cardinality(details[p]) > 1 => p \in aside

\* What the two properties below leave out: properties that are moved between
\* organizations, publications that are withdrawn, and a super owner who is named
\* without an organization, who may be a member of one and brings the property
\* along into its count.
NeverMoved == "moveProperty" \notin within.calls
NeverWithdrawn == \A b \in within.bodies : b.published # FALSE
OwnersWithOrg == \A b \in within.bodies : b.superOwner # None => b.org # None

\* "Your plan allows n properties": as with members, creations and restores that
\* count at the same moment pass the limit by one each, and by no more.  Moving a
\* property into an organization does not count.
BoundedProperties ==
  \A o \in Orgs :
    NeverMoved /\ "membership" \notin within.calls /\ OwnersWithOrg
        /\ PropertyPlan[o].configured /\ PropertyPlan[o].maxProperties \in Nat =>
      Cardinality(UsedProperties(o)) <
        PropertyPlan[o].maxProperties + PropertyPlan[o].additional + Cardinality(Workers)

\* When nobody works on a property that is published in an organization, its
\* publication was announced, or the announcement was attempted: two updates
\* that both find it unpublished do not leave it to each other.  (An attempt to
\* publish again what was withdrawn meanwhile announces nothing, and so does a
\* move into an organization.)
PublishedIsAnnounced ==
  NeverMoved /\ NeverWithdrawn =>
    \A p \in Props :
      IsLive(prop[p]) /\ prop[p].published /\ prop[p].org # None
          /\ (\A w \in Workers : editing[w] = None \/ editing[w].prop # p) =>
        announced[p] # "no"

=============================================================================
