--------------------------- MODULE PropertyProofs ---------------------------
(****************************************************************************)
(* Proofs about Properties and about the meetings held on them, MeetingParties,*)
(* for any number of organizations, people, properties, meetings, calendar   *)
(* events and handlers.                                                      *)
(****************************************************************************)
EXTENDS Properties, MeetingParties, FiniteSetTheorems, TLAPS

-----------------------------------------------------------------------------
(*** Properties ***)

\* The calls that insert a property and those that rewrite one.
Creations == {"createProperty", "kernelCreateProperty"}
Updates == {"updateProperty", "kernelUpdateProperty"}

\* The limit on properties is kept where owners come with an organization.
Limited == NeverMoved /\ "membership" \notin within.calls /\ OwnersWithOrg

NotHeldBy(u) == \A o \in Orgs : u \notin MembersOfOrg(o)

\* What a handler has read and what it will write go together, as far as other
\* handlers leave it so.
SoundEdit(t) ==
  /\ t.op \in Creations => t.body \in within.bodies /\ t.body.kind # None /\ t.old = None
  /\ t.op \in {"createProperty", "updateProperty"} => t.by.org # None
  /\ t.op \in Updates =>
       t.prop \in Props /\ prop[t.prop] # None /\ t.body \in within.bodies /\ t.old # None
  /\ t.op \in RemovalOps \cup {"announce"} => t.prop \in Props /\ prop[t.prop] # None
  /\ NeverMoved =>
       /\ t.op = "updateProperty" => prop[t.prop].org = t.by.org
       /\ t.op = "kernelUpdateProperty" => KernelOrg(t.by, t.body, t.old.org) = prop[t.prop].org
       /\ t.op = "announce" /\ t.by.org # None => prop[t.prop].org = t.by.org
  /\ NeverWithdrawn /\ t.op \in Updates /\ t.old.published => prop[t.prop].published
  /\ Limited /\ t.op = "kernelUpdateProperty" /\ prop[t.prop].org = None => NotHeldBy(t.old.superOwner)

\* Every running handler keeps an edit fit for its next step.
EditsAreSound == \A w \in Workers : editing[w] # None => SoundEdit(editing[w])

\* Nobody's property of whom the plan counts nothing.
UnownedOutside ==
  Limited =>
    /\ \A c \in Callers : c.org = None => NotHeldBy(c.user)
    /\ \A p \in Props : prop[p] # None /\ prop[p].org = None =>
         NotHeldBy(prop[p].superOwner) /\ NotHeldBy(prop[p].creator)

\* A publication is announced, or there is a handler that will.
AnnouncedOrDue ==
  NeverMoved /\ NeverWithdrawn =>
    \A p \in Props :
      prop[p] # None /\ prop[p].life # "gone" /\ prop[p].published /\ prop[p].org # None =>
        \/ announced[p] # "no"
        \/ \E w \in Workers : editing[w] # None /\ editing[w].op = "announce" /\ editing[w].prop = p

\* The handlers that have passed the limit of an organization.
Enters(t, o) ==
  \/ t.op = "createProperty" /\ t.by.org = o
  \/ t.op = "kernelCreateProperty" /\ KernelOrg(t.by, t.body, None) = o
  \/ t.op = "restoreProperty" /\ prop[t.prop].org = o

\* The handlers whose next write may add a property to an organization.
Entering(o) == {w \in Workers : editing[w] # None /\ Enters(editing[w], o)}

\* Where the limit is counted, and the places it leaves.
Counts(o) == PropertyPlan[o].configured /\ PropertyPlan[o].maxProperties \in Nat
Places(o) == PropertyPlan[o].maxProperties + PropertyPlan[o].additional

\* The properties of an organization and those still to enter fit its places.
EnteringCounted ==
  \A o \in Orgs : Limited /\ Counts(o) =>
    Cardinality(UsedProperties(o)) + Cardinality(Entering(o)) < Places(o) + Cardinality(Workers)

\* Where a handler is in the middle of an update, and what it may have missed.
TransactionSound(w) ==
  /\ ~ NeverMoved
  /\ editing[w] # None /\ editing[w].op \in Updates
  /\ tx[w].unseen # {} => editing[w].prop \in aside

\* The lock of a property is held by one update at a time.
OneLock ==
  \A v, w \in Workers :
    tx[v] # None /\ tx[w] # None /\ tx[v].locks /\ tx[w].locks /\ editing[v].prop = editing[w].prop => v = w

Transactions ==
  /\ tx \in [Workers -> Maybe(Transaction)] /\ aside \subseteq Props
  /\ \A w \in Workers : tx[w] # None => TransactionSound(w)
  /\ OneLock

\* The inductive invariant of Properties.
PropertiesInv ==
  /\ PropertiesTypeOK /\ OneKindOfDetails /\ Transactions
  /\ EditsAreSound /\ UnownedOutside /\ AnnouncedOrDue /\ EnteringCounted

-----------------------------------------------------------------------------
(* Types *)

\* The fields of the tables, without those that a property that is gone must not have.
Columns ==
  /\ prop \in [Props -> Maybe(Property)]
  /\ terms \in [Props -> Terms]
  /\ details \in [Props -> SUBSET Kinds]
  /\ mandate \in [Props -> BOOLEAN]

Gone == \A p \in Props : ~ Exists(prop[p]) => terms[p] = NoOne /\ details[p] = {} /\ ~ mandate[p]

\* What bodies, terms and derived columns hold.
LEMMA BodyFields ==
  ASSUME PropertiesTypeOK, NEW b \in within.bodies
  PROVE  b \in Bodies /\ b \in Body /\ b # None
BY PropertiesAssumption DEF PropertiesTypeOK, PropertyScope

LEMMA TermsTyped ==
  ASSUME NEW b \in Body, NEW super, NEW old \in Terms
  PROVE  /\ NormalizedTerms(super, b) \in Terms
         /\ MergedTerms(NormalizedTerms(super, b), old) \in Terms
<1>1. NormalizedTerms(super, b) \in Terms
  <2>1. b.terms # None => b.terms \in Terms
    BY DEF Body, Maybe
  <2> QED BY <2>1 DEF NormalizedTerms, Terms
<1>2. \A new \in Terms : MergedTerms(new, old) \in Terms
  BY DEF MergedTerms, Terms
<1> QED BY <1>1, <1>2

LEMMA NoOneTyped == NoOne \in Terms
BY DEF NoOne, Terms

LEMMA GivenTyped ==
  ASSUME NEW S, NEW x \in Maybe(S), NEW y \in S
  PROVE  Given(x, y) \in S
BY DEF Given, Maybe

LEMMA DerivedTyped ==
  ASSUME NEW row \in Property, NEW status \in Certificates, NEW dated \in BOOLEAN
  PROVE  LET new == Derived(row, status, dated)
         IN  /\ new \in Property
             /\ new.org = row.org /\ new.kind = row.kind /\ new.superOwner = row.superOwner
             /\ new.creator = row.creator /\ new.published = row.published /\ new.life = row.life
BY DEF Derived, Property

LEMMA NewPropertyTyped ==
  ASSUME NEW b \in Body, b.kind # None, NEW org \in Maybe(Orgs), NEW super \in Maybe(People),
         NEW creator \in Maybe(People)
  PROVE  LET row == NewProperty(org, super, creator, b)
         IN  /\ row \in Property
             /\ row.org = org /\ row.superOwner = super /\ row.creator = creator /\ row.life = "live"
             /\ row.kind = b.kind
<1> DEFINE row == [org |-> org, kind |-> b.kind, superOwner |-> super, creator |-> creator,
              certificate |-> Given(b.certificate, "PENDING"), operational |-> FALSE,
              dated |-> b.dated, published |-> Given(b.published, FALSE),
              verified |-> Given(b.verified, FALSE), life |-> "live"]
<1>1. /\ b.kind \in Kinds /\ b.certificate \in Maybe(Certificates) /\ b.dated \in BOOLEAN
      /\ b.published \in Maybe(BOOLEAN) /\ b.verified \in Maybe(BOOLEAN)
  BY DEF Body, Maybe
<1>2. /\ Given(b.certificate, "PENDING") \in Certificates
      /\ Given(b.published, FALSE) \in BOOLEAN /\ Given(b.verified, FALSE) \in BOOLEAN
  BY <1>1 DEF Given, Maybe, Certificates
<1>3. row \in Property
  BY <1>1, <1>2 DEF Property, Lives
<1>4. row.org = org /\ row.superOwner = super /\ row.creator = creator /\ row.life = "live" /\ row.kind = b.kind
  OBVIOUS
<1> HIDE DEF row
<1>5. b.certificate # None =>
        LET new == Derived(row, b.certificate, b.dated)
        IN  /\ new \in Property
            /\ new.org = row.org /\ new.kind = row.kind /\ new.superOwner = row.superOwner
            /\ new.creator = row.creator /\ new.published = row.published /\ new.life = row.life
  BY <1>1, <1>3, DerivedTyped DEF Maybe
<1>6. NewProperty(org, super, creator, b) =
        IF b.certificate = None THEN row ELSE Derived(row, b.certificate, b.dated)
  BY DEF NewProperty, row
<1> QED BY <1>3, <1>4, <1>5, <1>6

LEMMA UpdatedTyped ==
  ASSUME NEW row \in Property, NEW old \in Property, NEW b \in Body
  PROVE  LET new == Updated(row, old, b)
         IN  /\ new \in Property
             /\ new.org = row.org /\ new.creator = row.creator /\ new.life = row.life
             /\ new.superOwner = Given(b.superOwner, row.superOwner)
             /\ new.published = Given(b.published, row.published)
<1> DEFINE sent == [row EXCEPT !.kind = Given(b.kind, @),
                               !.superOwner = Given(b.superOwner, @),
                               !.certificate = Given(b.certificate, @),
                               !.published = Given(b.published, @),
                               !.verified = Given(b.verified, @)]
<1>1. /\ b.kind \in Maybe(Kinds) /\ b.certificate \in Maybe(Certificates) /\ b.dated \in BOOLEAN
      /\ b.published \in Maybe(BOOLEAN) /\ b.verified \in Maybe(BOOLEAN) /\ b.superOwner \in Maybe(People)
  BY DEF Body
<1>2. /\ Given(b.kind, row.kind) \in Kinds /\ Given(b.certificate, row.certificate) \in Certificates
      /\ Given(b.superOwner, row.superOwner) \in Maybe(People)
      /\ Given(b.published, row.published) \in BOOLEAN /\ Given(b.verified, row.verified) \in BOOLEAN
      /\ Given(b.certificate, old.certificate) \in Certificates /\ old.dated \in BOOLEAN
  BY <1>1 DEF Given, Maybe, Property
<1>3. /\ sent \in Property /\ sent.org = row.org /\ sent.creator = row.creator /\ sent.life = row.life
      /\ sent.superOwner = Given(b.superOwner, row.superOwner)
      /\ sent.published = Given(b.published, row.published)
  BY <1>2 DEF Property
<1> DEFINE status == Given(b.certificate, old.certificate)
           dated == b.dated \/ old.dated
<1>4. Updated(row, old, b) = Derived(sent, status, dated)
  BY DEF Updated
<1>5. status \in Certificates /\ dated \in BOOLEAN
  BY <1>1, <1>2
<1> HIDE DEF sent, status, dated
<1>6. LET new == Derived(sent, status, dated)
      IN  /\ new \in Property
          /\ new.org = sent.org /\ new.superOwner = sent.superOwner /\ new.creator = sent.creator
          /\ new.published = sent.published /\ new.life = sent.life
  BY <1>3, <1>5, DerivedTyped
<1> QED BY <1>3, <1>4, <1>6

-----------------------------------------------------------------------------
(* Counting *)

\* What the plan allows, in numbers.
LEMMA AllowedCounts ==
  ASSUME NEW o \in Orgs, Counts(o), PropertyAllowed(o)
  PROVE  Cardinality(UsedProperties(o)) < Places(o)
<1>1. PropertyPlan[o] \in PlanRow
  BY PropertiesAssumption
<1>2. IsFiniteSet(UsedProperties(o))
  BY PropertiesAssumption, FS_Subset DEF UsedProperties
<1>3. Cardinality(UsedProperties(o)) \in Nat
  BY <1>2, FS_CardinalityType
<1>4. PropertyPlan[o].maxProperties \in Nat /\ PropertyPlan[o].additional \in Nat /\ PropertyPlan[o].configured
  BY <1>1 DEF Counts, PlanRow
<1>5. Places(o) \in Nat /\ PropertyPlan[o].maxProperties \notin {-1, Missing}
  BY <1>4, MissingAssumption DEF Places
<1>6. Places(o) # -1 /\ Places(o) # Missing
  BY <1>5, MissingAssumption
<1>7. ResolveEntry(PropertyPlan[o], "maxProperties", Cardinality(UsedProperties(o))) =
        LimitEntry(Places(o), Cardinality(UsedProperties(o)))
  BY <1>4, <1>5 DEF ResolveEntry, FeatureTotal, Places
<1> DEFINE entry == LimitEntry(Places(o), Cardinality(UsedProperties(o)))
           n == Cardinality(UsedProperties(o))
<1>8. entry.unlimited = FALSE /\ entry.total = Places(o) /\ entry.left = IF Places(o) > n THEN Places(o) - n ELSE 0
  BY <1>6 DEF LimitEntry
<1>9. HasCapacity(entry, 1)
  BY <1>7 DEF PropertyAllowed, LimitAllows
<1>10. entry.left >= 1
  BY <1>6, <1>8, <1>9 DEF HasCapacity
<1> HIDE DEF entry
<1>11. Places(o) > n
  BY <1>3, <1>5, <1>8, <1>10
<1> QED BY <1>3, <1>5, <1>11

\* Places are counted in numbers, and the handlers are finite in number.
LEMMA PlacesTyped ==
  ASSUME NEW o \in Orgs, Counts(o)
  PROVE  Places(o) \in Nat
BY PropertiesAssumption DEF Counts, Places, PlanRow

LEMMA Finite ==
  /\ IsFiniteSet(Workers) /\ Cardinality(Workers) \in Nat \ {0}
  /\ \A S \in SUBSET Workers : IsFiniteSet(S) /\ Cardinality(S) \in Nat /\ Cardinality(S) <= Cardinality(Workers)
  /\ \A S \in SUBSET Props : IsFiniteSet(S) /\ Cardinality(S) \in Nat
<1>1. IsFiniteSet(Workers) /\ Workers # {}
  BY WorkersAssumption
<1>2. Cardinality(Workers) \in Nat /\ Cardinality(Workers) # 0
  BY <1>1, FS_CardinalityType, FS_EmptySet
<1>3. ASSUME NEW S \in SUBSET Workers
      PROVE  IsFiniteSet(S) /\ Cardinality(S) \in Nat /\ Cardinality(S) <= Cardinality(Workers)
  BY <1>1, FS_Subset, FS_CardinalityType
<1>4. ASSUME NEW S \in SUBSET Props
      PROVE  IsFiniteSet(S) /\ Cardinality(S) \in Nat
  BY PropertiesAssumption, FS_Subset, FS_CardinalityType
<1> QED BY <1>1, <1>2, <1>3, <1>4

\* A handler enters when there is room, takes up the room it entered for, or neither.
LEMMA CountKept ==
  ASSUME NEW used \in SUBSET Props, NEW used2 \in SUBSET Props,
         NEW entering \in SUBSET Workers, NEW entering2 \in SUBSET Workers, NEW places \in Int,
         Cardinality(used) + Cardinality(entering) < places + Cardinality(Workers),
         \/ used2 \subseteq used /\ entering2 \subseteq entering
         \/ used2 \subseteq used /\ Cardinality(used) < places
         \/ \E p \in Props, w \in entering : used2 \subseteq used \cup {p} /\ entering2 \subseteq entering \ {w}
  PROVE  Cardinality(used2) + Cardinality(entering2) < places + Cardinality(Workers)
<1>1. /\ IsFiniteSet(used) /\ Cardinality(used) \in Nat /\ Cardinality(used2) \in Nat
      /\ IsFiniteSet(entering) /\ Cardinality(entering) \in Nat /\ Cardinality(entering2) \in Nat
      /\ Cardinality(Workers) \in Nat /\ Cardinality(entering2) <= Cardinality(Workers)
  BY Finite
<1>2. used2 \subseteq used => Cardinality(used2) <= Cardinality(used)
  BY <1>1, FS_Subset
<1>3. entering2 \subseteq entering => Cardinality(entering2) <= Cardinality(entering)
  BY <1>1, FS_Subset
<1>4. ASSUME NEW p \in Props, NEW w \in entering,
             used2 \subseteq used \cup {p}, entering2 \subseteq entering \ {w}
      PROVE  Cardinality(used2) <= Cardinality(used) + 1 /\ Cardinality(entering2) <= Cardinality(entering) - 1
  <2>0. /\ IsFiniteSet(used \cup {p})
        /\ Cardinality(used \cup {p}) = IF p \in used THEN Cardinality(used) ELSE Cardinality(used) + 1
    BY <1>1, FS_AddElement
  <2>1. /\ IsFiniteSet(used \cup {p}) /\ Cardinality(used \cup {p}) \in Nat
        /\ Cardinality(used \cup {p}) <= Cardinality(used) + 1
    BY <1>1, <2>0
  <2>2. IsFiniteSet(entering \ {w}) /\ Cardinality(entering \ {w}) = Cardinality(entering) - 1
    BY <1>1, FS_RemoveElement
  <2>3. Cardinality(used2) <= Cardinality(used \cup {p})
    BY <1>4, <2>1, FS_Subset
  <2>4. Cardinality(entering2) <= Cardinality(entering \ {w})
    BY <1>4, <2>2, FS_Subset
  <2> QED BY <1>1, <2>1, <2>2, <2>3, <2>4
<1>5. CASE used2 \subseteq used /\ entering2 \subseteq entering
  BY <1>1, <1>2, <1>3, <1>5
<1>6. CASE used2 \subseteq used /\ Cardinality(used) < places
  BY <1>1, <1>2, <1>6
<1>7. CASE \E p \in Props, w \in entering : used2 \subseteq used \cup {p} /\ entering2 \subseteq entering \ {w}
  BY <1>1, <1>4, <1>7
<1> QED BY <1>5, <1>6, <1>7

-----------------------------------------------------------------------------
(* What no step undoes *)

\* No row is taken out, and in the scopes that exclude it nothing is moved, withdrawn
\* or made of a member.
Steady ==
  /\ within' = within /\ position' \in [Orgs -> [People -> {None, "property_owner", "other"}]]
  /\ \A p \in Props : prop[p] # None =>
       /\ prop'[p] # None
       /\ NeverMoved => prop'[p].org = prop[p].org
       /\ NeverWithdrawn /\ prop[p].published => prop'[p].published
  /\ Limited => \A o \in Orgs, u \in People : position'[o][u] # None => position[o][u] # None

\* What a step leaves of a handler that does not take it.
LEMMA ScopeKept ==
  ASSUME within' = within
  PROVE  /\ NeverMoved' = NeverMoved /\ NeverWithdrawn' = NeverWithdrawn /\ Limited' = Limited
BY DEF NeverMoved, NeverWithdrawn, Limited, OwnersWithOrg

LEMMA OutsiderKept ==
  ASSUME Steady, Limited, NEW u, NotHeldBy(u)
  PROVE  NotHeldBy(u)'
BY DEF Steady, NotHeldBy, MembersOfOrg

LEMMA SoundKept ==
  ASSUME PropertiesInv, Steady, NEW t \in PropertyTask, SoundEdit(t)
  PROVE  SoundEdit(t)'
<1>1. within' = within /\ NeverMoved' = NeverMoved /\ NeverWithdrawn' = NeverWithdrawn /\ Limited' = Limited
  BY ScopeKept DEF Steady
<1>2. \A p \in Props : prop[p] # None =>
       /\ prop'[p] # None
       /\ NeverMoved => prop'[p].org = prop[p].org
       /\ NeverWithdrawn /\ prop[p].published => prop'[p].published
  BY DEF Steady
<1>3. Limited => NeverMoved
  BY DEF Limited
<1>4. Limited => \A u : NotHeldBy(u) => NotHeldBy(u)'
  BY OutsiderKept
<1>5. Limited /\ t.op = "kernelUpdateProperty" /\ prop'[t.prop].org = None => NotHeldBy(t.old.superOwner)'
  BY <1>2, <1>3, <1>4 DEF SoundEdit, Updates
<1> QED BY <1>1, <1>2, <1>5 DEF SoundEdit, Updates

\* A handler writes, and ends or goes on to announce.
LEMMA EditsKept ==
  ASSUME PropertiesInv, Steady, NEW w \in Workers, NEW next \in Maybe(PropertyTask),
         editing' = [editing EXCEPT ![w] = next], next # None => SoundEdit(next)'
  PROVE  EditsAreSound' /\ editing' \in [Workers -> Maybe(PropertyTask)]
<1>1. editing \in [Workers -> Maybe(PropertyTask)]
  BY DEF PropertiesInv, PropertiesTypeOK
<1>2. editing' \in [Workers -> Maybe(PropertyTask)]
  BY <1>1
<1>3. ASSUME NEW v \in Workers, editing'[v] # None
      PROVE  SoundEdit(editing[v])'
  <2>1. CASE v = w
    <3>1. editing'[v] = next
      BY <1>1, <2>1
    <3>2. SoundEdit(next)'
      BY <1>3, <3>1
    <3> QED BY <3>1, <3>2 DEF SoundEdit
  <2>2. CASE v # w
    <3>1. editing'[v] = editing[v] /\ editing[v] # None
      BY <1>1, <1>3, <2>2
    <3>2. editing[v] \in PropertyTask
      BY <1>1, <3>1 DEF Maybe
    <3>3. SoundEdit(editing[v])
      BY <3>1 DEF PropertiesInv, EditsAreSound
    <3> DEFINE t == editing[v]
    <3>4. PICK c \in PropertyTask : c = editing[v] /\ SoundEdit(c)
      BY <3>2, <3>3
    <3>5. SoundEdit(c)'
      BY <3>4, SoundKept
    <3> QED BY <3>1, <3>4, <3>5 DEF SoundEdit
  <2> QED BY <2>1, <2>2
<1> QED BY <1>2, <1>3 DEF EditsAreSound

-----------------------------------------------------------------------------
(* Transactions *)

\* A step that leaves the transactions alone, and the handlers that are in one.
LEMMA TransactionsStay ==
  ASSUME PropertiesInv, UNCHANGED <<tx, aside, within>>,
         \A v \in Workers : tx[v] # None => editing'[v] = editing[v]
  PROVE  Transactions' /\ aside \subseteq aside'
<1>1. NeverMoved' = NeverMoved
  BY ScopeKept
<1>2. ASSUME NEW v \in Workers, tx[v] # None PROVE TransactionSound(v)'
  BY <1>1, <1>2 DEF PropertiesInv, Transactions, TransactionSound
<1>3. OneLock'
  BY DEF PropertiesInv, Transactions, OneLock
<1> QED BY <1>2, <1>3 DEF PropertiesInv, Transactions

\* A handler that is not updating is in no transaction.
LEMMA NotUpdating ==
  ASSUME PropertiesInv, NEW w \in Workers, editing[w] = None \/ editing[w].op \notin Updates,
         NEW next, editing' = [editing EXCEPT ![w] = next], UNCHANGED <<tx, aside, within>>
  PROVE  Transactions' /\ aside \subseteq aside'
<1>1. tx[w] = None
  BY DEF PropertiesInv, Transactions, TransactionSound
<1>2. \A v \in Workers \ {w} : editing'[v] = editing[v]
  BY DEF PropertiesInv, PropertiesTypeOK
<1> QED BY <1>1, <1>2, TransactionsStay

\* A transaction ends with its handler's update, or with its failure.
LEMMA TransactionEnds ==
  ASSUME PropertiesInv, NEW w \in Workers, NEW next, editing' = [editing EXCEPT ![w] = next],
         tx' = [tx EXCEPT ![w] = None], UNCHANGED <<aside, within>>
  PROVE  Transactions' /\ aside \subseteq aside'
<1>1. NeverMoved' = NeverMoved
  BY ScopeKept
<1>2. tx \in [Workers -> Maybe(Transaction)] /\ aside \subseteq Props
  BY DEF PropertiesInv, Transactions
<1>3. /\ tx' \in [Workers -> Maybe(Transaction)] /\ tx'[w] = None
      /\ \A v \in Workers \ {w} : tx'[v] = tx[v] /\ editing'[v] = editing[v]
  BY <1>2 DEF PropertiesInv, PropertiesTypeOK, Maybe
<1>4. ASSUME NEW v \in Workers, tx'[v] # None PROVE TransactionSound(v)'
  BY <1>1, <1>3, <1>4 DEF PropertiesInv, Transactions, TransactionSound
<1>5. OneLock'
  BY <1>3 DEF PropertiesInv, Transactions, OneLock
<1> QED BY <1>2, <1>3, <1>4, <1>5 DEF Transactions

\* An update that commits beside another is of a property that was moved away from
\* one of the two: they do not both hold the lock.
LEMMA TransactionWrites ==
  ASSUME PropertiesInv, NEW w \in Workers, NEW row, editing[w] # None, WriteUpdate(w, row),
         editing[w].prop \in Props, editing[w].body \in Body, editing[w].terms \in Terms,
         NEW next, editing' = [editing EXCEPT ![w] = next], UNCHANGED within
  PROVE  Transactions' /\ aside \subseteq aside'
<1> DEFINE t == editing[w]
           p == t.prop
           inserted == InsertedRows(t)
<1>1. NeverMoved' = NeverMoved
  BY ScopeKept
<1>2. tx \in [Workers -> Maybe(Transaction)] /\ aside \subseteq Props
  BY DEF PropertiesInv, Transactions
<1>3. /\ tx[w] = None /\ RowMatches(t) => RowFree(w, p)
      /\ tx' = [v \in Workers |->
           IF v = w THEN None
           ELSE IF Updating(v, p) THEN [tx[v] EXCEPT !.unseen = @ \cup inserted] ELSE tx[v]]
      /\ aside' = IF \E v \in Workers \ {w} : Updating(v, p) /\ ~ (FindsRow(w) /\ tx[v].locks)
                  THEN aside \cup {p} ELSE aside
  BY DEF WriteUpdate
<1>4. inserted \subseteq PropertyRows
  BY DEF InsertedRows, PropertyRows, GivenDetails, Body, Maybe
<1> HIDE DEF inserted
<1>5. ASSUME NEW v \in Workers \ {w}, Updating(v, p) PROVE p \in aside'
  <2>1. SUFFICES ASSUME FindsRow(w), tx[v].locks PROVE FALSE
    BY <1>3, <1>5
  <2>2. CASE tx[w] = None
    BY <1>3, <1>5, <2>1, <2>2 DEF FindsRow, RowFree
  <2>3. CASE tx[w] # None
    BY <1>5, <2>1, <2>3 DEF FindsRow, Updating, PropertiesInv, Transactions, OneLock
  <2> QED BY <2>2, <2>3
<1>6. aside \subseteq aside' /\ aside' \subseteq Props
  BY <1>2, <1>3
<1>7. /\ tx'[w] = None
      /\ \A v \in Workers \ {w} :
           /\ editing'[v] = editing[v] /\ (tx'[v] # None => tx[v] # None)
           /\ tx'[v] \in Maybe(Transaction)
           /\ tx'[v] # None => tx'[v].locks = tx[v].locks
           /\ tx'[v] # None => tx'[v].unseen = tx[v].unseen \/ (p \in aside' /\ editing[v].prop = p)
  <2>1. tx'[w] = None
    BY <1>3
  <2>2. ASSUME NEW v \in Workers \ {w}
        PROVE  /\ editing'[v] = editing[v] /\ (tx'[v] # None => tx[v] # None)
               /\ tx'[v] \in Maybe(Transaction)
               /\ tx'[v] # None => tx'[v].locks = tx[v].locks
               /\ tx'[v] # None => tx'[v].unseen = tx[v].unseen \/ (p \in aside' /\ editing[v].prop = p)
    <3>1. editing'[v] = editing[v]
      BY DEF PropertiesInv, PropertiesTypeOK
    <3>2. CASE Updating(v, p)
      <4>1. tx[v] \in Transaction /\ tx[v] # None /\ editing[v].prop = p
        BY <1>2, <3>2 DEF Updating, Maybe
      <4>2. tx'[v] = [tx[v] EXCEPT !.unseen = @ \cup inserted]
        BY <1>3, <3>2
      <4>3. tx'[v] \in Transaction /\ tx'[v].locks = tx[v].locks
        BY <1>4, <4>1, <4>2 DEF Transaction
      <4>4. p \in aside' /\ tx'[v] \in Maybe(Transaction)
        BY <1>5, <3>2, <4>3 DEF Maybe
      <4> HIDE DEF p
      <4> QED BY <3>1, <4>1, <4>3, <4>4
    <3>3. CASE ~ Updating(v, p)
      <4>1. tx'[v] = tx[v]
        BY <1>3, <3>3
      <4>2. tx[v] \in Maybe(Transaction)
        BY <1>2
      <4> QED BY ONLY <3>1, <4>1, <4>2
    <3> QED BY <3>2, <3>3
  <2> QED BY <2>1, <2>2
<1>8. tx' \in [Workers -> Maybe(Transaction)]
  BY <1>3, <1>7 DEF Maybe
<1>9. ASSUME NEW v \in Workers, tx'[v] # None PROVE TransactionSound(v)'
  <2>1. v # w /\ tx[v] # None /\ editing'[v] = editing[v]
    BY <1>7, <1>9
  <2>2. ~ NeverMoved /\ editing[v] # None /\ editing[v].op \in Updates /\ (tx[v].unseen # {} => editing[v].prop \in aside)
    BY <2>1 DEF PropertiesInv, Transactions, TransactionSound
  <2>3. tx'[v].unseen # {} => editing[v].prop \in aside'
    BY <1>6, <1>7, <1>9, <2>1, <2>2
  <2> QED BY <1>1, <2>1, <2>2, <2>3 DEF TransactionSound
<1>10. OneLock'
  BY <1>7 DEF PropertiesInv, Transactions, OneLock
<1> QED BY <1>6, <1>8, <1>9, <1>10 DEF Transactions

\* The first statement of an update gets the lock if nobody has it.
LEMMA TransactionBegins ==
  ASSUME PropertiesInv, NEW w \in Workers, LockRow(w)
  PROVE  Transactions' /\ aside' = aside
<1> DEFINE t == editing[w]
           new == [locks |-> RowMatches(t), unseen |-> {}]
<1>1. /\ "moveProperty" \in within.calls /\ t # None /\ t.op \in Updates
      /\ RowMatches(t) => RowFree(w, t.prop)
      /\ tx' = [tx EXCEPT ![w] = new] /\ UNCHANGED <<editing, aside, within>>
  BY DEF LockRow, Updates
<1>2. tx \in [Workers -> Maybe(Transaction)] /\ aside \subseteq Props
  BY DEF PropertiesInv, Transactions
<1>3. new \in Transaction
  <2>1. RowMatches(t) \in BOOLEAN
    BY DEF RowMatches
  <2> QED BY <2>1 DEF Transaction
<1>4. new.locks = RowMatches(t) /\ new.unseen = {}
  OBVIOUS
<1> HIDE DEF new
<1>5. /\ tx' \in [Workers -> Maybe(Transaction)] /\ tx'[w] = new
      /\ \A v \in Workers \ {w} : tx'[v] = tx[v]
  BY <1>1, <1>2, <1>3 DEF Maybe
<1>6. ASSUME NEW v \in Workers, tx'[v] # None PROVE TransactionSound(v)'
  <2>1. NeverMoved' = NeverMoved /\ ~ NeverMoved
    BY <1>1, ScopeKept DEF NeverMoved
  <2> QED BY <1>1, <1>4, <1>5, <1>6, <2>1 DEF PropertiesInv, Transactions, TransactionSound
<1>7. ASSUME NEW v \in Workers \ {w}, tx[v] # None, tx[v].locks, editing[v].prop = t.prop PROVE ~ new.locks
  <2>1. editing[v] # None
    BY <1>7 DEF PropertiesInv, Transactions, TransactionSound
  <2>2. Updating(v, t.prop)
    BY <1>7, <2>1 DEF Updating
  <2> QED BY <1>1, <1>4, <1>7, <2>2 DEF RowFree
<1>8. OneLock'
  <2> SUFFICES ASSUME NEW u \in Workers, NEW v \in Workers, tx'[u] # None, tx'[v] # None,
                      tx'[u].locks, tx'[v].locks, editing[u].prop = editing[v].prop
               PROVE  u = v
    BY <1>1 DEF OneLock
  <2>1. CASE u = w /\ v # w
    BY <1>5, <1>7, <2>1
  <2>2. CASE u # w /\ v = w
    BY <1>5, <1>7, <2>2
  <2>3. CASE u # w /\ v # w
    BY <1>5, <2>3 DEF PropertiesInv, Transactions, OneLock
  <2> QED BY <2>1, <2>2, <2>3
<1> QED BY <1>1, <1>2, <1>5, <1>6, <1>8 DEF Transactions

-----------------------------------------------------------------------------
(* What steps do to the invariant *)

\* Where there is a limit, what counts is what the organization has.
LEMMA UsedInOrg ==
  ASSUME UnownedOutside, Limited, NEW o \in Orgs
  PROVE  UsedProperties(o) = {p \in Props : IsLive(prop[p]) /\ prop[p].org = o}
<1>1. ASSUME NEW p \in Props, IsLive(prop[p]), prop[p].org = None
      PROVE  {prop[p].superOwner, prop[p].creator} \cap MembersOfOrg(o) = {}
  BY <1>1 DEF UnownedOutside, NotHeldBy, IsLive
<1>2. o # None
  BY PropertiesAssumption
<1> QED BY <1>1, <1>2 DEF UsedProperties

\* A handler begins: what it keeps is true now, and there is room for what it adds.
LEMMA BeginKeepsInv ==
  ASSUME PropertiesInv, NEW w \in Workers, NEW t \in PropertyTask, StartEdit(w, t), SoundEdit(t),
         \A o \in Orgs : Enters(t, o) => PropertyAllowed(o)
  PROVE  PropertiesInv'
<1>1. /\ editing[w] = None /\ editing' = [editing EXCEPT ![w] = t]
      /\ UNCHANGED <<prop, terms, details, mandate, announced, position, liveOrgs, tx, aside, within>>
  BY DEF StartEdit
<1>0. Transactions'
  BY <1>1, NotUpdating
<1>2. editing'[w] = t /\ \A v \in Workers \ {w} : editing'[v] = editing[v]
  BY <1>1 DEF PropertiesInv, PropertiesTypeOK
<1>3. Steady
  BY <1>1 DEF PropertiesInv, PropertiesTypeOK, Steady
<1>4. SoundEdit(t)'
  BY <1>3, SoundKept
<1>5. EditsAreSound' /\ editing' \in [Workers -> Maybe(PropertyTask)]
  BY <1>1, <1>3, <1>4, EditsKept DEF Maybe
<1>6. PropertiesTypeOK' /\ OneKindOfDetails'
  BY <1>1, <1>5 DEF PropertiesInv, PropertiesTypeOK, OneKindOfDetails
<1>7. UnownedOutside'
  <2>1. \A u : NotHeldBy(u)' = NotHeldBy(u)
    BY <1>1 DEF NotHeldBy, MembersOfOrg
  <2>2. Limited' = Limited
    BY <1>1, ScopeKept
  <2> QED BY <1>1, <2>1, <2>2 DEF PropertiesInv, UnownedOutside
<1>8. AnnouncedOrDue'
  <2> SUFFICES ASSUME NeverMoved, NeverWithdrawn, NEW p \in Props, prop[p] # None, prop[p].life # "gone",
                      prop[p].published, prop[p].org # None, announced[p] = "no"
               PROVE  \E v \in Workers : editing'[v] # None /\ editing'[v].op = "announce" /\ editing'[v].prop = p
    BY <1>1, ScopeKept DEF AnnouncedOrDue
  <2>1. PICK v \in Workers : editing[v] # None /\ editing[v].op = "announce" /\ editing[v].prop = p
    BY DEF PropertiesInv, AnnouncedOrDue
  <2> QED BY <1>1, <1>2, <2>1
<1>9. ASSUME NEW o \in Orgs, Limited', Counts(o)
      PROVE  (Cardinality(UsedProperties(o)) + Cardinality(Entering(o)) < Places(o) + Cardinality(Workers))'
  <2>1. Limited /\ UsedProperties(o)' = UsedProperties(o)
    BY <1>1, <1>9, ScopeKept DEF UsedProperties, MembersOfOrg, IsLive
  <2>2. Cardinality(UsedProperties(o)) + Cardinality(Entering(o)) < Places(o) + Cardinality(Workers)
    BY <1>9, <2>1 DEF PropertiesInv, EnteringCounted
  <2>3. CASE Enters(t, o)
    <3>1. Cardinality(UsedProperties(o)) < Places(o)
      BY <1>9, <2>3, AllowedCounts
    <3> QED BY <2>1, <2>2, <3>1, CountKept, PlacesTyped, <1>9 DEF UsedProperties, Entering
  <2>4. CASE ~ Enters(t, o)
    <3>1. Entering(o)' \subseteq Entering(o)
      BY <1>1, <1>2, <2>4 DEF Entering, Enters
    <3> QED BY <2>1, <2>2, <3>1, CountKept, PlacesTyped, <1>9 DEF UsedProperties, Entering
  <2> QED BY <2>3, <2>4
<1>10. EnteringCounted'
  BY <1>9 DEF EnteringCounted, Counts
<1> QED BY <1>0, <1>5, <1>6, <1>7, <1>8, <1>10 DEF PropertiesInv

\* A handler ends without a write, and announces what is due if it was to.
LEMMA EndKeepsInv ==
  ASSUME PropertiesInv, NEW w \in Workers, editing[w] # None,
         editing' = [editing EXCEPT ![w] = None],
         UNCHANGED <<prop, terms, details, mandate, position, liveOrgs, within>>,
         Transactions', aside \subseteq aside',
         announced' \in [Props -> {"no", "sent", "lost"}],
         \A p \in Props : announced[p] # "no" => announced'[p] # "no",
         NeverMoved /\ editing[w].op = "announce" =>
           LET p == editing[w].prop
           IN  Exists(prop[p]) /\ prop[p].published /\ prop[p].org # None => announced'[p] # "no"
  PROVE  PropertiesInv'
<1>2. editing'[w] = None /\ \A v \in Workers \ {w} : editing'[v] = editing[v]
  BY DEF PropertiesInv, PropertiesTypeOK
<1>3. Steady
  BY DEF PropertiesInv, PropertiesTypeOK, Steady
<1>5. EditsAreSound' /\ editing' \in [Workers -> Maybe(PropertyTask)]
  BY <1>3, EditsKept DEF Maybe
<1>6. PropertiesTypeOK' /\ OneKindOfDetails'
  BY <1>5 DEF PropertiesInv, PropertiesTypeOK, OneKindOfDetails, Transactions
<1>7. UnownedOutside'
  <2>1. \A u : NotHeldBy(u)' = NotHeldBy(u)
    BY DEF NotHeldBy, MembersOfOrg
  <2>2. Limited' = Limited
    BY ScopeKept
  <2> QED BY <2>1, <2>2 DEF PropertiesInv, UnownedOutside
<1>8. AnnouncedOrDue'
  <2>1. \A p \in Props : prop[p] # None /\ prop[p].life # "gone" => Exists(prop[p])
    BY DEF PropertiesInv, PropertiesTypeOK, Maybe, Property, Lives, Exists, IsLive, IsDeleted
  <2> SUFFICES ASSUME NeverMoved, NeverWithdrawn, NEW p \in Props, prop[p] # None, prop[p].life # "gone",
                      prop[p].published, prop[p].org # None, announced'[p] = "no"
               PROVE  \E v \in Workers : editing'[v] # None /\ editing'[v].op = "announce" /\ editing'[v].prop = p
    BY ScopeKept DEF AnnouncedOrDue
  <2>2. announced[p] = "no"
    OBVIOUS
  <2>3. PICK v \in Workers : editing[v] # None /\ editing[v].op = "announce" /\ editing[v].prop = p
    BY <2>2 DEF PropertiesInv, AnnouncedOrDue
  <2>4. v # w
    BY <2>1, <2>3
  <2> QED BY <1>2, <2>3, <2>4
<1>9. ASSUME NEW o \in Orgs, Limited', Counts(o)
      PROVE  (Cardinality(UsedProperties(o)) + Cardinality(Entering(o)) < Places(o) + Cardinality(Workers))'
  <2>1. Limited /\ UsedProperties(o)' = UsedProperties(o)
    BY <1>9, ScopeKept DEF UsedProperties, MembersOfOrg, IsLive
  <2>2. Cardinality(UsedProperties(o)) + Cardinality(Entering(o)) < Places(o) + Cardinality(Workers)
    BY <1>9, <2>1 DEF PropertiesInv, EnteringCounted
  <2>3. Entering(o)' \subseteq Entering(o)
    BY <1>2 DEF Entering, Enters
  <2> QED BY <2>1, <2>2, <2>3, CountKept, PlacesTyped, <1>9 DEF UsedProperties, Entering
<1>10. EnteringCounted'
  BY <1>9 DEF EnteringCounted, Counts
<1> QED BY <1>5, <1>6, <1>7, <1>8, <1>10 DEF PropertiesInv

\* A handler writes one property, with all that belongs to it, and may go on to
\* announce it.
LEMMA WriteKeepsInv ==
  ASSUME PropertiesInv, NEW w \in Workers, editing[w] # None, editing[w].op # "announce",
         NEW q \in Props, NEW row \in Property, NEW next \in Maybe(PropertyTask),
         editing' = [editing EXCEPT ![w] = next],
         UNCHANGED <<announced, position, liveOrgs, within>>,
         prop' = [prop EXCEPT ![q] = row],
         NEW newTerms \in Terms, terms' = [terms EXCEPT ![q] = newTerms],
         NEW newDetails \in SUBSET Kinds, details' = [details EXCEPT ![q] = newDetails],
         NEW newMandate \in BOOLEAN, mandate' = [mandate EXCEPT ![q] = newMandate],
         Transactions', aside \subseteq aside', Cardinality(newDetails) > 1 => q \in aside',
         row.life = "gone" => newTerms = NoOne /\ newDetails = {} /\ ~ newMandate,
         prop[q] # None =>
           /\ NeverMoved => row.org = prop[q].org
           /\ NeverWithdrawn /\ prop[q].published => row.published,
         Limited /\ row.org = None => NotHeldBy(row.superOwner) /\ NotHeldBy(row.creator),
         Limited /\ row.life = "live" /\ row.org # None =>
           IsLive(prop[q]) \/ Enters(editing[w], row.org),
         NeverMoved /\ NeverWithdrawn /\ row.life # "gone" /\ row.published =>
           \/ next # None
           \/ prop[q] # None /\ prop[q].life # "gone" /\ prop[q].published,
         next # None =>
           /\ next.op = "announce" /\ next.prop = q
           /\ NeverMoved /\ next.by.org # None => row.org = next.by.org
  PROVE  PropertiesInv'
<1> row # None
  BY PropertiesAssumption
<1>1. /\ prop \in [Props -> Maybe(Property)] /\ terms \in [Props -> Terms] /\ details \in [Props -> SUBSET Kinds]
      /\ mandate \in [Props -> BOOLEAN] /\ editing \in [Workers -> Maybe(PropertyTask)]
  BY DEF PropertiesInv, PropertiesTypeOK
<1>2. editing'[w] = next /\ \A v \in Workers \ {w} : editing'[v] = editing[v]
  BY <1>1
<1>3. prop'[q] = row /\ \A p \in Props \ {q} : prop'[p] = prop[p]
  BY <1>1
<1>4. /\ NeverMoved' = NeverMoved /\ NeverWithdrawn' = NeverWithdrawn /\ Limited' = Limited
  BY ScopeKept
<1>5. Steady
  BY <1>3 DEF PropertiesInv, PropertiesTypeOK, Steady
<1>6. next # None => SoundEdit(next)'
  BY <1>3, <1>4 DEF SoundEdit, Creations, Updates
<1>7. EditsAreSound' /\ editing' \in [Workers -> Maybe(PropertyTask)]
  BY <1>5, <1>6, EditsKept
<1>8. PropertiesTypeOK'
  <2>1. Exists(row) \/ row.life = "gone"
    BY DEF Exists, IsLive, IsDeleted, Property, Lives
  <2>2. prop' \in [Props -> Maybe(Property)]
    BY <1>1 DEF Maybe
  <2>3. terms' \in [Props -> Terms] /\ details' \in [Props -> SUBSET Kinds] /\ mandate' \in [Props -> BOOLEAN]
    BY <1>1
  <2>4. \A p \in Props : ~ Exists(prop'[p]) => terms'[p] = NoOne /\ details'[p] = {} /\ ~ mandate'[p]
    <3> SUFFICES ASSUME NEW p \in Props, ~ Exists(prop'[p])
                 PROVE  terms'[p] = NoOne /\ details'[p] = {} /\ ~ mandate'[p]
      OBVIOUS
    <3>1. CASE p = q
      BY <1>1, <1>3, <2>1, <3>1
    <3>2. CASE p # q
      BY <1>1, <1>3, <3>2 DEF PropertiesInv, PropertiesTypeOK
    <3> QED BY <3>1, <3>2
  <2> QED BY <1>7, <2>2, <2>3, <2>4 DEF PropertiesInv, PropertiesTypeOK, Exists, IsLive, IsDeleted, Transactions
<1>9. OneKindOfDetails'
  BY <1>1 DEF PropertiesInv, OneKindOfDetails
<1>10. UnownedOutside'
  <2>1. \A u : NotHeldBy(u)' = NotHeldBy(u)
    BY DEF NotHeldBy, MembersOfOrg
  <2> QED BY <1>3, <1>4, <2>1 DEF PropertiesInv, UnownedOutside
<1>11. AnnouncedOrDue'
  <2> SUFFICES ASSUME NeverMoved, NeverWithdrawn, NEW p \in Props, prop'[p] # None, prop'[p].life # "gone",
                      prop'[p].published, prop'[p].org # None
               PROVE  \/ announced[p] # "no"
                      \/ \E v \in Workers : editing'[v] # None /\ editing'[v].op = "announce" /\ editing'[v].prop = p
    BY <1>4 DEF AnnouncedOrDue
  <2>1. CASE prop[p] # None /\ prop[p].life # "gone" /\ prop[p].published /\ prop[p].org # None
    BY <1>2, <2>1 DEF PropertiesInv, AnnouncedOrDue
  <2>2. CASE p = q /\ next # None
    BY <1>2, <2>2
  <2> QED BY <1>3, <2>1, <2>2
<1>12. ASSUME NEW o \in Orgs, Limited, Counts(o)
      PROVE  (Cardinality(UsedProperties(o)) + Cardinality(Entering(o)) < Places(o) + Cardinality(Workers))'
  <2>1. UsedProperties(o) = {p \in Props : IsLive(prop[p]) /\ prop[p].org = o}
    BY <1>12, UsedInOrg DEF PropertiesInv
  <2>2. UsedProperties(o)' = {p \in Props : IsLive(prop'[p]) /\ prop'[p].org = o}
    <3>1. ASSUME NEW p \in Props, IsLive(prop'[p]), prop'[p].org = None
          PROVE  {prop'[p].superOwner, prop'[p].creator} \cap MembersOfOrg(o)' = {}
      BY <1>4, <1>10, <1>12, <3>1 DEF UnownedOutside, NotHeldBy, IsLive
    <3>2. o # None
      BY PropertiesAssumption
    <3> QED BY <3>1, <3>2 DEF UsedProperties, IsLive
  <2>3. Cardinality(UsedProperties(o)) + Cardinality(Entering(o)) < Places(o) + Cardinality(Workers)
    BY <1>12 DEF PropertiesInv, EnteringCounted
  <2>4. NeverMoved
    BY <1>12 DEF Limited
  <2>5. Entering(o)' \subseteq Entering(o) \ {w}
    <3> SUFFICES ASSUME NEW v \in Workers, editing'[v] # None, Enters(editing[v], o)'
                 PROVE  v # w /\ editing[v] # None /\ Enters(editing[v], o)
      BY DEF Entering
    <3>1. v # w
      BY <1>2 DEF Enters
    <3>2. editing'[v] = editing[v] /\ SoundEdit(editing[v])
      BY <1>2, <3>1 DEF PropertiesInv, EditsAreSound
    <3> QED BY <1>5, <2>4, <3>1, <3>2 DEF Enters, SoundEdit, RemovalOps, Steady
  <2>6. CASE Enters(editing[w], o)
    <3>1. w \in Entering(o) /\ UsedProperties(o)' \subseteq UsedProperties(o) \cup {q}
      BY <1>3, <2>1, <2>2, <2>6 DEF Entering
    <3>2. \E p \in Props, v \in Entering(o) :
            UsedProperties(o)' \subseteq UsedProperties(o) \cup {p} /\ Entering(o)' \subseteq Entering(o) \ {v}
      BY <2>5, <3>1
    <3>3. /\ UsedProperties(o) \in SUBSET Props /\ UsedProperties(o)' \in SUBSET Props
          /\ Entering(o) \in SUBSET Workers /\ Entering(o)' \in SUBSET Workers /\ Places(o) \in Int
      BY <1>12, PlacesTyped DEF UsedProperties, Entering
    <3>4. Places(o)' = Places(o)
      BY DEF Places
    <3> QED BY <2>3, <3>2, <3>3, <3>4, CountKept
  <2>7. CASE ~ Enters(editing[w], o)
    <3>1. UsedProperties(o)' \subseteq UsedProperties(o)
      BY <1>3, <1>12, <2>1, <2>2, <2>4, <2>7, PropertiesAssumption DEF IsLive
    <3> QED BY <2>3, <2>5, <3>1, CountKept, PlacesTyped, <1>12 DEF UsedProperties, Entering
  <2> QED BY <2>6, <2>7
<1>13. EnteringCounted'
  BY <1>4, <1>12 DEF EnteringCounted, Counts
<1> QED BY <1>7, <1>8, <1>9, <1>10, <1>11, <1>13 DEF PropertiesInv

\* Rows lose a name or go, and nothing comes in.
LEMMA PropertiesOthersKeepInv ==
  ASSUME PropertiesInv, UNCHANGED <<announced, editing, within>>, Columns', Gone', OneKindOfDetails',
         liveOrgs' \subseteq Orgs, Transactions',
         position' \in [Orgs -> [People -> {None, "property_owner", "other"}]],
         Limited => \A o \in Orgs, u \in People : position'[o][u] # None => position[o][u] # None,
         \A p \in Props :
           /\ prop[p] = None <=> prop'[p] = None
           /\ prop[p] # None =>
                /\ prop'[p].org = prop[p].org /\ prop'[p].published = prop[p].published
                /\ prop'[p].life \in {prop[p].life, "gone"}
                /\ prop'[p].superOwner \in {prop[p].superOwner, None}
                /\ prop'[p].creator \in {prop[p].creator, None}
  PROVE  PropertiesInv'
<1>1. Steady
  BY DEF Steady
<1>2. NeverMoved' = NeverMoved /\ NeverWithdrawn' = NeverWithdrawn /\ Limited' = Limited
  BY ScopeKept
<1>3. EditsAreSound'
  <2> SUFFICES ASSUME NEW v \in Workers, editing[v] # None
               PROVE  SoundEdit(editing[v])'
    BY DEF EditsAreSound
  <2>1. editing[v] \in PropertyTask /\ SoundEdit(editing[v])
    BY DEF PropertiesInv, PropertiesTypeOK, EditsAreSound, Maybe
  <2>2. PICK t \in PropertyTask : t = editing[v] /\ SoundEdit(t)
    BY <2>1
  <2>3. SoundEdit(t)'
    BY <1>1, <2>2, SoundKept
  <2> QED BY <2>2, <2>3 DEF SoundEdit
<1>4. PropertiesTypeOK'
  BY DEF PropertiesInv, PropertiesTypeOK, Columns, Gone, Transactions
<1>5. UnownedOutside'
  <2>1. Limited => \A u : NotHeldBy(u) => NotHeldBy(u)'
    BY <1>1, OutsiderKept
  <2>2. NotHeldBy(None)'
    BY PropertiesAssumption DEF NotHeldBy, MembersOfOrg
  <2> QED BY <1>2, <2>1, <2>2 DEF PropertiesInv, UnownedOutside
<1>6. AnnouncedOrDue'
  BY <1>2 DEF PropertiesInv, AnnouncedOrDue
<1>7. ASSUME NEW o \in Orgs, Limited, Counts(o)
      PROVE  (Cardinality(UsedProperties(o)) + Cardinality(Entering(o)) < Places(o) + Cardinality(Workers))'
  <2>1. UsedProperties(o) = {p \in Props : IsLive(prop[p]) /\ prop[p].org = o}
    BY <1>7, UsedInOrg DEF PropertiesInv
  <2>2. UsedProperties(o)' = {p \in Props : IsLive(prop'[p]) /\ prop'[p].org = o}
    <3>1. ASSUME NEW p \in Props, IsLive(prop'[p]), prop'[p].org = None
          PROVE  {prop'[p].superOwner, prop'[p].creator} \cap MembersOfOrg(o)' = {}
      BY <1>2, <1>5, <1>7, <3>1 DEF UnownedOutside, NotHeldBy, IsLive
    <3>2. o # None
      BY PropertiesAssumption
    <3> QED BY <3>1, <3>2 DEF UsedProperties, IsLive
  <2>3. Cardinality(UsedProperties(o)) + Cardinality(Entering(o)) < Places(o) + Cardinality(Workers)
    BY <1>7 DEF PropertiesInv, EnteringCounted
  <2>4. UsedProperties(o)' \subseteq UsedProperties(o)
    BY <2>1, <2>2 DEF IsLive
  <2>5. Entering(o)' \subseteq Entering(o)
    BY DEF PropertiesInv, EditsAreSound, SoundEdit, RemovalOps, Entering, Enters
  <2> QED BY <2>3, <2>4, <2>5, CountKept, PlacesTyped, <1>7 DEF UsedProperties, Entering
<1>8. EnteringCounted'
  BY <1>2, <1>7 DEF EnteringCounted, Counts
<1> QED BY <1>3, <1>4, <1>5, <1>6, <1>8 DEF PropertiesInv

-----------------------------------------------------------------------------
(* Begins *)

\* A task about a property that was read, or about one to be created.
LEMMA EditTyped ==
  ASSUME PropertiesInv, NEW op \in PropertyOps, NEW p \in Maybe(Props), NEW c \in Callers,
         NEW b \in Maybe(Bodies), NEW ts \in Terms, p # None => prop[p] # None
  PROVE  LET t == Edit(op, p, c, b, ts)
         IN  /\ t \in PropertyTask
             /\ t.op = op /\ t.prop = p /\ t.by = c /\ t.body = b /\ t.terms = ts
             /\ t.old = IF p = None THEN None ELSE prop[p]
BY DEF Edit, PropertyTask, Maybe, PropertiesInv, PropertiesTypeOK

\* Who calls, and the begin of each handler.
LEMMA CallerFields ==
  ASSUME PropertiesInv, NEW c \in within.callers
  PROVE  /\ c \in Callers /\ c \in Caller /\ c.user \in People /\ c.org \in Maybe(Orgs)
         /\ c.broker => c.org = None
BY PropertiesAssumption DEF PropertiesInv, PropertiesTypeOK, PropertyScope, Caller

LEMMA CreateBeginKeeps ==
  ASSUME PropertiesInv, NEW w \in Workers, NEW c \in within.callers, NEW b \in within.bodies,
         CreateBegin(w, c, b)
  PROVE  PropertiesInv'
<1> DEFINE ts == NormalizedTerms(b.superOwner, b)
           t == Edit("createProperty", None, c, b, ts)
<1>1. b \in Bodies /\ b \in Body /\ b # None
  BY BodyFields DEF PropertiesInv
<1>2. c \in Callers
  BY CallerFields
<1>3. StartEdit(w, t) /\ b.kind # None /\ c.org # None /\ PropertyAllowed(c.org)
  BY DEF CreateBegin
<1>4. ts \in Terms
  BY <1>1, TermsTyped, NoOneTyped
<1> HIDE DEF ts
<1>4a. /\ t \in PropertyTask /\ t.op = "createProperty" /\ t.by = c /\ t.body = b /\ t.old = None
  BY <1>1, <1>2, <1>4, EditTyped DEF PropertyOps, Maybe
<1> HIDE DEF t
<1>5. SoundEdit(t)
  BY <1>1, <1>4a, <1>3 DEF SoundEdit, Creations, Updates, RemovalOps
<1>6. \A o \in Orgs : Enters(t, o) => PropertyAllowed(o)
  BY <1>4a, <1>3 DEF Enters
<1> QED BY <1>4a, <1>3, <1>5, <1>6, BeginKeepsInv

LEMMA KernelCreateBeginKeeps ==
  ASSUME PropertiesInv, NEW w \in Workers, NEW c \in within.callers, NEW b \in within.bodies,
         KernelCreateBegin(w, c, b)
  PROVE  PropertiesInv'
<1> DEFINE org == KernelOrg(c, b, None)
           ts == KernelNormalizedTerms(KernelSuperOwner(c, b, None), b)
           t == Edit("kernelCreateProperty", None, c, b, ts)
<1>1. b \in Bodies /\ b \in Body /\ b # None
  BY BodyFields DEF PropertiesInv
<1>2. c \in Callers
  BY CallerFields
<1>3. StartEdit(w, t) /\ b.kind # None /\ (org # None => PropertyAllowed(org))
  BY DEF KernelCreateBegin
<1>4. ts \in Terms
  BY <1>1, TermsTyped, NoOneTyped DEF KernelNormalizedTerms
<1> HIDE DEF ts
<1>4a. /\ t \in PropertyTask /\ t.op = "kernelCreateProperty" /\ t.by = c /\ t.body = b /\ t.old = None
  BY <1>1, <1>2, <1>4, EditTyped DEF PropertyOps, Maybe
<1> HIDE DEF t
<1>5. SoundEdit(t)
  BY <1>1, <1>4a, <1>3 DEF SoundEdit, Creations, Updates, RemovalOps
<1>6. \A o \in Orgs : Enters(t, o) => PropertyAllowed(o)
  BY <1>4a, <1>3, PropertiesAssumption DEF Enters
<1> QED BY <1>4a, <1>3, <1>5, <1>6, BeginKeepsInv

LEMMA UpdateBeginKeeps ==
  ASSUME PropertiesInv, NEW w \in Workers, NEW p \in Props, NEW c \in within.callers, NEW b \in within.bodies,
         UpdateBegin(w, p, c, b)
  PROVE  PropertiesInv'
<1> DEFINE ts == TermsToWrite(p, Given(b.superOwner, prop[p].superOwner), b)
           t == Edit("updateProperty", p, c, b, ts)
<1>1. b \in Bodies /\ b \in Body /\ b # None
  BY BodyFields DEF PropertiesInv
<1>2. c \in Callers
  BY CallerFields
<1>3. StartEdit(w, t) /\ IsLive(prop[p]) /\ Reaches(c, p)
  BY DEF UpdateBegin
<1>4. prop[p] # None /\ p # None /\ c.org # None /\ prop[p].org = c.org
  BY <1>3, PropertiesAssumption DEF IsLive, Reaches
<1>5. ts \in Terms
  BY <1>1, TermsTyped DEF TermsToWrite, PropertiesInv, PropertiesTypeOK
<1> HIDE DEF ts
<1>6. /\ t \in PropertyTask /\ t.op = "updateProperty" /\ t.by = c /\ t.body = b /\ t.old = prop[p] /\ t.prop = p
  BY <1>1, <1>2, <1>4, <1>5, EditTyped DEF PropertyOps, Maybe
<1> HIDE DEF t
<1>7. SoundEdit(t)
  BY <1>1, <1>4, <1>6 DEF SoundEdit, Creations, Updates, RemovalOps
<1>8. \A o \in Orgs : ~ Enters(t, o)
  BY <1>6 DEF Enters
<1> QED BY <1>3, <1>6, <1>7, <1>8, BeginKeepsInv

LEMMA KernelUpdateBeginKeeps ==
  ASSUME PropertiesInv, NEW w \in Workers, NEW p \in Props, NEW c \in within.callers, NEW b \in within.bodies,
         KernelUpdateBegin(w, p, c, b)
  PROVE  PropertiesInv'
<1> DEFINE new == KernelNormalizedTerms(KernelSuperOwner(c, b, prop[p].superOwner), b)
           ts == IF TouchesOwners(b) THEN KernelMergedTerms(new, terms[p]) ELSE new
           t == Edit("kernelUpdateProperty", p, c, b, ts)
<1>1. b \in Bodies /\ b \in Body /\ b # None
  BY BodyFields DEF PropertiesInv
<1>2. c \in Callers
  BY CallerFields
<1>3. /\ StartEdit(w, t) /\ IsLive(prop[p])
      /\ NeverMoved => KernelOrg(c, b, prop[p].org) = prop[p].org
  BY DEF KernelUpdateBegin, NeverMoved
<1>4. prop[p] # None /\ p # None
  BY <1>3, PropertiesAssumption DEF IsLive
<1>5. ts \in Terms
  BY <1>1, TermsTyped DEF KernelNormalizedTerms, KernelMergedTerms, PropertiesInv, PropertiesTypeOK
<1> HIDE DEF ts
<1>6. /\ t \in PropertyTask /\ t.op = "kernelUpdateProperty" /\ t.by = c /\ t.body = b /\ t.old = prop[p] /\ t.prop = p
  BY <1>1, <1>2, <1>4, <1>5, EditTyped DEF PropertyOps, Maybe
<1> HIDE DEF t
<1>7. Limited /\ prop[p].org = None => NotHeldBy(prop[p].superOwner)
  BY <1>4 DEF PropertiesInv, UnownedOutside
<1>8. SoundEdit(t)
  BY <1>1, <1>3, <1>4, <1>6, <1>7 DEF SoundEdit, Creations, Updates, RemovalOps
<1>9. \A o \in Orgs : ~ Enters(t, o)
  BY <1>6 DEF Enters
<1> QED BY <1>3, <1>6, <1>8, <1>9, BeginKeepsInv

LEMMA RemovalBeginKeeps ==
  ASSUME PropertiesInv, NEW w \in Workers, NEW op \in RemovalOps, NEW p \in Props, NEW c \in within.callers,
         RemovalBegin(w, op, p, c)
  PROVE  PropertiesInv'
<1> DEFINE t == Edit(op, p, c, None, NoOne)
<1>1. c \in Callers
  BY CallerFields
<1>2. /\ StartEdit(w, t) /\ Exists(prop[p])
      /\ op = "restoreProperty" /\ prop[p].org # None => PropertyAllowed(prop[p].org)
  BY DEF RemovalBegin
<1>3. prop[p] # None /\ p # None
  BY <1>2, PropertiesAssumption DEF Exists, IsLive, IsDeleted
<1>4. /\ t \in PropertyTask /\ t.op = op /\ t.by = c /\ t.prop = p
  BY <1>1, <1>3, EditTyped, NoOneTyped DEF PropertyOps, RemovalOps, Maybe
<1> HIDE DEF t
<1>5. SoundEdit(t)
  BY <1>3, <1>4 DEF SoundEdit, Creations, Updates, RemovalOps
<1>6. \A o \in Orgs : Enters(t, o) => PropertyAllowed(o)
  BY <1>2, <1>4, PropertiesAssumption DEF Enters, RemovalOps
<1> QED BY <1>2, <1>4, <1>5, <1>6, BeginKeepsInv

-----------------------------------------------------------------------------
(* Writes *)

\* What a handler has kept.
LEMMA Kept ==
  ASSUME PropertiesInv, NEW w \in Workers, editing[w] # None
  PROVE  LET t == editing[w]
         IN  /\ t \in PropertyTask /\ SoundEdit(t)
             /\ t.by \in Callers /\ t.by.user \in People /\ t.by.org \in Maybe(Orgs)
             /\ t.by.broker => t.by.org = None
             /\ t.prop \in Maybe(Props) /\ t.terms \in Terms /\ t.old \in Maybe(Property)
<1>1. editing[w] \in PropertyTask /\ SoundEdit(editing[w])
  BY DEF PropertiesInv, PropertiesTypeOK, EditsAreSound, Maybe
<1>2. editing[w].by \in Callers
  BY <1>1 DEF PropertyTask
<1> QED BY <1>1, <1>2, PropertiesAssumption DEF PropertyTask, Caller

\* A handler goes on to announce unless the property was published when it was read.
LEMMA NextTyped ==
  ASSUME PropertiesInv, NEW w \in Workers, NEW op, NEW p \in Props, EndWrite(w, op, p)
  PROVE  \E next \in Maybe(PropertyTask) :
           /\ editing' = [editing EXCEPT ![w] = next]
           /\ UNCHANGED <<announced, position, liveOrgs, within>>
           /\ editing[w] # None /\ editing[w].op = op
           /\ next # None => next.op = "announce" /\ next.prop = p /\ next.by = editing[w].by
           /\ next = None => editing[w].old # None /\ editing[w].old.published
<1> DEFINE go == [editing[w] EXCEPT !.op = "announce", !.prop = p, !.body = None]
           old == editing[w].old
           next == IF old # None /\ old.published THEN None ELSE go
<1>1. Ends(w, op, next)
  BY DEF EndWrite
<1>2. editing[w] \in PropertyTask
  BY <1>1, Kept DEF Ends
<1>3. go \in PropertyTask /\ go.op = "announce" /\ go.prop = p /\ go.by = editing[w].by
  BY <1>2 DEF PropertyTask, PropertyOps, Maybe
<1>4. go # None
  BY <1>3, PropertiesAssumption
<1> HIDE DEF go
<1> QED BY <1>1, <1>3, <1>4 DEF Ends, Maybe

\* What belongs to a property is replaced, but for what the DELETEs did not see.
LEMMA DetailsTyped ==
  ASSUME PropertiesInv, NEW p \in Props, NEW b \in Body, NEW kind, NEW unseen
  PROVE  /\ \E d \in SUBSET Kinds :
              /\ Cardinality(d) > 1 => unseen # {}
              /\ ReplacedDetails(p, kind, b, unseen) = [details EXCEPT ![p] = d]
         /\ \E m \in BOOLEAN : ReplacedMandate(p, b, unseen) = [mandate EXCEPT ![p] = m]
<1> DEFINE d == GivenDetails(kind, b) \cup {k \in details[p] : DetailsRow(k) \in unseen}
           m == Given(b.mandate, mandate[p]) \/ (MandateRow \in unseen /\ mandate[p])
<1>1. GivenDetails(kind, b) \in SUBSET Kinds
  BY DEF GivenDetails, Body, Maybe
<1>2. GivenDetails(kind, b) = {} \/ GivenDetails(kind, b) = {kind}
  BY DEF GivenDetails
<1>3. Cardinality(GivenDetails(kind, b)) \in {0, 1}
  BY <1>2, FS_EmptySet, FS_Singleton
<1>4. d \in SUBSET Kinds
  BY <1>1 DEF PropertiesInv, PropertiesTypeOK
<1>5. Cardinality(d) > 1 => unseen # {}
  <2>1. unseen = {} => d = GivenDetails(kind, b)
    OBVIOUS
  <2> HIDE DEF d
  <2> QED BY <1>3, <2>1
<1>6. Given(b.mandate, mandate[p]) \in BOOLEAN /\ mandate[p] \in BOOLEAN
  BY DEF PropertiesInv, PropertiesTypeOK, Given, Body, Maybe
<1>7. m \in BOOLEAN
  BY <1>6
<1>8. ReplacedDetails(p, kind, b, unseen) = [details EXCEPT ![p] = d]
  BY DEF ReplacedDetails
<1>9. ReplacedMandate(p, b, unseen) = [mandate EXCEPT ![p] = m]
  BY DEF ReplacedMandate
<1> HIDE DEF d, m
<1> QED BY <1>4, <1>5, <1>7, <1>8, <1>9

\* The inserts of a property.
LEMMA InsertKeeps ==
  ASSUME PropertiesInv, NEW w \in Workers, NEW op \in Creations, NEW p \in Props, EndWrite(w, op, p),
         NEW org \in Maybe(Orgs), NEW super \in Maybe(People),
         LET t == editing[w]
         IN  /\ InsertProperty(p, NewProperty(org, super, t.by.user, t.body), t.terms, t.body)
             /\ t.by.org # None => org = t.by.org
             /\ org # None => Enters(t, org)
             /\ Limited /\ org = None => NotHeldBy(super) /\ t.by.org = None
  PROVE  PropertiesInv'
<1> DEFINE t == editing[w]
           row == NewProperty(org, super, t.by.user, t.body)
<1>1. PICK next \in Maybe(PropertyTask) :
        /\ editing' = [editing EXCEPT ![w] = next]
        /\ UNCHANGED <<announced, position, liveOrgs, within>>
        /\ t # None /\ t.op = op
        /\ next # None => next.op = "announce" /\ next.prop = p /\ next.by = t.by
        /\ next = None => t.old # None
  BY NextTyped
<1>2. /\ t \in PropertyTask /\ SoundEdit(t) /\ t.by \in Callers /\ t.by.user \in People
      /\ t.by.org \in Maybe(Orgs) /\ t.terms \in Terms
  BY <1>1, Kept
<1>3. t.body \in within.bodies /\ t.body.kind # None /\ t.old = None
  BY <1>1, <1>2 DEF SoundEdit
<1>4. t.body \in Body
  BY <1>3, BodyFields DEF PropertiesInv
<1>4a. t.by.user \in Maybe(People)
  BY <1>2 DEF Maybe
<1> HIDE DEF t
<1>5. row \in Property /\ row.org = org /\ row.superOwner = super /\ row.creator = t.by.user /\ row.life = "live"
  BY <1>3, <1>4, <1>4a, NewPropertyTyped
<1> USE DEF t
<1>6. next # None
  BY <1>1, <1>3
<1>7. /\ prop[p] = None /\ prop' = [prop EXCEPT ![p] = row] /\ terms' = [terms EXCEPT ![p] = t.terms]
      /\ mandate' = ReplacedMandate(p, t.body, {}) /\ details' = ReplacedDetails(p, row.kind, t.body, {})
      /\ UNCHANGED <<tx, aside>>
  BY DEF InsertProperty, FreshProperty
<1>8. PICK d \in SUBSET Kinds : ~ (Cardinality(d) > 1) /\ details' = [details EXCEPT ![p] = d]
  BY <1>4, <1>7, DetailsTyped
<1>9. PICK m \in BOOLEAN : mandate' = [mandate EXCEPT ![p] = m]
  BY <1>4, <1>7, DetailsTyped
<1>10. Limited /\ org = None => NotHeldBy(super) /\ NotHeldBy(t.by.user)
  BY <1>2 DEF PropertiesInv, UnownedOutside
<1>11. t.op # "announce"
  BY <1>1 DEF Creations
<1>11a. Transactions' /\ aside \subseteq aside'
  BY <1>1, <1>7, NotUpdating DEF Creations, Updates
<1> HIDE DEF row
<1>12. row.org # None => Enters(editing[w], row.org)
  BY <1>5
<1>13. Limited /\ row.org = None => NotHeldBy(row.superOwner) /\ NotHeldBy(row.creator)
  BY <1>5, <1>10
<1>14. next.op = "announce" /\ next.prop = p /\ (next.by.org # None => row.org = next.by.org)
  BY <1>1, <1>5, <1>6
<1>15. /\ row.life # "gone" /\ t.terms \in Terms /\ row \in Property
       /\ UNCHANGED <<announced, position, liveOrgs, within>>
       /\ editing' = [editing EXCEPT ![w] = next]
       /\ prop' = [prop EXCEPT ![p] = row] /\ terms' = [terms EXCEPT ![p] = t.terms]
       /\ details' = [details EXCEPT ![p] = d] /\ (Cardinality(d) > 1 => p \in aside')
       /\ mandate' = [mandate EXCEPT ![p] = m]
  BY <1>1, <1>2, <1>5, <1>7, <1>8, <1>9
<1>16. prop[p] = None /\ next # None /\ editing[w] # None /\ editing[w].op # "announce"
  BY <1>1, <1>6, <1>7, <1>11
<1> HIDE DEF t
<1> QED BY <1>11a, <1>12, <1>13, <1>14, <1>15, <1>16, WriteKeepsInv

LEMMA CreateKeeps == ASSUME PropertiesInv, NEW w \in Workers, CreateProperty(w) PROVE PropertiesInv'
<1> DEFINE t == editing[w]
<1>1. PICK p \in Props :
        /\ EndWrite(w, "createProperty", p)
        /\ InsertProperty(p, NewProperty(t.by.org, t.body.superOwner, t.by.user, t.body), t.terms, t.body)
  BY DEF CreateProperty
<1>2. t # None /\ t.op = "createProperty"
  BY <1>1 DEF EndWrite, Ends
<1>3. t.by.org \in Maybe(Orgs) /\ t.by.org # None /\ t.body \in within.bodies
  BY <1>2, Kept DEF SoundEdit, Creations
<1>4. t.body.superOwner \in Maybe(People)
  BY <1>3, BodyFields DEF PropertiesInv, Body
<1>5. Enters(t, t.by.org)
  BY <1>2 DEF Enters
<1> QED BY <1>1, <1>3, <1>4, <1>5, InsertKeeps DEF Creations

LEMMA KernelCreateKeeps == ASSUME PropertiesInv, NEW w \in Workers, KernelCreateProperty(w) PROVE PropertiesInv'
<1> DEFINE t == editing[w]
           org == KernelOrg(t.by, t.body, None)
           super == KernelSuperOwner(t.by, t.body, None)
<1>1. PICK p \in Props :
        /\ EndWrite(w, "kernelCreateProperty", p)
        /\ InsertProperty(p, NewProperty(org, super, t.by.user, t.body), t.terms, t.body)
  BY DEF KernelCreateProperty
<1>2. t # None /\ t.op = "kernelCreateProperty"
  BY <1>1 DEF EndWrite, Ends
<1>3. /\ t.by \in Callers /\ t.by.org \in Maybe(Orgs) /\ t.body \in within.bodies /\ t.by.user \in People
      /\ t.by.broker => t.by.org = None
  BY <1>2, Kept DEF SoundEdit, Creations
<1>4. t.body.superOwner \in Maybe(People) /\ t.body.org \in Maybe(Orgs)
  BY <1>3, BodyFields DEF PropertiesInv, Body
<1>5. org \in Maybe(Orgs) /\ super \in Maybe(People)
  BY <1>3, <1>4 DEF KernelOrg, KernelSuperOwner, Given, Maybe
<1>6. Enters(t, org)
  BY <1>2 DEF Enters
<1>7. t.by.org # None => org = t.by.org
  BY <1>3 DEF KernelOrg
<1>8. Limited /\ org = None => NotHeldBy(super) /\ t.by.org = None
  <2> SUFFICES ASSUME Limited, org = None PROVE NotHeldBy(super) /\ t.by.org = None
    OBVIOUS
  <2>1. t.by.org = None
    BY <1>7
  <2>2. NotHeldBy(t.by.user)
    BY <1>3, <2>1 DEF PropertiesInv, UnownedOutside
  <2>3. NotHeldBy(None)
    BY PropertiesAssumption DEF NotHeldBy, MembersOfOrg
  <2>4. ~ t.by.broker => t.body.superOwner = None
    BY <1>3, <2>1 DEF Limited, OwnersWithOrg, KernelOrg, Given
  <2> QED BY <2>1, <2>2, <2>3, <2>4 DEF KernelSuperOwner, Given
<1> HIDE DEF org, super
<1> QED BY <1>1, <1>5, <1>6, <1>7, <1>8, InsertKeeps DEF Creations

\* An update writes the row, and owners, media and details as the request says.
LEMMA UpdateWritten ==
  ASSUME PropertiesInv, NEW w \in Workers, NEW op \in Updates, NEW row \in Property,
         EndWrite(w, op, editing[w].prop), WriteUpdate(w, row),
         LET old == prop[editing[w].prop]
         IN  /\ row.life = old.life
             /\ NeverMoved => row.org = old.org
             /\ NeverWithdrawn /\ old.published => row.published,
         Limited /\ row.org = None => NotHeldBy(row.superOwner) /\ NotHeldBy(row.creator)
  PROVE  PropertiesInv'
<1> DEFINE t == editing[w]
           p == t.prop
<1>1. t # None /\ t.op = op
  BY DEF EndWrite, Ends
<1>2. t \in PropertyTask /\ SoundEdit(t) /\ t.terms \in Terms
  BY <1>1, Kept
<1>3. p \in Props /\ prop[p] # None /\ t.body \in within.bodies /\ t.old # None
  BY <1>1, <1>2 DEF SoundEdit
<1>4. t.body \in Body
  BY <1>3, BodyFields DEF PropertiesInv
<1>5. PICK next \in Maybe(PropertyTask) :
        /\ editing' = [editing EXCEPT ![w] = next]
        /\ UNCHANGED <<announced, position, liveOrgs, within>>
        /\ next # None => next.op = "announce" /\ next.prop = p /\ next.by = t.by
        /\ next = None => t.old.published
  BY <1>3, NextTyped
<1>6. PICK unseen \in SUBSET (IF tx[w] = None THEN {} ELSE tx[w].unseen \ InsertedRows(t)) :
        /\ mandate' = ReplacedMandate(p, t.body, unseen)
        /\ terms' = [terms EXCEPT ![p] =
             IF ~ TouchesOwners(t.body) THEN @
             ELSE [u \in People |-> IF OwnerRow(u) \in unseen THEN @[u] ELSE t.terms[u]]]
        /\ details' = IF TouchesDetails(t.body) THEN ReplacedDetails(p, DetailsKind(t), t.body, unseen)
                      ELSE details
  BY DEF WriteUpdate
<1>6a. Exists(prop[p]) /\ prop' = [prop EXCEPT ![p] = row]
  BY DEF WriteUpdate
<1>6b. Transactions' /\ aside \subseteq aside'
  BY <1>1, <1>2, <1>3, <1>4, <1>5, TransactionWrites
<1>6c. unseen # {} => p \in aside'
  <2>1. unseen # {} => tx[w] # None /\ tx[w].unseen # {}
    BY <1>6
  <2> QED BY <1>6b, <2>1 DEF PropertiesInv, Transactions, TransactionSound
<1>7. PICK ts \in Terms : terms' = [terms EXCEPT ![p] = ts]
  <2>1. terms[p] \in Terms
    BY <1>3 DEF PropertiesInv, PropertiesTypeOK
  <2>2. [u \in People |-> IF OwnerRow(u) \in unseen THEN terms[p][u] ELSE t.terms[u]] \in Terms
    BY <1>2, <2>1 DEF Terms
  <2>3. CASE TouchesOwners(t.body)
    BY <1>3, <1>6, <2>2, <2>3 DEF PropertiesInv, PropertiesTypeOK
  <2>4. CASE ~ TouchesOwners(t.body)
    BY <1>3, <1>6, <2>1, <2>4 DEF PropertiesInv, PropertiesTypeOK
  <2> QED BY <2>3, <2>4
<1>8. PICK d \in SUBSET Kinds : (Cardinality(d) > 1 => p \in aside') /\ details' = [details EXCEPT ![p] = d]
  <2>1. CASE TouchesDetails(t.body)
    <3>1. details' = ReplacedDetails(p, DetailsKind(t), t.body, unseen)
      BY <1>6, <2>1
    <3>2. PICK d \in SUBSET Kinds :
            /\ Cardinality(d) > 1 => unseen # {}
            /\ ReplacedDetails(p, DetailsKind(t), t.body, unseen) = [details EXCEPT ![p] = d]
      BY <1>3, <1>4, DetailsTyped
    <3>3. Cardinality(d) > 1 => p \in aside'
      BY <1>6c, <3>2
    <3>4. details' = [details EXCEPT ![p] = d]
      BY <3>1, <3>2
    <3> HIDE DEF t, p
    <3> QED BY <3>3, <3>4
  <2>2. CASE ~ TouchesDetails(t.body)
    <3>1. details' = [details EXCEPT ![p] = details[p]] /\ details[p] \in SUBSET Kinds
      BY <1>3, <1>6, <2>2 DEF PropertiesInv, PropertiesTypeOK
    <3>2. Cardinality(details[p]) > 1 => p \in aside
      BY <1>3 DEF PropertiesInv, OneKindOfDetails
    <3>3. Cardinality(details[p]) > 1 => p \in aside'
      BY <1>6b, <3>2
    <3> HIDE DEF t, p
    <3> QED BY <3>1, <3>3
  <2> HIDE DEF t, p
  <2> QED BY <2>1, <2>2
<1>9. PICK m \in BOOLEAN : mandate' = [mandate EXCEPT ![p] = m]
  <2>1. \E m \in BOOLEAN : ReplacedMandate(p, t.body, unseen) = [mandate EXCEPT ![p] = m]
    <3>1. p \in Props /\ t.body \in Body
      BY <1>3, <1>4
    <3> HIDE DEF t, p
    <3> QED BY <3>1, DetailsTyped
  <2>2. mandate' = ReplacedMandate(p, t.body, unseen)
    BY <1>6
  <2> HIDE DEF t, p
  <2> QED BY <2>1, <2>2
<1>10. prop[p].life # "gone" /\ row.life # "gone"
  BY <1>6a DEF Exists, IsLive, IsDeleted
<1>11. row.life = "live" => IsLive(prop[p])
  BY <1>3 DEF IsLive
<1>12. NeverMoved /\ NeverWithdrawn /\ row.published => next # None \/ prop[p].published
  BY <1>1, <1>2, <1>5 DEF SoundEdit
<1>13. next # None => /\ next.op = "announce" /\ next.prop = p
                      /\ NeverMoved /\ next.by.org # None => row.org = next.by.org
  <2>1. ASSUME NeverMoved, t.by.org # None PROVE prop[p].org = t.by.org
    <3>1. CASE op = "updateProperty"
      BY <1>1, <1>2, <2>1, <3>1 DEF SoundEdit
    <3>2. CASE op = "kernelUpdateProperty"
      BY <1>1, <1>2, <2>1, <3>2, Kept DEF SoundEdit, KernelOrg
    <3> QED BY <3>1, <3>2 DEF Updates
  <2> QED BY <1>5, <2>1
<1>14. editing[w] # None /\ editing[w].op # "announce"
  BY <1>1 DEF Updates
<1>15. /\ NeverMoved => row.org = prop[p].org
       /\ NeverWithdrawn /\ prop[p].published => row.published
  OBVIOUS
<1>16. /\ row.life = "gone" => ts = NoOne /\ d = {} /\ ~ m
       /\ prop[p] # None =>
            /\ NeverMoved => row.org = prop[p].org
            /\ NeverWithdrawn /\ prop[p].published => row.published
       /\ Limited /\ row.life = "live" /\ row.org # None => IsLive(prop[p]) \/ Enters(editing[w], row.org)
       /\ NeverMoved /\ NeverWithdrawn /\ row.life # "gone" /\ row.published =>
            next # None \/ (prop[p] # None /\ prop[p].life # "gone" /\ prop[p].published)
  BY <1>3, <1>10, <1>11, <1>12, <1>15
<1>17. prop' = [prop EXCEPT ![p] = row]
  BY <1>6a
<1>18. /\ editing' = [editing EXCEPT ![w] = next] /\ UNCHANGED <<announced, position, liveOrgs, within>>
       /\ terms' = [terms EXCEPT ![p] = ts] /\ details' = [details EXCEPT ![p] = d]
       /\ mandate' = [mandate EXCEPT ![p] = m] /\ p \in Props
       /\ Cardinality(d) > 1 => p \in aside'
  BY <1>3, <1>5, <1>7, <1>8, <1>9
<1>19. Limited /\ row.org = None => NotHeldBy(row.superOwner) /\ NotHeldBy(row.creator)
  OBVIOUS
<1> HIDE DEF t, p
<1> QED BY ONLY <1>6b, <1>13, <1>14, <1>16, <1>17, <1>18, <1>19, PropertiesInv, w \in Workers, row \in Property,
   next \in Maybe(PropertyTask), ts \in Terms, d \in SUBSET Kinds, m \in BOOLEAN, WriteKeepsInv

\* The rewrites of a property.
LEMMA PublishedKept ==
  ASSUME NeverWithdrawn, NEW b \in within.bodies, b \in Body, NEW old \in BOOLEAN, old
  PROVE  Given(b.published, old)
BY DEF NeverWithdrawn, Given, Body, Maybe

LEMMA UpdateKeeps == ASSUME PropertiesInv, NEW w \in Workers, UpdateProperty(w) PROVE PropertiesInv'
<1> DEFINE t == editing[w]
           p == t.prop
           row == IF FindsRow(w) THEN Updated(prop[p], t.old, t.body) ELSE prop[p]
<1>1. EndWrite(w, "updateProperty", p) /\ WriteUpdate(w, row)
  BY DEF UpdateProperty
<1>2. t # None /\ t.op = "updateProperty"
  BY <1>1 DEF EndWrite, Ends
<1>3a. /\ p \in Props /\ prop[p] # None /\ t.body \in within.bodies /\ t.old # None /\ t.old \in Maybe(Property)
  BY <1>2, Kept DEF SoundEdit, Updates
<1>3b. t.body \in Body
  BY <1>3a, BodyFields DEF PropertiesInv
<1>3. /\ p \in Props /\ prop[p] \in Property /\ t.body \in within.bodies /\ t.body \in Body /\ t.old \in Property
  BY <1>3a, <1>3b DEF PropertiesInv, PropertiesTypeOK, Maybe
<1>4. LET new == Updated(prop[p], t.old, t.body)
      IN  /\ new \in Property
          /\ new.org = prop[p].org /\ new.creator = prop[p].creator /\ new.life = prop[p].life
          /\ new.published = Given(t.body.published, prop[p].published)
  BY <1>3, UpdatedTyped
<1>5. /\ row \in Property /\ row.life = prop[p].life /\ row.org = prop[p].org
      /\ row.published \in {prop[p].published, Given(t.body.published, prop[p].published)}
  BY <1>3, <1>4
<1>6a. prop[p].published \in BOOLEAN
  BY <1>3 DEF Property
<1>6. NeverWithdrawn /\ prop[p].published => row.published
  BY <1>3, <1>5, <1>6a, PublishedKept
<1>7. Limited => row.org # None
  <2>1. Limited => prop[p].org = t.by.org
    BY <1>2, Kept DEF SoundEdit, Limited
  <2>2. t.by.org # None
    BY <1>2, Kept DEF SoundEdit
  <2> QED BY <1>5, <2>1, <2>2
<1> HIDE DEF row
<1> QED BY <1>1, <1>5, <1>6, <1>7, UpdateWritten DEF Updates

LEMMA KernelUpdateKeeps == ASSUME PropertiesInv, NEW w \in Workers, KernelUpdateProperty(w) PROVE PropertiesInv'
<1> DEFINE t == editing[w]
           p == t.prop
           org == KernelOrg(t.by, t.body, t.old.org)
           super == KernelSuperOwner(t.by, t.body, t.old.superOwner)
           new == Updated(prop[p], t.old, t.body)
           row == [new EXCEPT !.org = org, !.superOwner = super]
<1>1. EndWrite(w, "kernelUpdateProperty", p) /\ WriteUpdate(w, row)
  BY DEF KernelUpdateProperty
<1>2. t # None /\ t.op = "kernelUpdateProperty"
  BY <1>1 DEF EndWrite, Ends
<1>3a. /\ p \in Props /\ prop[p] # None /\ t.body \in within.bodies /\ t.old # None /\ t.old \in Maybe(Property)
  BY <1>2, Kept DEF SoundEdit, Updates
<1>3b. t.body \in Body
  BY <1>3a, BodyFields DEF PropertiesInv
<1>3c. /\ p \in Props /\ prop[p] \in Property /\ prop[p] # None
       /\ t.body \in within.bodies /\ t.body \in Body /\ t.old \in Property
  BY <1>3a, <1>3b DEF PropertiesInv, PropertiesTypeOK, Maybe
<1>3. /\ p \in Props /\ prop[p] \in Property /\ prop[p] # None
      /\ t.body \in within.bodies /\ t.body \in Body /\ t.old \in Property
      /\ t.by \in Callers /\ t.by.user \in People /\ t.by.org \in Maybe(Orgs) /\ (t.by.broker => t.by.org = None)
      /\ NeverMoved => org = prop[p].org
      /\ Limited /\ prop[p].org = None => NotHeldBy(t.old.superOwner)
  BY <1>2, <1>3c, Kept DEF SoundEdit
<1>4. /\ new \in Property
      /\ new.org = prop[p].org /\ new.creator = prop[p].creator /\ new.life = prop[p].life
      /\ new.published = Given(t.body.published, prop[p].published)
  BY <1>3, UpdatedTyped
<1>5. org \in Maybe(Orgs) /\ super \in Maybe(People)
  BY <1>3 DEF KernelOrg, KernelSuperOwner, Given, Maybe, Body, Property
<1>6. Limited /\ org = None => NotHeldBy(super) /\ NotHeldBy(prop[p].creator)
  <2> SUFFICES ASSUME Limited, org = None PROVE NotHeldBy(super) /\ NotHeldBy(prop[p].creator)
    OBVIOUS
  <2>1. prop[p].org = None
    BY <1>3 DEF Limited
  <2>2. t.by.org = None
    BY <1>3 DEF KernelOrg
  <2>3. NotHeldBy(t.by.user)
    BY <1>3, <2>2 DEF PropertiesInv, UnownedOutside
  <2>4. ~ t.by.broker => t.body.superOwner = None
    BY <1>3, <2>2 DEF Limited, OwnersWithOrg, KernelOrg, Given
  <2>5. NotHeldBy(prop[p].creator)
    BY <1>3, <2>1 DEF PropertiesInv, UnownedOutside
  <2> QED BY <1>3, <2>1, <2>3, <2>4, <2>5 DEF KernelSuperOwner, Given
<1> HIDE DEF new, org, super
<1>7. /\ row \in Property /\ row.org = org /\ row.superOwner = super /\ row.creator = prop[p].creator
      /\ row.life = prop[p].life /\ row.published = Given(t.body.published, prop[p].published)
  BY <1>4, <1>5 DEF Property
<1>8a. prop[p].published \in BOOLEAN
  BY <1>3 DEF Property
<1>8. NeverWithdrawn /\ prop[p].published => row.published
  BY <1>3, <1>7, <1>8a, PublishedKept
<1> HIDE DEF row
<1> QED BY <1>1, <1>3, <1>6, <1>7, <1>8, UpdateWritten DEF Updates

\* The life of a property is all that setting it changes; what is gone stays gone.
LEMMA LifeTyped ==
  ASSUME NEW old \in Property, NEW life \in Lives
  PROVE  LET row == SetLife(old, life)
         IN  /\ row \in Property /\ row.org = old.org /\ row.superOwner = old.superOwner
             /\ row.creator = old.creator /\ row.published = old.published
             /\ row.life = IF old.life = "gone" THEN "gone" ELSE life
<1>1. old.life \in Lives /\ old # None
  BY PropertiesAssumption DEF Property
<1>2. CASE Exists(old)
  BY <1>1, <1>2 DEF SetLife, Property, Exists, IsLive, IsDeleted
<1>3. CASE ~ Exists(old)
  BY <1>1, <1>3 DEF SetLife, Lives, Exists, IsLive, IsDeleted
<1> QED BY <1>2, <1>3

\* The life of a property is written, by a handler that found it.
LEMMA LifeWritten ==
  ASSUME PropertiesInv, NEW w \in Workers, editing[w] # None, editing[w].op \in RemovalOps,
         NEW p \in Props, p = editing[w].prop, prop[p] # None,
         editing' = [editing EXCEPT ![w] = None], UNCHANGED <<announced, position, liveOrgs, tx, aside, within>>,
         NEW row \in Property, prop' = [prop EXCEPT ![p] = row],
         row.org = prop[p].org, row.superOwner = prop[p].superOwner,
         row.creator = prop[p].creator, row.published = prop[p].published,
         row.life = "live" => editing[w].op = "restoreProperty",
         row.life # "gone" => prop[p].life # "gone",
         NEW newTerms \in Terms, terms' = [terms EXCEPT ![p] = newTerms],
         NEW newDetails \in SUBSET Kinds, details' = [details EXCEPT ![p] = newDetails],
         NEW newMandate \in BOOLEAN, mandate' = [mandate EXCEPT ![p] = newMandate],
         Cardinality(newDetails) > 1 => p \in aside,
         row.life = "gone" => newTerms = NoOne /\ newDetails = {} /\ ~ newMandate
  PROVE  PropertiesInv'
<1>1. Limited /\ row.org = None => NotHeldBy(row.superOwner) /\ NotHeldBy(row.creator)
  BY DEF PropertiesInv, UnownedOutside
<1>2. row.life = "live" => Enters(editing[w], row.org)
  BY DEF Enters
<1>3. editing[w].op # "announce"
  BY DEF RemovalOps
<1>4. PICK next \in Maybe(PropertyTask) : next = None
  BY DEF Maybe
<1>5. editing' = [editing EXCEPT ![w] = next]
  BY <1>4
<1>6. /\ prop[p] # None =>
           /\ NeverMoved => row.org = prop[p].org
           /\ NeverWithdrawn /\ prop[p].published => row.published
      /\ Limited /\ row.life = "live" /\ row.org # None => IsLive(prop[p]) \/ Enters(editing[w], row.org)
      /\ NeverMoved /\ NeverWithdrawn /\ row.life # "gone" /\ row.published =>
           next # None \/ (prop[p] # None /\ prop[p].life # "gone" /\ prop[p].published)
      /\ next # None =>
           /\ next.op = "announce" /\ next.prop = p
           /\ NeverMoved /\ next.by.org # None => row.org = next.by.org
  BY <1>2, <1>4
<1>7. editing[w] # None /\ editing[w].op # "announce"
  BY <1>3
<1>8. editing' = [editing EXCEPT ![w] = next]
  BY <1>5
<1>9. /\ UNCHANGED <<announced, position, liveOrgs, within>>
      /\ prop' = [prop EXCEPT ![p] = row] /\ terms' = [terms EXCEPT ![p] = newTerms]
      /\ details' = [details EXCEPT ![p] = newDetails] /\ mandate' = [mandate EXCEPT ![p] = newMandate]
  OBVIOUS
<1>10. /\ Cardinality(newDetails) > 1 => p \in aside'
       /\ row.life = "gone" => newTerms = NoOne /\ newDetails = {} /\ ~ newMandate
  OBVIOUS
<1>11. Transactions' /\ aside \subseteq aside'
  BY NotUpdating DEF RemovalOps, Updates
<1> QED BY ONLY <1>11, <1>1, <1>6, <1>7, <1>8, <1>9, <1>10, PropertiesInv, w \in Workers, p \in Props, row \in Property,
   next \in Maybe(PropertyTask), newTerms \in Terms, newDetails \in SUBSET Kinds, newMandate \in BOOLEAN, WriteKeepsInv

\* A removal or a restore writes nothing but the life.
LEMMA OnlyLifeWritten ==
  ASSUME PropertiesInv, NEW w \in Workers, NEW op \in RemovalOps \ {"purgeProperty"}, EndEdit(w, op),
         NEW life \in {"live", "deleted"}, SetPropertyLife(w, editing[w].prop, life),
         life = "live" => op = "restoreProperty"
  PROVE  PropertiesInv'
<1> DEFINE p == editing[w].prop
<1>1. /\ editing[w] # None /\ editing[w].op = op /\ editing' = [editing EXCEPT ![w] = None]
      /\ UNCHANGED <<announced, position, liveOrgs, within>>
  BY DEF EndEdit, Ends
<1>2. p \in Props /\ prop[p] # None
  BY <1>1, Kept DEF SoundEdit
<1>3. /\ terms[p] \in Terms /\ details[p] \in SUBSET Kinds /\ mandate[p] \in BOOLEAN /\ (Cardinality(details[p]) > 1 => p \in aside)
      /\ terms = [terms EXCEPT ![p] = terms[p]] /\ details = [details EXCEPT ![p] = details[p]]
      /\ mandate = [mandate EXCEPT ![p] = mandate[p]]
  BY <1>2 DEF PropertiesInv, PropertiesTypeOK, OneKindOfDetails
<1>4. prop[p].life = "gone" => terms[p] = NoOne /\ details[p] = {} /\ ~ mandate[p]
  BY <1>2 DEF PropertiesInv, PropertiesTypeOK, Exists, IsLive, IsDeleted
<1>5. prop' = [prop EXCEPT ![p] = SetLife(@, life)] /\ UNCHANGED <<terms, details, mandate, tx, aside>>
  BY DEF SetPropertyLife
<1>6. life \in Lives /\ life # "gone" /\ editing[w].op \in RemovalOps /\ p = editing[w].prop
  BY <1>1 DEF Lives
<1>7. prop[p] \in Property
  BY <1>2 DEF PropertiesInv, PropertiesTypeOK, Maybe
<1>8. PICK row \in Property :
        /\ prop' = [prop EXCEPT ![p] = row]
        /\ row.org = prop[p].org /\ row.superOwner = prop[p].superOwner
        /\ row.creator = prop[p].creator /\ row.published = prop[p].published
        /\ row.life = IF prop[p].life = "gone" THEN "gone" ELSE life
  BY <1>5, <1>6, <1>7, LifeTyped
<1>9. /\ row.life = "live" => editing[w].op = "restoreProperty"
      /\ row.life # "gone" => prop[p].life # "gone"
      /\ row.life = "gone" => terms[p] = NoOne /\ details[p] = {} /\ ~ mandate[p]
  BY <1>1, <1>4, <1>6, <1>8
<1>10. PICK ts \in Terms, d \in SUBSET Kinds, m \in BOOLEAN :
        /\ terms' = [terms EXCEPT ![p] = ts] /\ details' = [details EXCEPT ![p] = d]
        /\ mandate' = [mandate EXCEPT ![p] = m] /\ (Cardinality(d) > 1 => p \in aside)
        /\ row.life = "gone" => ts = NoOne /\ d = {} /\ ~ m
  BY <1>3, <1>5, <1>9
<1>11. UNCHANGED <<announced, position, liveOrgs, tx, aside, within>>
  BY <1>1, <1>5
<1> HIDE DEF p
<1> QED BY <1>1, <1>2, <1>6, <1>8, <1>9, <1>10, <1>11, LifeWritten

\* Removals, restores and purges.
LEMMA PropertiesRemoveKeeps == ASSUME PropertiesInv, NEW w \in Workers, RemoveProperty(w) PROVE PropertiesInv'
<1>1. EndEdit(w, "removeProperty")
  BY DEF RemoveProperty
<1>2. CASE SetPropertyLife(w, editing[w].prop, "deleted")
  BY <1>1, <1>2, OnlyLifeWritten DEF RemovalOps
<1>3. CASE UNCHANGED <<prop, terms, details, mandate, tx, aside>>
  <2>1. Transactions' /\ aside \subseteq aside'
    BY <1>1, <1>3, NotUpdating DEF EndEdit, Ends, Updates
  <2> QED BY <1>1, <1>3, <2>1, EndKeepsInv DEF EndEdit, Ends, PropertiesInv, PropertiesTypeOK
<1> QED BY <1>2, <1>3 DEF RemoveProperty

LEMMA KernelRemoveKeeps == ASSUME PropertiesInv, NEW w \in Workers, KernelRemoveProperty(w) PROVE PropertiesInv'
BY OnlyLifeWritten DEF KernelRemoveProperty, RemovalOps

LEMMA RestoreKeeps == ASSUME PropertiesInv, NEW w \in Workers, RestoreProperty(w) PROVE PropertiesInv'
BY OnlyLifeWritten DEF RestoreProperty, RemovalOps

LEMMA PropertiesPurgeKeeps == ASSUME PropertiesInv, NEW w \in Workers, PurgeProperty(w) PROVE PropertiesInv'
<1> DEFINE p == editing[w].prop
<1>1. /\ editing[w] # None /\ editing[w].op = "purgeProperty" /\ editing' = [editing EXCEPT ![w] = None]
      /\ UNCHANGED <<announced, position, liveOrgs, within>> /\ DeleteProperties({p})
  BY DEF PurgeProperty, EndEdit, Ends
<1>2. p \in Props
  BY <1>1, Kept DEF SoundEdit, RemovalOps
<1>3. /\ prop' = [prop EXCEPT ![p] = SetLife(@, "gone")] /\ terms' = [terms EXCEPT ![p] = NoOne]
      /\ details' = [details EXCEPT ![p] = {}] /\ mandate' = [mandate EXCEPT ![p] = FALSE] /\ UNCHANGED <<tx, aside>>
  BY <1>1, <1>2 DEF DeleteProperties, PropertiesInv, PropertiesTypeOK
<1>4. ~ (Cardinality({}) > 1)
  BY FS_EmptySet
<1>5. "gone" \in Lives /\ editing[w].op \in RemovalOps /\ p = editing[w].prop
  BY <1>1 DEF Lives, RemovalOps
<1>6. prop[p] \in Property /\ prop[p] # None
  BY <1>1, <1>2, Kept DEF SoundEdit, RemovalOps, PropertiesInv, PropertiesTypeOK, Maybe
<1>7. PICK row \in Property :
        /\ prop' = [prop EXCEPT ![p] = row]
        /\ row.org = prop[p].org /\ row.superOwner = prop[p].superOwner
        /\ row.creator = prop[p].creator /\ row.published = prop[p].published
        /\ row.life = "gone"
  BY <1>3, <1>5, <1>6, LifeTyped
<1>8. PICK ts \in Terms, d \in SUBSET Kinds, m \in BOOLEAN :
        /\ terms' = [terms EXCEPT ![p] = ts] /\ details' = [details EXCEPT ![p] = d]
        /\ mandate' = [mandate EXCEPT ![p] = m] /\ (Cardinality(d) > 1 => p \in aside)
        /\ ts = NoOne /\ d = {} /\ ~ m
  BY <1>3, <1>4, NoOneTyped
<1>9. UNCHANGED <<announced, position, liveOrgs, tx, aside, within>>
  BY <1>1, <1>3
<1> HIDE DEF p
<1> QED BY <1>1, <1>2, <1>5, <1>6, <1>7, <1>8, <1>9, LifeWritten

\* A failed handler, and the announcement of a property.
LEMMA FailsKeeps == ASSUME PropertiesInv, NEW w \in Workers, EditFails(w) PROVE PropertiesInv'
<1>1. Transactions' /\ aside \subseteq aside'
  BY TransactionEnds DEF EditFails
<1> QED BY <1>1, EndKeepsInv DEF EditFails, PropertiesInv, PropertiesTypeOK

LEMMA NotifyKeeps == ASSUME PropertiesInv, NEW w \in Workers, NotifyPropertyPublished(w) PROVE PropertiesInv'
<1> DEFINE t == editing[w]
<1>1. /\ t # None /\ t.op = "announce" /\ editing' = [editing EXCEPT ![w] = None]
      /\ UNCHANGED <<prop, terms, details, mandate, position, liveOrgs, tx, aside, within>>
  BY DEF NotifyPropertyPublished
<1>2. PICK outcome \in {"sent", "lost"} :
        announced' = IF AnnouncementDue(t) THEN [announced EXCEPT ![t.prop] = outcome] ELSE announced
  BY DEF NotifyPropertyPublished
<1>3. t.prop \in Props /\ (NeverMoved /\ t.by.org # None => prop[t.prop].org = t.by.org)
  BY <1>1, Kept DEF SoundEdit
<1>4. /\ announced \in [Props -> {"no", "sent", "lost"}] /\ announced' \in [Props -> {"no", "sent", "lost"}]
      /\ \A p \in Props : announced[p] # "no" => announced'[p] # "no"
      /\ AnnouncementDue(t) => announced'[t.prop] # "no"
  BY <1>2, <1>3 DEF PropertiesInv, PropertiesTypeOK
<1>5. NeverMoved /\ Exists(prop[t.prop]) /\ prop[t.prop].published /\ prop[t.prop].org # None => AnnouncementDue(t)
  BY <1>3 DEF AnnouncementDue
<1>6. Transactions' /\ aside \subseteq aside'
  BY <1>1, NotUpdating DEF Updates
<1> QED BY <1>1, <1>4, <1>5, <1>6, EndKeepsInv

-----------------------------------------------------------------------------
(* What other parts do *)

\* Whatever is deleted leaves nothing.
LEMMA Deleted ==
  ASSUME PropertiesInv, NEW ps \in SUBSET Props, DeleteProperties(ps)
  PROVE  /\ Columns' /\ Gone' /\ OneKindOfDetails' /\ UNCHANGED <<tx, aside>>
         /\ \A p \in Props :
              /\ prop[p] = None <=> prop'[p] = None
              /\ prop[p] # None =>
                   /\ prop'[p].org = prop[p].org /\ prop'[p].published = prop[p].published
                   /\ prop'[p].life \in {prop[p].life, "gone"}
                   /\ prop'[p].superOwner = prop[p].superOwner /\ prop'[p].creator = prop[p].creator
<1>1. ASSUME NEW p \in Props
      PROVE  /\ SetLife(prop[p], "gone") \in Maybe(Property)
             /\ ~ Exists(SetLife(prop[p], "gone"))
             /\ prop[p] = None <=> SetLife(prop[p], "gone") = None
             /\ prop[p] # None =>
                  LET row == SetLife(prop[p], "gone")
                  IN  /\ row.org = prop[p].org /\ row.published = prop[p].published /\ row.life = "gone"
                      /\ row.superOwner = prop[p].superOwner /\ row.creator = prop[p].creator
  <2>1. CASE prop[p] = None
    BY <2>1 DEF SetLife, Exists, IsLive, IsDeleted, Maybe
  <2>2. CASE prop[p] \in Property
    BY <2>2, PropertiesAssumption DEF SetLife, Exists, IsLive, IsDeleted, Maybe, Property, Lives
  <2> QED BY <2>1, <2>2 DEF PropertiesInv, PropertiesTypeOK, Maybe
<1>2. Columns'
  BY <1>1, NoOneTyped DEF Columns, DeleteProperties, PropertiesInv, PropertiesTypeOK
<1>3. Gone'
  BY <1>1 DEF Gone, DeleteProperties, PropertiesInv, PropertiesTypeOK
<1>4. OneKindOfDetails'
  BY FS_EmptySet DEF OneKindOfDetails, DeleteProperties, PropertiesInv
<1> QED BY <1>1, <1>2, <1>3, <1>4 DEF DeleteProperties

\* What the other services change under the handlers.
LEMMA OrganizationKeeps == ASSUME PropertiesInv, NEW o \in Orgs, OrganizationChanges(o) PROVE PropertiesInv'
<1>1. /\ UNCHANGED <<announced, position, editing, within>> /\ liveOrgs' \subseteq Orgs
      /\ position' \in [Orgs -> [People -> {None, "property_owner", "other"}]]
  BY DEF OrganizationChanges, PropertiesInv, PropertiesTypeOK
<1>2. CASE UNCHANGED <<prop, terms, details, mandate, tx, aside>>
  <2>1. Columns' /\ Gone' /\ OneKindOfDetails'
    BY <1>2 DEF Columns, Gone, PropertiesInv, PropertiesTypeOK, OneKindOfDetails
  <2>2. Transactions'
    BY <1>1, <1>2, TransactionsStay
  <2> QED BY <1>1, <1>2, <2>1, <2>2, PropertiesOthersKeepInv
<1>3. CASE DeleteProperties({p \in Props : Exists(prop[p]) /\ prop[p].org = o})
  <2> DEFINE ps == {p \in Props : Exists(prop[p]) /\ prop[p].org = o}
  <2>1. DeleteProperties(ps) /\ ps \in SUBSET Props
    BY <1>3
  <2> HIDE DEF ps
  <2>2. Transactions'
    BY <1>1, <2>1, Deleted, TransactionsStay
  <2> QED BY <1>1, <2>1, <2>2, Deleted, PropertiesOthersKeepInv
<1> QED BY <1>2, <1>3 DEF OrganizationChanges

LEMMA MembershipKeeps ==
  ASSUME PropertiesInv, NEW o \in Orgs, NEW u \in People, MembershipChanges(o, u)
  PROVE  PropertiesInv'
<1>1. /\ UNCHANGED <<prop, terms, details, mandate, announced, liveOrgs, editing, tx, aside, within>>
      /\ position' \in [Orgs -> [People -> {None, "property_owner", "other"}]]
  BY DEF MembershipChanges, PropertiesInv, PropertiesTypeOK
<1>2. ~ Limited
  BY DEF MembershipChanges, Limited
<1>3. Columns' /\ Gone' /\ OneKindOfDetails' /\ liveOrgs' \subseteq Orgs
  BY <1>1 DEF Columns, Gone, PropertiesInv, PropertiesTypeOK, OneKindOfDetails
<1>4. Transactions'
  BY <1>1, TransactionsStay
<1> QED BY <1>1, <1>2, <1>3, <1>4, PropertiesOthersKeepInv

LEMMA PersonKeeps == ASSUME PropertiesInv, NEW u \in People, PersonDeleted(u) PROVE PropertiesInv'
<1> DEFINE Without(row) == [row EXCEPT !.superOwner = IF @ = u THEN None ELSE @,
                                       !.creator = IF @ = u THEN None ELSE @]
<1>1. /\ UNCHANGED <<details, mandate, announced, liveOrgs, editing, tx, aside, within>>
      /\ prop' = [p \in Props |-> IF prop[p] = None THEN None ELSE Without(prop[p])]
      /\ terms' = [p \in Props |-> [terms[p] EXCEPT ![u] = "none"]]
      /\ position' = [o \in Orgs |-> [position[o] EXCEPT ![u] = None]]
  BY DEF PersonDeleted
<1>2. \A row \in Property :
        /\ Without(row) \in Property /\ Without(row).org = row.org /\ Without(row).published = row.published
        /\ Without(row).life = row.life /\ Without(row).superOwner \in {row.superOwner, None}
        /\ Without(row).creator \in {row.creator, None}
  BY DEF Property, Maybe
<1> HIDE DEF Without
<1>3. \A p \in Props :
        /\ prop'[p] \in Maybe(Property) /\ (prop[p] = None <=> prop'[p] = None)
        /\ prop[p] # None =>
             /\ prop'[p].org = prop[p].org /\ prop'[p].published = prop[p].published
             /\ prop'[p].life = prop[p].life
             /\ prop'[p].superOwner \in {prop[p].superOwner, None} /\ prop'[p].creator \in {prop[p].creator, None}
  BY <1>1, <1>2, PropertiesAssumption DEF PropertiesInv, PropertiesTypeOK, Maybe
<1>4. terms' \in [Props -> Terms]
  BY <1>1 DEF PropertiesInv, PropertiesTypeOK, Terms
<1>5. \A p \in Props : terms[p] = NoOne => terms'[p] = NoOne
  <2>1. [NoOne EXCEPT ![u] = "none"] = NoOne
    BY DEF NoOne
  <2> QED BY <1>1, <2>1
<1>6. Columns'
  <2>1. prop' \in [Props -> Maybe(Property)]
    BY <1>1, <1>3
  <2> QED BY <1>1, <1>4, <2>1 DEF Columns, PropertiesInv, PropertiesTypeOK
<1>7. Gone'
  <2>1. \A p \in Props : Exists(prop'[p]) <=> Exists(prop[p])
    BY <1>3 DEF Exists, IsLive, IsDeleted
  <2> QED BY <1>1, <1>5, <2>1 DEF Gone, PropertiesInv, PropertiesTypeOK, Exists, IsLive, IsDeleted
<1>8. OneKindOfDetails' /\ liveOrgs' \subseteq Orgs
  BY <1>1 DEF OneKindOfDetails, PropertiesInv, PropertiesTypeOK
<1>9. /\ position' \in [Orgs -> [People -> {None, "property_owner", "other"}]]
      /\ \A o \in Orgs, v \in People : position'[o][v] # None => position[o][v] # None
  BY <1>1 DEF PropertiesInv, PropertiesTypeOK
<1>10. Transactions'
  BY <1>1, TransactionsStay
<1> QED BY <1>1, <1>3, <1>6, <1>7, <1>8, <1>9, <1>10, PropertiesOthersKeepInv

\* The first statement of an update changes no table that is read here.
LEMMA LockKeeps == ASSUME PropertiesInv, NEW w \in Workers, LockRow(w) PROVE PropertiesInv'
<1>1. UNCHANGED <<prop, terms, details, mandate, announced, position, liveOrgs, editing, aside, within>>
  BY DEF LockRow
<1>2. Transactions'
  BY TransactionBegins
<1>3. Columns' /\ Gone' /\ OneKindOfDetails' /\ liveOrgs' \subseteq Orgs
  BY <1>1 DEF Columns, Gone, PropertiesInv, PropertiesTypeOK, OneKindOfDetails
<1>4. position' \in [Orgs -> [People -> {None, "property_owner", "other"}]]
  BY <1>1 DEF PropertiesInv, PropertiesTypeOK
<1> QED BY <1>1, <1>2, <1>3, <1>4, PropertiesOthersKeepInv


-----------------------------------------------------------------------------
(* The theorems *)

\* At the start there is nothing, and nobody without an organization is a member of one.
LEMMA InitInv == ASSUME PropertiesInit PROVE PropertiesInv
<1>1. PropertiesTypeOK
  BY NoOneTyped DEF PropertiesInit, PropertiesTypeOK, Maybe
<1>2. OneKindOfDetails
  BY FS_EmptySet DEF PropertiesInit, OneKindOfDetails
<1>3. EditsAreSound
  BY DEF PropertiesInit, EditsAreSound
<1>4. UnownedOutside
  <2>1. \A c \in Callers : c.org = None => c.user \in People
    BY PropertiesAssumption DEF Caller
  <2>2. \A c \in Callers : c.org = None => NotHeldBy(c.user)
    BY <2>1 DEF PropertiesInit, NotHeldBy, MembersOfOrg
  <2> QED BY <2>2 DEF PropertiesInit, UnownedOutside
<1>5. AnnouncedOrDue
  BY DEF PropertiesInit, AnnouncedOrDue
<1>6. ASSUME NEW o \in Orgs, Counts(o)
      PROVE  Cardinality(UsedProperties(o)) + Cardinality(Entering(o)) < Places(o) + Cardinality(Workers)
  <2>1. UsedProperties(o) = {} /\ Entering(o) = {}
    BY DEF PropertiesInit, UsedProperties, Entering, IsLive
  <2>2. Cardinality({}) = 0
    BY FS_EmptySet
  <2> QED BY <1>6, <2>1, <2>2, Finite, PlacesTyped
<1>7. EnteringCounted
  BY <1>6 DEF EnteringCounted
<1>8. Transactions
  BY DEF PropertiesInit, Transactions, OneLock, Maybe
<1> QED BY <1>1, <1>2, <1>3, <1>4, <1>5, <1>7, <1>8 DEF PropertiesInv

\* All begins at once, then every step of Properties.
LEMMA BeginsKeep ==
  ASSUME PropertiesInv, NEW w \in Workers, NEW c \in within.callers, PropertyBegin(w, c)
  PROVE  PropertiesInv'
<1>1. CASE \E b \in within.bodies : CreateBegin(w, c, b) \/ KernelCreateBegin(w, c, b)
  BY <1>1, CreateBeginKeeps, KernelCreateBeginKeeps
<1>2. CASE \E p \in Props, b \in within.bodies : UpdateBegin(w, p, c, b) \/ KernelUpdateBegin(w, p, c, b)
  BY <1>2, UpdateBeginKeeps, KernelUpdateBeginKeeps
<1>3. CASE \E p \in Props, op \in RemovalOps : RemovalBegin(w, op, p, c)
  BY <1>3, RemovalBeginKeeps
<1> QED BY <1>1, <1>2, <1>3 DEF PropertyBegin

LEMMA StepInv == ASSUME PropertiesInv, [PropertiesNext]_propertiesVars PROVE PropertiesInv'
<1>1. CASE UNCHANGED propertiesVars
  <2>1. UNCHANGED <<prop, terms, details, mandate, announced, position, liveOrgs, editing, tx, aside, within>>
    BY <1>1 DEF propertiesVars
  <2>2. /\ PropertiesTypeOK' /\ liveOrgs' \subseteq Orgs
        /\ position' \in [Orgs -> [People -> {None, "property_owner", "other"}]]
    BY <2>1 DEF PropertiesInv, PropertiesTypeOK, Exists, IsLive, IsDeleted
  <2>3. OneKindOfDetails'
    BY <2>1 DEF PropertiesInv, OneKindOfDetails
  <2>4. Columns' /\ Gone'
    BY <2>2 DEF Columns, Gone, PropertiesTypeOK
  <2>5. Transactions'
    BY <2>1, TransactionsStay
  <2> QED BY <2>1, <2>2, <2>3, <2>4, <2>5, PropertiesOthersKeepInv
<1>2. ASSUME NEW w \in Workers, PropertyWrite(w) PROVE PropertiesInv'
  BY <1>2, CreateKeeps, KernelCreateKeeps, LockKeeps, UpdateKeeps, KernelUpdateKeeps, PropertiesRemoveKeeps, KernelRemoveKeeps,
     RestoreKeeps, PropertiesPurgeKeeps, NotifyKeeps, FailsKeeps DEF PropertyWrite
<1>3. ASSUME NEW w \in Workers, NEW c \in within.callers, PropertyBegin(w, c) PROVE PropertiesInv'
  BY <1>3, BeginsKeep
<1>4. ASSUME NEW o \in Orgs, OrganizationChanges(o) PROVE PropertiesInv'
  BY <1>4, OrganizationKeeps
<1>5. ASSUME NEW o \in Orgs, NEW u \in People, MembershipChanges(o, u) PROVE PropertiesInv'
  BY <1>5, MembershipKeeps
<1>6. ASSUME NEW u \in People, PersonDeleted(u) PROVE PropertiesInv'
  BY <1>6, PersonKeeps
<1> QED BY <1>1, <1>2, <1>3, <1>4, <1>5, <1>6 DEF PropertiesNext

\* The properties follow from the invariant.
LEMMA InvSuffices ==
  ASSUME PropertiesInv
  PROVE  PropertiesTypeOK /\ OneKindOfDetails /\ BoundedProperties /\ PublishedIsAnnounced
<1>1. BoundedProperties
  <2> SUFFICES ASSUME NEW o \in Orgs, Limited, Counts(o)
               PROVE  Cardinality(UsedProperties(o)) < Places(o) + Cardinality(Workers)
    BY DEF BoundedProperties, Limited, Counts, Places
  <2>1. Cardinality(UsedProperties(o)) + Cardinality(Entering(o)) < Places(o) + Cardinality(Workers)
    BY DEF PropertiesInv, EnteringCounted
  <2>2. UsedProperties(o) \in SUBSET Props /\ Entering(o) \in SUBSET Workers
    BY DEF UsedProperties, Entering
  <2> QED BY <2>1, <2>2, PlacesTyped, Finite
<1>2. PublishedIsAnnounced
  BY DEF PropertiesInv, AnnouncedOrDue, PublishedIsAnnounced, IsLive
<1> QED BY <1>1, <1>2 DEF PropertiesInv

\* The inductive invariant of the table of properties and of its handlers: what a
\* handler has read and what it will write go together (EditsAreSound), a property of
\* no organization belongs to nobody's members (UnownedOutside), the lock of a property is
\* held by one update and the others run beside it (Transactions), what is published is
\* announced or will be (AnnouncedOrDue), and the handlers that have passed the limit
\* are counted with what is there (EnteringCounted).
THEOREM PropertiesInvariant == PropertiesSpec => []PropertiesInv
<1>1. PropertiesInit => PropertiesInv
  BY InitInv
<1>2. PropertiesInv /\ [PropertiesNext]_propertiesVars => PropertiesInv'
  BY StepInv
<1> QED BY <1>1, <1>2, PTL DEF PropertiesSpec

\* Tables and handlers have their types, and a property that is gone left nothing.
THEOREM PropertiesTypes == PropertiesSpec => []PropertiesTypeOK
<1>1. PropertiesInv => PropertiesTypeOK
  BY InvSuffices
<1> QED BY <1>1, PropertiesInvariant, PTL

\* replacePropertyTypeDetails leaves the details of one kind, whatever two updates of
\* the two services read before each other's writes, unless one of them found no row to
\* lock, because the property was moved to another organization, and they ran side by side.
THEOREM OneKind == PropertiesSpec => []OneKindOfDetails
<1>1. PropertiesInv => OneKindOfDetails
  BY InvSuffices
<1> QED BY <1>1, PropertiesInvariant, PTL

\* Handlers that count at the same moment pass the limit on properties by one each,
\* and by no more, for any number of handlers, organizations and properties.
THEOREM BoundedByHandlers == PropertiesSpec => []BoundedProperties
<1>1. PropertiesInv => BoundedProperties
  BY InvSuffices
<1> QED BY <1>1, PropertiesInvariant, PTL

\* Whatever the order in which handlers read and write, each publication in an
\* organization is announced, or its announcement was attempted, once they are done.
THEOREM Announced == PropertiesSpec => []PublishedIsAnnounced
<1>1. PropertiesInv => PublishedIsAnnounced
  BY InvSuffices
<1> QED BY <1>1, PropertiesInvariant, PTL

-----------------------------------------------------------------------------
(*** MeetingParties ***)

\* The steps of a synchronization after its first read.
SyncSteps == {"space", "event", "record"}

\* What a handler keeps is fit for its next step.
HoldingSound(t) ==
  /\ t.op = "createMeeting" => t.step = "write" /\ "estate" \in DOMAIN t.body
  /\ t.op \notin {"property", "user"}
  /\ t.op # "createMeeting" => t.old \in MeetingRow
  /\ t.op \in {"googleSync", "forceSync"} => t.step # "write"
  /\ t.step \in {"read"} \cup SyncSteps => t.op \in {"schedule", "googleSync", "forceSync"}
  /\ t.step = "event" => t.link # None /\ (t.op # "forceSync" /\ t.old.link # None => t.link = t.old.link)
  /\ t.step = "record" => t.event # None

\* A meeting, or a handler that syncs it, has the event e and the link l.
RowPairs(row, e, l) == row # None /\ row.event = e /\ row.link = l

\* An event and a link a handler is about to write together into a meeting.
HandlerPairs(t, m, e, l) ==
  /\ t # None /\ t.id = m
  /\ \/ t.step \in {"space", "event"} /\ t.old.event = e /\ t.old.link = l
     \/ t.step = "record" /\ t.event = e /\ t.link = l

\* The pairs of a meeting: in its row, or with a handler.
Pairs(m, e, l) == RowPairs(meet[m], e, l) \/ \E w \in Workers : HandlerPairs(holding[w], m, e, l)

\* An event no client wrote is in the calendar, is of one meeting, and invites to
\* the link that goes with it, wherever the two are kept.
EventsOwned ==
  \A e \in CalendarEvents \ claimed, m \in MeetingIds, l \in OrNone(MeetSpaces) :
    Pairs(m, e, l) =>
      /\ calendar[e] # None
      /\ m \notin forced => l # None /\ calendar[e].link = l
      /\ \A n \in MeetingIds, k \in OrNone(MeetSpaces) : Pairs(n, e, k) => n = m

\* The inductive invariant of MeetingParties.
PartiesInv ==
  /\ MeetingPartiesTypeOK /\ meetingScope \in MeetingScopes
  /\ \A w \in Workers : holding[w] # None => HoldingSound(holding[w])
  /\ EventsOwned

-----------------------------------------------------------------------------
(* Rows *)

\* The columns of a meeting, and what each holds.
MeetingColumns == {"estate", "developer", "occupier", "requester", "creator", "status", "dated", "confirmed",
                   "minutes", "event", "link", "life"}

LEMMA RowColumns ==
  ASSUME NEW row \in MeetingRow
  PROVE  DOMAIN row = MeetingColumns
BY DEF MeetingRow, MeetingColumns

\* What a body may name.
LEMMA BodyColumns ==
  ASSUME NEW b \in MeetingBodies
  PROVE  /\ DOMAIN b \subseteq {"estate", "developer", "occupier", "requester", "event", "link"}
         /\ \A f \in DOMAIN b : b[f] \in Column(f)
BY MeetingPartiesAssumption DEF References

\* A body writes the columns it names, and those of Google only then.
LEMMA OverlayRow ==
  ASSUME NEW row \in MeetingRow, NEW b \in MeetingBodies
  PROVE  /\ Overlay(row, b) \in MeetingRow
         /\ Overlay(row, b).event = IF "event" \in DOMAIN b THEN b["event"] ELSE row.event
         /\ Overlay(row, b).link = IF "link" \in DOMAIN b THEN b["link"] ELSE row.link
         /\ Overlay(row, b).life = row.life
BY BodyColumns, RowColumns DEF MeetingRow, Overlay, Column, OrNone, MeetingColumns

\* A user who is gone is named no more.
LEMMA UnnamedRow ==
  ASSUME NEW row \in MeetingRow, NEW u \in Parties
  PROVE  /\ Unnamed(row, u) \in MeetingRow
         /\ Unnamed(row, u).event = row.event /\ Unnamed(row, u).link = row.link
         /\ Unnamed(row, u).life = row.life /\ Unnamed(row, u).estate = row.estate
         /\ \A f \in {"developer", "occupier", "requester", "creator"} :
              Unnamed(row, u)[f] = IF row[f] = u THEN None ELSE row[f]
BY RowColumns DEF MeetingRow, Unnamed, OrNone, MeetingColumns

\* A new meeting has what the body gives it.
LEMMA NewMeetingRow ==
  ASSUME NEW u \in Parties, NEW b \in MeetingBodies, "estate" \in DOMAIN b
  PROVE  LET new == [estate |-> None, developer |-> None, occupier |-> None, requester |-> u,
                     creator |-> u, status |-> "REQUESTED", dated |-> FALSE, confirmed |-> FALSE,
                     minutes |-> FALSE, event |-> None, link |-> None, life |-> "live"]
         IN  /\ Overlay(new, b) \in MeetingRow
             /\ Overlay(new, b).event = IF "event" \in DOMAIN b THEN b["event"] ELSE None
             /\ Overlay(new, b).link = IF "link" \in DOMAIN b THEN b["link"] ELSE None
<1> DEFINE new == [estate |-> None, developer |-> None, occupier |-> None, requester |-> u,
                   creator |-> u, status |-> "REQUESTED", dated |-> FALSE, confirmed |-> FALSE,
                   minutes |-> FALSE, event |-> None, link |-> None, life |-> "live"]
<1>1. DOMAIN new = MeetingColumns
  BY DEF MeetingColumns
<1>2. b["estate"] \in Estates
  BY BodyColumns DEF Column
<1> QED BY <1>1, <1>2, BodyColumns DEF MeetingRow, Overlay, Column, OrNone, MeetingColumns, MeetingStatuses, Lives

\* An endpoint writes a row, with the Google fields as they were, unless the body
\* of an update names them.
LEMMA WrittenRow ==
  ASSUME NEW op, op \in MeetingCalls \ {"createMeeting", "googleSync", "forceSync", "property", "user"},
         NEW row \in MeetingRow, NEW old \in MeetingRow, NEW b \in MeetingBodies
  PROVE  /\ WrittenMeeting(op, row, old, b) \in MeetingRow
         /\ op # "updateMeeting" => /\ WrittenMeeting(op, row, old, b).event = row.event
                                    /\ WrittenMeeting(op, row, old, b).link = row.link
         /\ op = "updateMeeting" => WrittenMeeting(op, row, old, b) = Overlay(row, b)
<1>1. CASE op = "schedule"
  <2>1. Overlay(old, b) \in MeetingRow
    BY OverlayRow
  <2>2. Scheduled(row, old, b) \in MeetingRow /\ Scheduled(row, old, b).event = row.event /\ Scheduled(row, old, b).link = row.link
    BY <2>1 DEF Scheduled, MeetingRow, MeetingStatuses
  <2> QED BY <1>1, <2>2 DEF WrittenMeeting
<1>2. CASE op = "updateMeeting"
  BY <1>2, OverlayRow DEF WrittenMeeting
<1>3. CASE op \in {"removeMeeting", "confirm", "start", "complete"}
  BY <1>3 DEF WrittenMeeting, RemovedMeeting, Confirmed, Started, Completed, MeetingRow, MeetingStatuses, Lives
<1>4. CASE op \in {"cancel", "reject", "publishMom"}
  BY <1>4 DEF WrittenMeeting, Cancelled, Rejected, MomPublished, MeetingRow, MeetingStatuses, Lives
<1> QED BY <1>1, <1>2, <1>3, <1>4 DEF MeetingCalls

-----------------------------------------------------------------------------
(* What a step leaves of the pairs *)

\* Nothing is wrong with events whose pairs were there, but for links of meetings
\* that are excepted now.
LEMMA OldPairsKeep ==
  ASSUME EventsOwned, calendar' = calendar, forced \subseteq forced', claimed \subseteq claimed',
         \A e \in CalendarEvents \ claimed', m \in MeetingIds, l \in OrNone(MeetSpaces) :
           Pairs(m, e, l)' => \E k \in OrNone(MeetSpaces) : Pairs(m, e, k) /\ (m \notin forced' => k = l)
  PROVE  EventsOwned'
<1> SUFFICES ASSUME NEW e \in CalendarEvents \ claimed', NEW m \in MeetingIds, NEW l \in OrNone(MeetSpaces), Pairs(m, e, l)'
             PROVE  /\ calendar'[e] # None
                    /\ m \notin forced' => l # None /\ calendar'[e].link = l
                    /\ \A n \in MeetingIds, k \in OrNone(MeetSpaces) : Pairs(n, e, k)' => n = m
  BY DEF EventsOwned
<1>1. PICK k \in OrNone(MeetSpaces) : Pairs(m, e, k) /\ (m \notin forced' => k = l)
  OBVIOUS
<1>2. e \in CalendarEvents \ claimed
  OBVIOUS
<1>3. /\ calendar[e] # None
      /\ m \notin forced => k # None /\ calendar[e].link = k
      /\ \A n \in MeetingIds, j \in OrNone(MeetSpaces) : Pairs(n, e, j) => n = m
  BY <1>1, <1>2 DEF EventsOwned
<1>4. ASSUME NEW n \in MeetingIds, NEW j \in OrNone(MeetSpaces), Pairs(n, e, j)'
      PROVE  n = m
  BY <1>3, <1>4
<1> QED BY <1>1, <1>3, <1>4

\* The handlers' types, when one of them goes on.
LEMMA HoldTyped ==
  ASSUME PartiesInv, NEW w \in Workers, NEW t \in OrNone(Holding), Hold(w, t), t # None => HoldingSound(t)
  PROVE  /\ holding' \in [Workers -> OrNone(Holding)] /\ holding'[w] = t /\ meetingScope' \in MeetingScopes
         /\ \A v \in Workers : holding'[v] # None => HoldingSound(holding'[v])
         /\ \A v \in Workers \ {w} : holding'[v] = holding[v]
BY DEF PartiesInv, MeetingPartiesTypeOK, Hold

\* Every pair is one there was, when the handler's new one is and the rows stay.
LEMMA HeldKeeps ==
  ASSUME PartiesInv, NEW w \in Workers, NEW t \in OrNone(Holding), Hold(w, t), t # None => HoldingSound(t),
         UNCHANGED <<meetingTables, calendar, byHand>>, spaces' \subseteq MeetSpaces,
         \A m \in MeetingIds, e \in CalendarEvents, l \in OrNone(MeetSpaces) :
           HandlerPairs(t, m, e, l) => Pairs(m, e, l)
  PROVE  PartiesInv'
<1>1. UNCHANGED <<meet, estate, party, calendar, forced, claimed>>
  BY DEF meetingTables, byHand
<1>2. /\ holding' \in [Workers -> OrNone(Holding)] /\ holding'[w] = t /\ meetingScope' \in MeetingScopes
      /\ \A v \in Workers : holding'[v] # None => HoldingSound(holding'[v])
      /\ \A v \in Workers \ {w} : holding'[v] = holding[v]
  BY HoldTyped
<1>3. ASSUME NEW e \in CalendarEvents, NEW m \in MeetingIds, NEW l \in OrNone(MeetSpaces), Pairs(m, e, l)'
      PROVE  Pairs(m, e, l)
  <2>1. RowPairs(meet[m], e, l) \/ \E v \in Workers : HandlerPairs(holding'[v], m, e, l)
    BY <1>1, <1>3 DEF Pairs, RowPairs, HandlerPairs
  <2>2. ASSUME NEW v \in Workers, HandlerPairs(holding'[v], m, e, l)
        PROVE  Pairs(m, e, l)
    <3>1. CASE v = w
      BY <1>2, <2>2, <3>1
    <3>2. CASE v # w
      BY <1>2, <2>2, <3>2 DEF Pairs
    <3> QED BY <3>1, <3>2
  <2> QED BY <2>1, <2>2 DEF Pairs
<1>4. EventsOwned'
  BY <1>1, <1>3, OldPairsKeep DEF PartiesInv
<1>5. MeetingPartiesTypeOK'
  BY <1>1, <1>2 DEF PartiesInv, MeetingPartiesTypeOK, NamesAreKept, Exists, IsLive, IsDeleted
<1>6. (\A v \in Workers : holding[v] # None => HoldingSound(holding[v]))'
  BY <1>2 DEF HoldingSound
<1> QED BY <1>2, <1>4, <1>5, <1>6 DEF PartiesInv

-----------------------------------------------------------------------------
(* The endpoints *)

\* A handler that stops, and one that begins, write no table.
LEMMA MeetingAbandonKeeps ==
  ASSUME PartiesInv, NEW w \in Workers, AbandonMeeting(w)
  PROVE  PartiesInv'
<1>1. Hold(w, None) /\ UNCHANGED <<meetingTables, calendar, byHand>> /\ spaces' = spaces
  BY DEF AbandonMeeting, Drop, google
<1>2. spaces' \subseteq MeetSpaces
  BY <1>1 DEF PartiesInv, MeetingPartiesTypeOK
<1> QED BY <1>1, <1>2, HeldKeeps DEF OrNone, HandlerPairs

\* What a handler keeps of a new request.
LEMMA NewHoldingType ==
  ASSUME PartiesInv, NEW op \in MeetingCalls, NEW m \in MeetingIds, NEW c \in MeetingCallers, NEW b \in MeetingBodies
  PROVE  /\ NewHolding(op, m, c, b) \in Holding
         /\ NewHolding(op, m, c, b).op = op /\ NewHolding(op, m, c, b).step = "write"
         /\ NewHolding(op, m, c, b).old = meet[m] /\ NewHolding(op, m, c, b).body = b
         /\ [NewHolding(op, m, c, b) EXCEPT !.step = "read"] \in Holding
         /\ [NewHolding(op, m, c, b) EXCEPT !.step = "read"].op = op
         /\ [NewHolding(op, m, c, b) EXCEPT !.step = "read"].step = "read"
         /\ [NewHolding(op, m, c, b) EXCEPT !.step = "read"].old = meet[m]
<1>1. meet[m] \in OrNone(MeetingRow)
  BY DEF PartiesInv, MeetingPartiesTypeOK
<1> QED BY <1>1 DEF NewHolding, Holding, OrNone

LEMMA MeetingBeginKeeps ==
  ASSUME PartiesInv, NEW w \in Workers, NEW op \in MeetingCalls, NEW m \in MeetingIds, NEW c \in MeetingCallers,
         NEW b \in MeetingBodies, MeetingBegin(w, op, m, c, b)
  PROVE  PartiesInv'
<1> DEFINE t == IF op \in {"googleSync", "forceSync"}
                THEN [NewHolding(op, m, c, b) EXCEPT !.step = "read"] ELSE NewHolding(op, m, c, b)
<1>1. /\ Hold(w, t) /\ op \notin {"createMeeting", "property", "user"} /\ meet[m] # None
      /\ UNCHANGED <<meetingTables, calendar, byHand>> /\ spaces' = spaces
  BY DEF MeetingBegin, google, ReachesMeeting, FindMeeting, IsLive
<1>2. meet[m] \in MeetingRow
  BY <1>1 DEF PartiesInv, MeetingPartiesTypeOK, OrNone
<1>3. t \in Holding /\ t.op = op /\ t.old = meet[m] /\ t.step = IF op \in {"googleSync", "forceSync"} THEN "read" ELSE "write"
  BY NewHoldingType
<1> HIDE DEF t
<1>4. HoldingSound(t)
  BY <1>1, <1>2, <1>3 DEF HoldingSound, SyncSteps
<1>5. spaces' \subseteq MeetSpaces /\ t \in OrNone(Holding)
  BY <1>1, <1>3 DEF PartiesInv, MeetingPartiesTypeOK, OrNone
<1>6. \A n \in MeetingIds, e \in CalendarEvents, l \in OrNone(MeetSpaces) : HandlerPairs(t, n, e, l) => Pairs(n, e, l)
  BY <1>3 DEF HandlerPairs
<1> QED BY <1>1, <1>4, <1>5, <1>6, HeldKeeps

\* The handlers of meetings, one at a time.
LEMMA CreateMeetingBeginKeeps ==
  ASSUME PartiesInv, NEW w \in Workers, NEW m \in MeetingIds, NEW c \in MeetingCallers,
         NEW b \in MeetingBodies, CreateMeetingBegin(w, m, c, b)
  PROVE  PartiesInv'
<1> PICK op \in MeetingCalls : op = "createMeeting"
  BY DEF MeetingCalls
<1> DEFINE t == NewHolding(op, m, c, b)
<1>1. /\ Hold(w, t) /\ "estate" \in DOMAIN b
      /\ UNCHANGED <<meetingTables, calendar, byHand>> /\ spaces' = spaces
  BY DEF CreateMeetingBegin, google
<1>2. t \in Holding /\ t.op = op /\ t.step = "write" /\ t.body = b
  <2>1. t \in Holding
    BY NewHoldingType
  <2>2. t.op = op /\ t.step = "write" /\ t.body = b
    BY DEF NewHolding
  <2> QED BY <2>1, <2>2
<1> HIDE DEF t
<1>3. HoldingSound(t)
  BY <1>1, <1>2 DEF HoldingSound, SyncSteps
<1>4. spaces' \subseteq MeetSpaces /\ t \in OrNone(Holding)
  BY <1>1, <1>2 DEF PartiesInv, MeetingPartiesTypeOK, OrNone
<1>5. \A n \in MeetingIds, e \in CalendarEvents, l \in OrNone(MeetSpaces) : HandlerPairs(t, n, e, l) => Pairs(n, e, l)
  BY <1>2 DEF HandlerPairs
<1> QED BY <1>1, <1>3, <1>4, <1>5, HeldKeeps

\* The row is as it is read.
LEMMA ReadForSyncKeeps ==
  ASSUME PartiesInv, NEW w \in Workers, ReadForSync(w)
  PROVE  PartiesInv'
<1> DEFINE t == holding[w]
           next == [t EXCEPT !.step = "space", !.old = meet[t.id], !.attendees = Invited(meet[t.id])]
<1>1. /\ t # None /\ t.step = "read" /\ meet[t.id] # None /\ Hold(w, next)
      /\ UNCHANGED <<meetingTables, calendar, byHand>> /\ spaces' = spaces
  BY DEF ReadForSync, HoldsAt, google, IsLive
<1>2. t \in Holding /\ HoldingSound(t)
  BY <1>1 DEF PartiesInv, MeetingPartiesTypeOK, OrNone
<1>3. t.id \in MeetingIds /\ Invited(meet[t.id]) \subseteq Parties
  BY <1>2 DEF Holding, Invited
<1>4. meet[t.id] \in MeetingRow
  BY <1>1, <1>3 DEF PartiesInv, MeetingPartiesTypeOK, OrNone
<1>5. next \in Holding /\ next.op = t.op /\ next.step = "space" /\ next.old = meet[t.id] /\ next.id = t.id
  BY <1>2, <1>3, <1>4 DEF Holding, OrNone
<1> HIDE DEF next
<1>6. HoldingSound(next)
  BY <1>1, <1>2, <1>4, <1>5 DEF HoldingSound, SyncSteps
<1>7. spaces' \subseteq MeetSpaces /\ next \in OrNone(Holding)
  BY <1>1, <1>5 DEF PartiesInv, MeetingPartiesTypeOK, OrNone
<1>8. \A n \in MeetingIds, e \in CalendarEvents, l \in OrNone(MeetSpaces) : HandlerPairs(next, n, e, l) => Pairs(n, e, l)
  BY <1>1, <1>5 DEF HandlerPairs, Pairs, RowPairs
<1> QED BY <1>1, <1>6, <1>7, <1>8, HeldKeeps

\* The link is new, or the one that was read.
LEMMA MeetSpaceKeeps ==
  ASSUME PartiesInv, NEW w \in Workers, MeetSpace(w)
  PROVE  PartiesInv'
<1> DEFINE t == holding[w]
           next(l) == [t EXCEPT !.step = "event", !.link = l]
<1>1. /\ t # None /\ t.step = "space" /\ UNCHANGED <<meetingTables, calendar, byHand>>
  BY DEF MeetSpace, HoldsAt
<1>2. PICK l \in OrNone(MeetSpaces) :
        /\ Hold(w, next(l)) /\ spaces' \subseteq spaces \cup MeetSpaces
        /\ l # None /\ (t.op # "forceSync" /\ t.old.link # None => l = t.old.link)
  <2>1. t \in Holding /\ HoldingSound(t)
    BY <1>1 DEF PartiesInv, MeetingPartiesTypeOK, OrNone
  <2>2. t.old \in MeetingRow
    BY <1>1, <2>1 DEF HoldingSound, SyncSteps
  <2>3. CASE NeedsSpace(t)
    <3>1. PICK l \in MeetSpaces : spaces' = spaces \cup {l} /\ Hold(w, next(l))
      BY <2>3 DEF MeetSpace
    <3>2. t.old.link = None \/ t.op = "forceSync"
      BY <2>3 DEF NeedsSpace
    <3>3. l # None
      BY MeetingPartiesAssumption
    <3>4. /\ l \in OrNone(MeetSpaces) /\ Hold(w, next(l)) /\ spaces' \subseteq spaces \cup MeetSpaces
          /\ l # None /\ (t.op # "forceSync" /\ t.old.link # None => l = t.old.link)
      BY <3>1, <3>2, <3>3 DEF OrNone
    <3> HIDE DEF next
    <3> QED BY <3>4
  <2>4. CASE ~ NeedsSpace(t)
    <3>1. Hold(w, next(t.old.link)) /\ spaces' = spaces
      BY <2>4 DEF MeetSpace
    <3>2. t.old.link # None /\ t.old.link \in OrNone(MeetSpaces)
      BY <2>2, <2>4 DEF NeedsSpace, MeetingRow
    <3> QED BY <3>1, <3>2
  <2> QED BY <2>3, <2>4
<1>3. t \in Holding /\ HoldingSound(t)
  BY <1>1 DEF PartiesInv, MeetingPartiesTypeOK, OrNone
<1>4. /\ next(l) \in Holding /\ next(l).op = t.op /\ next(l).step = "event" /\ next(l).old = t.old /\ next(l).id = t.id
      /\ next(l).link = l
  BY <1>3 DEF Holding, OrNone
<1> HIDE DEF next
<1>5. HoldingSound(next(l))
  BY <1>1, <1>2, <1>3, <1>4 DEF HoldingSound, SyncSteps
<1>6. spaces' \subseteq MeetSpaces /\ next(l) \in OrNone(Holding)
  BY <1>2, <1>4 DEF PartiesInv, MeetingPartiesTypeOK, OrNone
<1>7. \A n \in MeetingIds, e \in CalendarEvents, k \in OrNone(MeetSpaces) : HandlerPairs(next(l), n, e, k) => Pairs(n, e, k)
  BY <1>1, <1>4 DEF HandlerPairs, Pairs
<1> QED BY <1>1, <1>2, <1>5, <1>6, <1>7, HeldKeeps

-----------------------------------------------------------------------------
(* The event, and the record *)

\* An event that is created is nobody's yet; one that is changed is the meeting's
\* own, and keeps its link unless the sync is forced.
LEMMA PartiesUpsertKeeps ==
  ASSUME PartiesInv, NEW w \in Workers, UpsertCalendarEvent(w)
  PROVE  PartiesInv'
<1> DEFINE t == holding[w]
           entry == [calendar |-> t.by.user, link |-> t.link, attendees |-> t.attendees]
           next(e) == [t EXCEPT !.step = "record", !.event = e]
<1>1. /\ t # None /\ t.step = "event" /\ UNCHANGED <<meet, estate, party, spaces, claimed>>
      /\ forced' = IF t.op = "forceSync" THEN forced \cup {t.id} ELSE forced
  BY DEF UpsertCalendarEvent, HoldsAt, meetingTables
<1>2. PICK e \in CalendarEvents :
        /\ t.old.event = None => calendar[e] = None
        /\ t.old.event # None => e = t.old.event
        /\ calendar' = [calendar EXCEPT ![e] = entry]
        /\ Hold(w, next(e))
  BY DEF UpsertCalendarEvent
<1>3. t \in Holding /\ HoldingSound(t)
  BY <1>1 DEF PartiesInv, MeetingPartiesTypeOK, OrNone
<1>4. /\ t.id \in MeetingIds /\ t.link \in OrNone(MeetSpaces) /\ t.old \in MeetingRow
      /\ t.op \in MeetingCalls /\ t.by \in MeetingCallers /\ t.attendees \subseteq Parties
  BY <1>1, <1>3 DEF Holding, HoldingSound, SyncSteps
<1>5. /\ next(e) \in Holding /\ next(e).op = t.op /\ next(e).step = "record" /\ next(e).old = t.old /\ next(e).id = t.id
      /\ next(e).link = t.link /\ next(e).event = e /\ e # None
  BY <1>3, MeetingPartiesAssumption DEF Holding, OrNone
<1> HIDE DEF next
<1>6. HoldingSound(next(e)) /\ next(e) \in OrNone(Holding)
  BY <1>1, <1>3, <1>5 DEF HoldingSound, SyncSteps, OrNone
<1>7. /\ holding' \in [Workers -> OrNone(Holding)] /\ holding'[w] = next(e) /\ meetingScope' \in MeetingScopes
      /\ \A v \in Workers : holding'[v] # None => HoldingSound(holding'[v])
      /\ \A v \in Workers \ {w} : holding'[v] = holding[v]
  BY <1>2, <1>6, HoldTyped
<1>8. /\ calendar' \in [CalendarEvents -> OrNone(CalendarEvent)] /\ calendar'[e] = entry /\ calendar'[e] # None
      /\ calendar'[e].link = t.link
      /\ \A f \in CalendarEvents \ {e} : calendar'[f] = calendar[f]
  <2>1. entry \in CalendarEvent
    <3>1. t.by.user \in Parties
      BY <1>4, MeetingPartiesAssumption DEF MeetingCaller
    <3>2. t.link \in MeetSpaces
      BY <1>1, <1>3, <1>4 DEF HoldingSound, OrNone
    <3> QED BY <1>4, <3>1, <3>2 DEF CalendarEvent
  <2>2. entry # None
    BY <2>1, MeetingPartiesAssumption
  <2> QED BY <1>2, <2>1, <2>2 DEF PartiesInv, MeetingPartiesTypeOK, OrNone
<1>9. /\ forced \subseteq forced' /\ forced' \subseteq MeetingIds /\ claimed' = claimed
      /\ t.id \notin forced' => t.op # "forceSync"
  BY <1>1, <1>4 DEF PartiesInv, MeetingPartiesTypeOK
<1>10. ASSUME NEW m \in MeetingIds, NEW f \in CalendarEvents, NEW l \in OrNone(MeetSpaces), Pairs(m, f, l)'
       PROVE  Pairs(m, f, l) \/ (m = t.id /\ f = e /\ l = t.link)
  <2>1. RowPairs(meet[m], f, l) \/ \E v \in Workers : HandlerPairs(holding'[v], m, f, l)
    BY <1>1, <1>10 DEF Pairs, RowPairs, HandlerPairs
  <2>2. ASSUME NEW v \in Workers, HandlerPairs(holding'[v], m, f, l)
        PROVE  Pairs(m, f, l) \/ (m = t.id /\ f = e /\ l = t.link)
    <3>1. CASE v = w
      BY <1>5, <1>7, <2>2, <3>1 DEF HandlerPairs
    <3>2. CASE v # w
      BY <1>7, <2>2, <3>2 DEF Pairs
    <3> QED BY <3>1, <3>2
  <2> QED BY <2>1, <2>2 DEF Pairs
<1>11. t.old.event # None => Pairs(t.id, e, t.old.link) /\ t.old.link \in OrNone(MeetSpaces)
  BY <1>1, <1>2, <1>4 DEF Pairs, HandlerPairs, MeetingRow
<1>12. ASSUME e \notin claimed, NEW m \in MeetingIds, NEW l \in OrNone(MeetSpaces), Pairs(m, e, l)
       PROVE  m = t.id /\ (m \notin forced' => l = t.link)
  <2>1. calendar[e] # None /\ (m \notin forced => l # None /\ calendar[e].link = l)
    BY <1>12 DEF PartiesInv, EventsOwned
  <2>2. t.old.event # None
    BY <1>2, <2>1
  <2>3. m = t.id
    BY <1>4, <1>11, <1>12, <2>2 DEF PartiesInv, EventsOwned
  <2>4. ASSUME m \notin forced'
        PROVE  l = t.link
    <3>1. t.id \notin forced /\ t.op # "forceSync"
      BY <1>9, <2>3, <2>4
    <3>2. t.old.link # None /\ calendar[e].link = t.old.link
      BY <1>4, <1>11, <1>12, <2>2, <3>1 DEF PartiesInv, EventsOwned
    <3>3. t.link = t.old.link
      BY <1>1, <1>3, <3>1, <3>2 DEF HoldingSound
    <3> QED BY <2>1, <2>3, <3>1, <3>2, <3>3
  <2> QED BY <2>3, <2>4
<1>13. EventsOwned'
  <2> SUFFICES ASSUME NEW f \in CalendarEvents \ claimed, NEW m \in MeetingIds, NEW l \in OrNone(MeetSpaces), Pairs(m, f, l)'
               PROVE  /\ calendar'[f] # None
                      /\ m \notin forced' => l # None /\ calendar'[f].link = l
                      /\ \A n \in MeetingIds, k \in OrNone(MeetSpaces) : Pairs(n, f, k)' => n = m
    BY <1>9 DEF EventsOwned
  <2>1. CASE f # e
    <3>1. Pairs(m, f, l) /\ \A n \in MeetingIds, k \in OrNone(MeetSpaces) : Pairs(n, f, k)' => Pairs(n, f, k)
      BY <1>10, <2>1
    <3>2. /\ calendar[f] # None
          /\ m \notin forced => l # None /\ calendar[f].link = l
          /\ \A n \in MeetingIds, k \in OrNone(MeetSpaces) : Pairs(n, f, k) => n = m
      BY <3>1 DEF PartiesInv, EventsOwned
    <3> QED BY <1>8, <1>9, <2>1, <3>1, <3>2
  <2>2. CASE f = e
    <3>1. \A n \in MeetingIds, k \in OrNone(MeetSpaces) : Pairs(n, e, k)' => n = t.id /\ (n \notin forced' => k = t.link)
      BY <1>10, <1>12, <2>2
    <3>2. m \notin forced' => t.link # None
      BY <1>1, <1>3, <1>9, <2>2, <3>1 DEF HoldingSound
    <3> QED BY <1>8, <2>2, <3>1, <3>2
  <2> QED BY <2>1, <2>2
<1>14. MeetingPartiesTypeOK'
  BY <1>1, <1>7, <1>8, <1>9 DEF PartiesInv, MeetingPartiesTypeOK, NamesAreKept, Exists, IsLive, IsDeleted
<1>15. (\A v \in Workers : holding[v] # None => HoldingSound(holding[v]))'
  BY <1>7 DEF HoldingSound
<1> QED BY <1>7, <1>13, <1>14, <1>15 DEF PartiesInv

\* Rows that change, and handlers that go on with what they kept.
LEMMA RowsKeep ==
  ASSUME PartiesInv, meet' \in [MeetingIds -> OrNone(MeetingRow)],
         estate' \in [Estates -> [org : MeetingOrgs, life : Lives]], party' \in [Parties -> Lives],
         UNCHANGED <<calendar, spaces, meetingScope>>,
         forced \subseteq forced', forced' \subseteq MeetingIds, claimed \subseteq claimed', claimed' \subseteq CalendarEvents,
         holding' \in [Workers -> OrNone(Holding)],
         \A w \in Workers : holding'[w] # None => HoldingSound(holding'[w]),
         \A m \in MeetingIds : Exists(meet'[m]) => NamesAreKept(meet[m])',
         \A w \in Workers, m \in MeetingIds, e \in CalendarEvents, l \in OrNone(MeetSpaces) :
           HandlerPairs(holding'[w], m, e, l) => Pairs(m, e, l),
         \A m \in MeetingIds, e \in CalendarEvents \ claimed', l \in OrNone(MeetSpaces) :
           RowPairs(meet'[m], e, l) => \E k \in OrNone(MeetSpaces) : Pairs(m, e, k) /\ (m \notin forced' => k = l)
  PROVE  PartiesInv'
<1>1. ASSUME NEW e \in CalendarEvents \ claimed', NEW m \in MeetingIds, NEW l \in OrNone(MeetSpaces), Pairs(m, e, l)'
      PROVE  \E k \in OrNone(MeetSpaces) : Pairs(m, e, k) /\ (m \notin forced' => k = l)
  <2>1. RowPairs(meet'[m], e, l) \/ \E w \in Workers : HandlerPairs(holding'[w], m, e, l)
    BY <1>1 DEF Pairs, RowPairs, HandlerPairs
  <2> QED BY <1>1, <2>1
<1>2. EventsOwned'
  BY <1>1, OldPairsKeep DEF PartiesInv
<1>3. MeetingPartiesTypeOK'
  BY DEF PartiesInv, MeetingPartiesTypeOK, Exists, IsLive, IsDeleted
<1>4. (\A w \in Workers : holding[w] # None => HoldingSound(holding[w]))'
  BY DEF HoldingSound
<1> QED BY <1>2, <1>3, <1>4 DEF PartiesInv

\* The row takes the event and the link of its handler.
LEMMA RecordSyncKeeps ==
  ASSUME PartiesInv, NEW w \in Workers, RecordSync(w)
  PROVE  PartiesInv'
<1> DEFINE t == holding[w]
<1>1. /\ t # None /\ t.step = "record" /\ Hold(w, None) /\ UNCHANGED <<estate, party, calendar, spaces, forced, claimed>>
      /\ meet' = IF Exists(meet[t.id]) THEN [meet EXCEPT ![t.id].event = t.event, ![t.id].link = t.link] ELSE meet
  BY DEF RecordSync, HoldsAt, Drop, google, byHand
<1>2. t \in Holding
  BY <1>1 DEF PartiesInv, MeetingPartiesTypeOK, OrNone
<1>3. t.id \in MeetingIds /\ t.event \in OrNone(CalendarEvents) /\ t.link \in OrNone(MeetSpaces)
  BY <1>2 DEF Holding
<1>4. /\ meet \in [MeetingIds -> OrNone(MeetingRow)] /\ estate \in [Estates -> [org : MeetingOrgs, life : Lives]]
      /\ party \in [Parties -> Lives] /\ forced \subseteq MeetingIds /\ claimed \subseteq CalendarEvents
      /\ \A m \in MeetingIds : Exists(meet[m]) => NamesAreKept(meet[m])
  BY DEF PartiesInv, MeetingPartiesTypeOK
<1>5. /\ holding' \in [Workers -> OrNone(Holding)] /\ meetingScope' = meetingScope
      /\ \A v \in Workers : holding'[v] # None => HoldingSound(holding'[v])
      /\ holding'[w] = None /\ \A v \in Workers \ {w} : holding'[v] = holding[v]
  BY <1>1, HoldTyped DEF OrNone, Hold
<1>6. \A v \in Workers, m \in MeetingIds, e \in CalendarEvents, l \in OrNone(MeetSpaces) :
        HandlerPairs(holding'[v], m, e, l) => Pairs(m, e, l)
  BY <1>5 DEF Pairs, HandlerPairs
<1>7. ASSUME NEW m \in MeetingIds
      PROVE  /\ meet'[m] \in OrNone(MeetingRow) /\ (Exists(meet'[m]) => NamesAreKept(meet[m])')
             /\ \A e \in CalendarEvents, l \in OrNone(MeetSpaces) : RowPairs(meet'[m], e, l) => Pairs(m, e, l)
  <2>1. CASE m = t.id /\ Exists(meet[m])
    <3> DEFINE row == [meet[m] EXCEPT !.event = t.event, !.link = t.link]
    <3>1. meet[m] \in MeetingRow
      BY <1>4, <2>1 DEF Exists, IsLive, IsDeleted, OrNone
    <3>2. meet'[m] = row
      BY <1>1, <1>4, <2>1
    <3>3. /\ row \in MeetingRow /\ row.event = t.event /\ row.link = t.link /\ row.estate = meet[m].estate
          /\ \A f \in {"developer", "occupier", "requester", "creator"} : row[f] = meet[m][f]
      BY <1>3, <3>1 DEF MeetingRow
    <3> HIDE DEF row
    <3>4. NamesAreKept(meet[m])'
      BY <1>1, <1>4, <2>1, <3>2, <3>3 DEF NamesAreKept
    <3>5. \A e \in CalendarEvents, l \in OrNone(MeetSpaces) : RowPairs(row, e, l) => HandlerPairs(t, m, e, l)
      BY <1>1, <2>1, <3>3 DEF RowPairs, HandlerPairs
    <3> QED BY <3>2, <3>3, <3>4, <3>5 DEF OrNone, Pairs
  <2>2. CASE ~ (m = t.id /\ Exists(meet[m]))
    <3>1. meet'[m] = meet[m]
      BY <1>1, <1>3, <1>4, <2>2
    <3>2. Exists(meet'[m]) => NamesAreKept(meet[m])'
      BY <1>1, <1>4, <3>1 DEF NamesAreKept
    <3> QED BY <1>4, <3>1, <3>2 DEF Pairs
  <2> QED BY <2>1, <2>2
<1>8. meet' \in [MeetingIds -> OrNone(MeetingRow)]
  BY <1>1, <1>3, <1>4, <1>7
<1> QED BY <1>1, <1>4, <1>5, <1>6, <1>7, <1>8, RowsKeep

\* A client that writes the Google fields excepts the meeting, or the event.
LEMMA ByHand ==
  ASSUME PartiesInv, NEW t \in Holding, WroteByHand(t)
  PROVE  /\ forced \subseteq forced' /\ forced' \subseteq MeetingIds
         /\ claimed \subseteq claimed' /\ claimed' \subseteq CalendarEvents
         /\ "link" \in DOMAIN t.body \/ "event" \in DOMAIN t.body => t.id \in forced'
         /\ "event" \in DOMAIN t.body => t.body["event"] \in claimed' \cup {None}
<1>1. t.id \in MeetingIds /\ t.body \in MeetingBodies
  BY DEF Holding
<1>2. "event" \in DOMAIN t.body => t.body["event"] \in CalendarEvents \cup {None}
  BY <1>1, BodyColumns DEF Column, OrNone
<1>3. forced \subseteq MeetingIds /\ claimed \subseteq CalendarEvents
  BY DEF PartiesInv, MeetingPartiesTypeOK
<1> QED BY <1>1, <1>2, <1>3 DEF WroteByHand

\* A new meeting has the fields its body gives it.
LEMMA CreateMeetingKeeps ==
  ASSUME PartiesInv, NEW w \in Workers, CreateMeeting(w)
  PROVE  PartiesInv'
<1> DEFINE t == holding[w]
           new == [estate |-> None, developer |-> None, occupier |-> None, requester |-> t.by.user,
                   creator |-> t.by.user, status |-> "REQUESTED", dated |-> FALSE, confirmed |-> FALSE,
                   minutes |-> FALSE, event |-> None, link |-> None, life |-> "live"]
           row == Overlay(new, t.body)
<1>1. /\ t # None /\ t.step = "write" /\ t.op = "createMeeting" /\ Hold(w, None) /\ WroteByHand(t)
      /\ UNCHANGED <<estate, party, calendar, spaces>> /\ NamesAreKept(row)
      /\ meet' = [meet EXCEPT ![t.id] = row]
  BY DEF CreateMeeting, HoldsAt, Drop, google
<1>2. t \in Holding /\ HoldingSound(t)
  BY <1>1 DEF PartiesInv, MeetingPartiesTypeOK, OrNone
<1>3. t.id \in MeetingIds /\ t.by.user \in Parties /\ t.body \in MeetingBodies /\ "estate" \in DOMAIN t.body
  BY <1>1, <1>2, MeetingPartiesAssumption DEF Holding, MeetingCaller, HoldingSound
<1>4. /\ meet \in [MeetingIds -> OrNone(MeetingRow)] /\ estate \in [Estates -> [org : MeetingOrgs, life : Lives]]
      /\ party \in [Parties -> Lives]
      /\ \A m \in MeetingIds : Exists(meet[m]) => NamesAreKept(meet[m])
  BY DEF PartiesInv, MeetingPartiesTypeOK
<1>5. /\ holding' \in [Workers -> OrNone(Holding)] /\ meetingScope' = meetingScope
      /\ \A v \in Workers : holding'[v] # None => HoldingSound(holding'[v])
      /\ holding'[w] = None /\ \A v \in Workers \ {w} : holding'[v] = holding[v]
  BY <1>1, HoldTyped DEF OrNone, Hold
<1>6. \A v \in Workers, m \in MeetingIds, e \in CalendarEvents, l \in OrNone(MeetSpaces) :
        HandlerPairs(holding'[v], m, e, l) => Pairs(m, e, l)
  BY <1>5 DEF Pairs, HandlerPairs
<1>7. /\ row \in MeetingRow
      /\ row.event = IF "event" \in DOMAIN t.body THEN t.body["event"] ELSE None
  BY <1>3, NewMeetingRow
<1> HIDE DEF row
<1>8. /\ forced \subseteq forced' /\ forced' \subseteq MeetingIds
      /\ claimed \subseteq claimed' /\ claimed' \subseteq CalendarEvents
      /\ "event" \in DOMAIN t.body => t.body["event"] \in claimed' \cup {None}
  BY <1>1, <1>2, ByHand
<1>9. ASSUME NEW m \in MeetingIds
      PROVE  /\ meet'[m] \in OrNone(MeetingRow) /\ (Exists(meet'[m]) => NamesAreKept(meet[m])')
             /\ \A e \in CalendarEvents \ claimed', l \in OrNone(MeetSpaces) : RowPairs(meet'[m], e, l) => Pairs(m, e, l)
  <2>1. CASE m = t.id
    <3>1. meet'[m] = row
      BY <1>1, <1>4, <2>1
    <3>2. row.event \in claimed' \cup {None}
      BY <1>7, <1>8
    <3>3. NamesAreKept(meet[m])'
      BY <1>1, <3>1 DEF NamesAreKept
    <3> QED BY <1>7, <3>1, <3>2, <3>3, MeetingPartiesAssumption DEF OrNone, RowPairs
  <2>2. CASE m # t.id
    <3>1. meet'[m] = meet[m]
      BY <1>1, <1>3, <1>4, <2>2
    <3>2. Exists(meet'[m]) => NamesAreKept(meet[m])'
      BY <1>1, <1>4, <3>1 DEF NamesAreKept
    <3> QED BY <1>4, <3>1, <3>2 DEF Pairs
  <2> QED BY <2>1, <2>2
<1>10. meet' \in [MeetingIds -> OrNone(MeetingRow)]
  BY <1>1, <1>3, <1>4, <1>9
<1> QED BY <1>1, <1>4, <1>5, <1>6, <1>8, <1>9, <1>10, RowsKeep

\* Whichever columns an endpoint writes, the names are checked by the table, and
\* a link that is not the meeting's event's was written by the client.
LEMMA WriteMeetingKeeps ==
  ASSUME PartiesInv, NEW w \in Workers, WriteMeeting(w)
  PROVE  PartiesInv'
<1> DEFINE t == holding[w]
           row == WrittenMeeting(t.op, meet[t.id], t.old, t.body)
           next == [t EXCEPT !.step = "read"]
<1>1. /\ t # None /\ t.step = "write" /\ t.op # "createMeeting"
      /\ UNCHANGED <<estate, party, calendar, spaces>> /\ Exists(meet[t.id]) /\ NamesAreKept(row)
      /\ meet' = [meet EXCEPT ![t.id] = row]
      /\ IF t.op = "updateMeeting" THEN WroteByHand(t) ELSE UNCHANGED <<forced, claimed>>
  BY DEF WriteMeeting, HoldsAt, google, byHand
<1>2. t \in Holding /\ HoldingSound(t)
  BY <1>1 DEF PartiesInv, MeetingPartiesTypeOK, OrNone
<1>3. /\ t.id \in MeetingIds /\ t.body \in MeetingBodies /\ t.old \in MeetingRow
      /\ t.op \in MeetingCalls \ {"createMeeting", "googleSync", "forceSync", "property", "user"}
  BY <1>1, <1>2 DEF Holding, HoldingSound
<1>4. /\ meet \in [MeetingIds -> OrNone(MeetingRow)] /\ estate \in [Estates -> [org : MeetingOrgs, life : Lives]]
      /\ party \in [Parties -> Lives]
      /\ \A m \in MeetingIds : Exists(meet[m]) => NamesAreKept(meet[m])
  BY DEF PartiesInv, MeetingPartiesTypeOK
<1>5. PICK k \in OrNone(Holding) : Hold(w, k) /\ (k # None => k = next /\ t.op = "schedule")
  <2>1. next \in Holding
    BY <1>2 DEF Holding
  <2> QED BY <2>1 DEF WriteMeeting, Drop, OrNone
<1>6. k # None => HoldingSound(k) /\ k.step = "read"
  <2>1. next.step = "read" /\ next.op = t.op /\ next.old = t.old
    BY <1>2 DEF Holding
  <2> HIDE DEF next
  <2> QED BY <1>3, <1>5, <2>1 DEF HoldingSound, SyncSteps
<1> HIDE DEF next
<1>7. /\ holding' \in [Workers -> OrNone(Holding)] /\ meetingScope' = meetingScope
      /\ \A v \in Workers : holding'[v] # None => HoldingSound(holding'[v])
      /\ holding'[w] = k /\ \A v \in Workers \ {w} : holding'[v] = holding[v]
  BY <1>5, <1>6, HoldTyped DEF Hold
<1>8. \A v \in Workers, m \in MeetingIds, e \in CalendarEvents, l \in OrNone(MeetSpaces) :
        HandlerPairs(holding'[v], m, e, l) => Pairs(m, e, l)
  BY <1>6, <1>7 DEF Pairs, HandlerPairs
<1>9. meet[t.id] \in MeetingRow
  BY <1>1, <1>3, <1>4 DEF Exists, IsLive, IsDeleted, OrNone
<1>10. /\ row \in MeetingRow
       /\ t.op # "updateMeeting" => row.event = meet[t.id].event /\ row.link = meet[t.id].link
       /\ t.op = "updateMeeting" => row = Overlay(meet[t.id], t.body)
  BY <1>3, <1>9, WrittenRow
<1> HIDE DEF row
<1>11. t.op = "updateMeeting" =>
         /\ row.event = IF "event" \in DOMAIN t.body THEN t.body["event"] ELSE meet[t.id].event
         /\ row.link = IF "link" \in DOMAIN t.body THEN t.body["link"] ELSE meet[t.id].link
  BY <1>3, <1>9, <1>10, OverlayRow
<1>12. /\ forced \subseteq forced' /\ forced' \subseteq MeetingIds
       /\ claimed \subseteq claimed' /\ claimed' \subseteq CalendarEvents
       /\ t.op = "updateMeeting" =>
            /\ "link" \in DOMAIN t.body => t.id \in forced'
            /\ "event" \in DOMAIN t.body => t.body["event"] \in claimed' \cup {None}
  <2>1. CASE t.op = "updateMeeting"
    BY <1>1, <1>2, <2>1, ByHand
  <2>2. CASE t.op # "updateMeeting"
    BY <1>1, <2>2 DEF PartiesInv, MeetingPartiesTypeOK
  <2> QED BY <2>1, <2>2
<1>13. ASSUME NEW m \in MeetingIds
       PROVE  /\ meet'[m] \in OrNone(MeetingRow) /\ (Exists(meet'[m]) => NamesAreKept(meet[m])')
              /\ \A e \in CalendarEvents \ claimed', l \in OrNone(MeetSpaces) :
                   RowPairs(meet'[m], e, l) => \E j \in OrNone(MeetSpaces) : Pairs(m, e, j) /\ (m \notin forced' => j = l)
  <2>1. CASE m = t.id
    <3>1. meet'[m] = row
      BY <1>1, <1>4, <2>1
    <3>2. NamesAreKept(meet[m])'
      BY <1>1, <3>1 DEF NamesAreKept
    <3>3. ASSUME NEW e \in CalendarEvents \ claimed', NEW l \in OrNone(MeetSpaces), RowPairs(row, e, l)
          PROVE  \E j \in OrNone(MeetSpaces) : Pairs(m, e, j) /\ (m \notin forced' => j = l)
      <4>1. row.event = e /\ row.link = l /\ e # None
        BY <3>3, MeetingPartiesAssumption DEF RowPairs
      <4>2. meet[m].event = e /\ (m \notin forced' => meet[m].link = l)
        BY <1>10, <1>11, <1>12, <2>1, <3>3, <4>1
      <4>3. meet[m].link \in OrNone(MeetSpaces) /\ meet[m] # None
        BY <1>1, <1>9, <2>1 DEF MeetingRow, Exists, IsLive, IsDeleted
      <4>4. Pairs(m, e, meet[m].link)
        BY <4>2, <4>3 DEF Pairs, RowPairs
      <4> QED BY <4>2, <4>3, <4>4
    <3> QED BY <1>10, <3>1, <3>2, <3>3 DEF OrNone
  <2>2. CASE m # t.id
    <3>1. meet'[m] = meet[m]
      BY <1>1, <1>3, <1>4, <2>2
    <3>2. Exists(meet'[m]) => NamesAreKept(meet[m])'
      BY <1>1, <1>4, <3>1 DEF NamesAreKept
    <3> QED BY <1>4, <3>1, <3>2 DEF Pairs
  <2> QED BY <2>1, <2>2
<1>14. meet' \in [MeetingIds -> OrNone(MeetingRow)]
  BY <1>1, <1>3, <1>4, <1>13
<1> QED BY <1>1, <1>4, <1>7, <1>8, <1>12, <1>13, <1>14, RowsKeep

-----------------------------------------------------------------------------
(* The other services *)

\* A property that is deleted for good takes its meetings along.
LEMMA EstateChangesKeeps ==
  ASSUME PartiesInv, NEW p \in Estates, NEW org \in MeetingOrgs, NEW life \in Lives, EstateChanges(p, org, life)
  PROVE  PartiesInv'
<1>1. /\ estate' = [estate EXCEPT ![p] = [org |-> org, life |-> life]]
      /\ meet' = [m \in MeetingIds |-> IF life = "gone" /\ Exists(meet[m]) /\ meet[m].estate = p
                                       THEN [meet[m] EXCEPT !.life = "gone"] ELSE meet[m]]
      /\ UNCHANGED <<party, calendar, spaces, holding, forced, claimed, meetingScope>>
  BY DEF EstateChanges, google, byHand
<1>2. /\ meet \in [MeetingIds -> OrNone(MeetingRow)] /\ estate \in [Estates -> [org : MeetingOrgs, life : Lives]]
      /\ party \in [Parties -> Lives] /\ holding \in [Workers -> OrNone(Holding)]
      /\ forced \subseteq MeetingIds /\ claimed \subseteq CalendarEvents
      /\ \A m \in MeetingIds : Exists(meet[m]) => NamesAreKept(meet[m])
      /\ \A w \in Workers : holding[w] # None => HoldingSound(holding[w])
  BY DEF PartiesInv, MeetingPartiesTypeOK
<1>3. /\ estate' \in [Estates -> [org : MeetingOrgs, life : Lives]] /\ estate'[p].life = life
      /\ \A q \in Estates \ {p} : estate'[q] = estate[q]
  BY <1>1, <1>2
<1>4. ASSUME NEW m \in MeetingIds
      PROVE  /\ meet'[m] \in OrNone(MeetingRow) /\ (Exists(meet'[m]) => NamesAreKept(meet[m])')
             /\ \A e \in CalendarEvents, l \in OrNone(MeetSpaces) : RowPairs(meet'[m], e, l) => Pairs(m, e, l)
  <2>1. CASE life = "gone" /\ Exists(meet[m]) /\ meet[m].estate = p
    <3>1. meet[m] \in MeetingRow /\ meet[m] # None
      BY <1>2, <2>1 DEF Exists, IsLive, IsDeleted, OrNone
    <3>2. meet'[m] = [meet[m] EXCEPT !.life = "gone"]
      BY <1>1, <2>1
    <3>3. meet'[m] \in MeetingRow /\ meet'[m].life = "gone" /\ meet'[m].event = meet[m].event /\ meet'[m].link = meet[m].link
      BY <3>1, <3>2 DEF MeetingRow, Lives
    <3> QED BY <3>1, <3>3 DEF Exists, IsLive, IsDeleted, OrNone, Pairs, RowPairs
  <2>2. CASE ~ (life = "gone" /\ Exists(meet[m]) /\ meet[m].estate = p)
    <3>1. meet'[m] = meet[m]
      BY <1>1, <2>2
    <3>2. ASSUME Exists(meet'[m])
          PROVE  NamesAreKept(meet[m])'
      <4>1. meet[m] \in MeetingRow /\ NamesAreKept(meet[m])
        BY <1>2, <3>1, <3>2 DEF Exists, IsLive, IsDeleted, OrNone
      <4>2. estate'[meet[m].estate].life # "gone"
        BY <1>2, <1>3, <2>2, <3>1, <3>2, <4>1 DEF NamesAreKept, MeetingRow
      <4> QED BY <1>1, <3>1, <4>1, <4>2 DEF NamesAreKept
    <3> QED BY <1>2, <3>1, <3>2 DEF Pairs
  <2> QED BY <2>1, <2>2
<1>5. meet' \in [MeetingIds -> OrNone(MeetingRow)]
  BY <1>1, <1>4
<1>6. /\ party' \in [Parties -> Lives] /\ holding' \in [Workers -> OrNone(Holding)]
      /\ \A w \in Workers : holding'[w] # None => HoldingSound(holding'[w])
      /\ \A w \in Workers, m \in MeetingIds, e \in CalendarEvents, l \in OrNone(MeetSpaces) :
           HandlerPairs(holding'[w], m, e, l) => Pairs(m, e, l)
  BY <1>1, <1>2 DEF Pairs
<1>7. \A m \in MeetingIds, e \in CalendarEvents \ claimed', l \in OrNone(MeetSpaces) :
        RowPairs(meet'[m], e, l) => \E k \in OrNone(MeetSpaces) : Pairs(m, e, k) /\ (m \notin forced' => k = l)
  BY <1>4
<1> QED BY <1>1, <1>2, <1>3, <1>4, <1>5, <1>6, <1>7, RowsKeep

\* A user who is deleted for good is named by no meeting any more.
LEMMA PartyLeavesKeeps ==
  ASSUME PartiesInv, NEW u \in Parties, NEW life \in {"deleted", "gone"}, PartyLeaves(u, life)
  PROVE  PartiesInv'
<1>1. /\ party' = [party EXCEPT ![u] = life]
      /\ meet' = [m \in MeetingIds |-> IF life = "gone" /\ Exists(meet[m]) THEN Unnamed(meet[m], u) ELSE meet[m]]
      /\ UNCHANGED <<estate, calendar, spaces, holding, forced, claimed, meetingScope>>
  BY DEF PartyLeaves, google, byHand
<1>2. /\ meet \in [MeetingIds -> OrNone(MeetingRow)] /\ estate \in [Estates -> [org : MeetingOrgs, life : Lives]]
      /\ party \in [Parties -> Lives] /\ holding \in [Workers -> OrNone(Holding)]
      /\ forced \subseteq MeetingIds /\ claimed \subseteq CalendarEvents
      /\ \A m \in MeetingIds : Exists(meet[m]) => NamesAreKept(meet[m])
      /\ \A w \in Workers : holding[w] # None => HoldingSound(holding[w])
  BY DEF PartiesInv, MeetingPartiesTypeOK
<1>3. party' \in [Parties -> Lives] /\ party'[u] = life /\ \A v \in Parties \ {u} : party'[v] = party[v]
  BY <1>1, <1>2 DEF Lives
<1>4. ASSUME NEW m \in MeetingIds
      PROVE  /\ meet'[m] \in OrNone(MeetingRow) /\ (Exists(meet'[m]) => NamesAreKept(meet[m])')
             /\ \A e \in CalendarEvents, l \in OrNone(MeetSpaces) : RowPairs(meet'[m], e, l) => Pairs(m, e, l)
  <2>1. CASE life = "gone" /\ Exists(meet[m])
    <3>1. meet[m] \in MeetingRow /\ meet[m] # None /\ NamesAreKept(meet[m])
      BY <1>2, <2>1 DEF Exists, IsLive, IsDeleted, OrNone
    <3>2. meet'[m] = Unnamed(meet[m], u)
      BY <1>1, <2>1
    <3>3. /\ meet'[m] \in MeetingRow /\ meet'[m].event = meet[m].event /\ meet'[m].link = meet[m].link
          /\ meet'[m].estate = meet[m].estate
          /\ meet'[m].developer = IF meet[m].developer = u THEN None ELSE meet[m].developer
          /\ meet'[m].occupier = IF meet[m].occupier = u THEN None ELSE meet[m].occupier
          /\ meet'[m].requester = IF meet[m].requester = u THEN None ELSE meet[m].requester
          /\ meet'[m].creator = IF meet[m].creator = u THEN None ELSE meet[m].creator
      BY <3>1, <3>2, UnnamedRow
    <3>4. ASSUME NEW v, v \in {meet'[m].developer, meet'[m].occupier, meet'[m].requester, meet'[m].creator} \ {None}
          PROVE  party'[v] # "gone"
      <4>1. v # u /\ v \in {meet[m].developer, meet[m].occupier, meet[m].requester, meet[m].creator} \ {None}
        BY <3>3, <3>4, MeetingPartiesAssumption
      <4>2. v \in Parties
        BY <3>1, <4>1 DEF MeetingRow, OrNone
      <4>3. party[v] # "gone"
        BY <3>1, <4>1 DEF NamesAreKept
      <4> QED BY <1>3, <4>1, <4>2, <4>3
    <3>5. NamesAreKept(meet[m])'
      BY <1>1, <3>1, <3>3, <3>4 DEF NamesAreKept
    <3> QED BY <3>1, <3>3, <3>5 DEF OrNone, Pairs, RowPairs
  <2>2. CASE ~ (life = "gone" /\ Exists(meet[m]))
    <3>1. meet'[m] = meet[m]
      BY <1>1, <2>2
    <3>2. ASSUME Exists(meet'[m])
          PROVE  NamesAreKept(meet[m])'
      <4>1. meet[m] \in MeetingRow /\ NamesAreKept(meet[m]) /\ life # "gone"
        BY <1>2, <2>2, <3>1, <3>2 DEF Exists, IsLive, IsDeleted, OrNone
      <4>2. \A v \in Parties : party[v] # "gone" => party'[v] # "gone"
        BY <1>3, <4>1
      <4>3. {meet[m].developer, meet[m].occupier, meet[m].requester, meet[m].creator} \ {None} \subseteq Parties
        BY <4>1 DEF MeetingRow, OrNone
      <4> QED BY <1>1, <3>1, <4>1, <4>2, <4>3 DEF NamesAreKept
    <3> QED BY <1>2, <3>1, <3>2 DEF Pairs
  <2> QED BY <2>1, <2>2
<1>5. meet' \in [MeetingIds -> OrNone(MeetingRow)]
  BY <1>1, <1>4
<1>6. /\ holding' \in [Workers -> OrNone(Holding)]
      /\ \A w \in Workers : holding'[w] # None => HoldingSound(holding'[w])
      /\ \A w \in Workers, m \in MeetingIds, e \in CalendarEvents, l \in OrNone(MeetSpaces) :
           HandlerPairs(holding'[w], m, e, l) => Pairs(m, e, l)
  BY <1>1, <1>2 DEF Pairs
<1>7. \A m \in MeetingIds, e \in CalendarEvents \ claimed', l \in OrNone(MeetSpaces) :
        RowPairs(meet'[m], e, l) => \E k \in OrNone(MeetSpaces) : Pairs(m, e, k) /\ (m \notin forced' => k = l)
  BY <1>4
<1> QED BY <1>1, <1>2, <1>3, <1>4, <1>5, <1>6, <1>7, RowsKeep

-----------------------------------------------------------------------------
(* Every behaviour *)

\* The invariant holds initially and every step keeps it.
LEMMA PartiesInitially == MeetingPartiesInit => PartiesInv
<1> SUFFICES ASSUME MeetingPartiesInit
             PROVE  PartiesInv
  OBVIOUS
<1>1. MeetingPartiesTypeOK
  BY DEF MeetingPartiesInit, MeetingPartiesTypeOK, OrNone, EstatesAtFirst, Lives, Exists, IsLive, IsDeleted
<1>2. EventsOwned
  BY DEF MeetingPartiesInit, EventsOwned, Pairs, RowPairs, HandlerPairs
<1> QED BY <1>1, <1>2 DEF MeetingPartiesInit, PartiesInv

LEMMA PartiesStep == PartiesInv /\ [MeetingPartiesNext]_meetingPartiesVars => PartiesInv'
<1> SUFFICES ASSUME PartiesInv, [MeetingPartiesNext]_meetingPartiesVars
             PROVE  PartiesInv'
  OBVIOUS
<1>1. /\ meetingScope.callers \subseteq MeetingCallers /\ meetingScope.bodies \subseteq MeetingBodies
      /\ meetingScope.meetings \subseteq MeetingIds
  BY MeetingPartiesAssumption DEF PartiesInv
<1>2. ASSUME NEW w \in Workers, NEW m \in meetingScope.meetings, NEW c \in meetingScope.callers, NEW b \in meetingScope.bodies,
             CreateMeetingBegin(w, m, c, b)
      PROVE  PartiesInv'
  BY <1>1, <1>2, CreateMeetingBeginKeeps
<1>3. ASSUME NEW w \in Workers, NEW m \in meetingScope.meetings, NEW c \in meetingScope.callers, NEW b \in meetingScope.bodies,
             NEW op \in MeetingCalls, MeetingBegin(w, op, m, c, b)
      PROVE  PartiesInv'
  BY <1>1, <1>3, MeetingBeginKeeps
<1>4. ASSUME NEW w \in Workers, CreateMeeting(w)
      PROVE  PartiesInv'
  BY <1>4, CreateMeetingKeeps
<1>5. ASSUME NEW w \in Workers, WriteMeeting(w)
      PROVE  PartiesInv'
  BY <1>5, WriteMeetingKeeps
<1>6. ASSUME NEW w \in Workers, ReadForSync(w)
      PROVE  PartiesInv'
  BY <1>6, ReadForSyncKeeps
<1>7. ASSUME NEW w \in Workers, MeetSpace(w)
      PROVE  PartiesInv'
  BY <1>7, MeetSpaceKeeps
<1>8. ASSUME NEW w \in Workers, UpsertCalendarEvent(w)
      PROVE  PartiesInv'
  BY <1>8, PartiesUpsertKeeps
<1>9. ASSUME NEW w \in Workers, RecordSync(w)
      PROVE  PartiesInv'
  BY <1>9, RecordSyncKeeps
<1>10. ASSUME NEW w \in Workers, AbandonMeeting(w)
       PROVE  PartiesInv'
  BY <1>10, MeetingAbandonKeeps
<1>11. ASSUME NEW p \in Estates, NEW org \in MeetingOrgs, NEW life \in Lives, EstateChanges(p, org, life)
       PROVE  PartiesInv'
  BY <1>11, EstateChangesKeeps
<1>12. ASSUME NEW u \in Parties, NEW life \in {"deleted", "gone"}, PartyLeaves(u, life)
       PROVE  PartiesInv'
  BY <1>12, PartyLeavesKeeps
<1>13. ASSUME UNCHANGED meetingPartiesVars
       PROVE  PartiesInv'
  <2>1. UNCHANGED <<meet, estate, party, calendar, spaces, holding, forced, claimed, meetingScope>>
    BY <1>13 DEF meetingPartiesVars, meetingTables, google, byHand
  <2>2. MeetingPartiesTypeOK'
    BY <2>1 DEF PartiesInv, MeetingPartiesTypeOK, NamesAreKept, Exists, IsLive, IsDeleted
  <2>3. EventsOwned'
    BY <2>1 DEF PartiesInv, EventsOwned, Pairs, RowPairs, HandlerPairs
  <2>4. (\A w \in Workers : holding[w] # None => HoldingSound(holding[w]))'
    BY <2>1 DEF PartiesInv, HoldingSound
  <2> QED BY <2>1, <2>2, <2>3, <2>4 DEF PartiesInv
<1> QED BY <1>2, <1>3, <1>4, <1>5, <1>6, <1>7, <1>8, <1>9, <1>10, <1>11, <1>12, <1>13 DEF MeetingPartiesNext

\* The tables and the handlers have their types, meetings name what exists, and an
\* event no client wrote is one meeting's, with its link, in the row and in
\* every handler that syncs it.
THEOREM PartiesInvariant == MeetingPartiesSpec => []PartiesInv
<1> QED BY PartiesInitially, PartiesStep, PTL DEF MeetingPartiesSpec

\* The table, the calendar and the handlers have their types, and no meeting names
\* a property or a user that is deleted for good.
THEOREM PartiesTypes == MeetingPartiesSpec => []MeetingPartiesTypeOK
<1>1. PartiesInv => MeetingPartiesTypeOK
  BY DEF PartiesInv
<1> QED BY <1>1, PartiesInvariant, PTL

\* The event a meeting records invites to the Meet link it records.
THEOREM RecordedLink == MeetingPartiesSpec => []RecordedLinkIsInvited
<1>1. PartiesInv => RecordedLinkIsInvited
  <2> SUFFICES ASSUME PartiesInv, NEW m \in MeetingIds, Exists(meet[m]), meet[m].event # None, m \notin forced,
                      meet[m].event \notin claimed
               PROVE  calendar[meet[m].event] # None /\ calendar[meet[m].event].link = meet[m].link
    BY DEF RecordedLinkIsInvited
  <2>1. meet[m] # None /\ meet[m] \in MeetingRow
    BY DEF PartiesInv, MeetingPartiesTypeOK, Exists, IsLive, IsDeleted, OrNone
  <2>2. meet[m].event \in CalendarEvents /\ meet[m].link \in OrNone(MeetSpaces)
    BY <2>1 DEF MeetingRow, OrNone
  <2>3. Pairs(m, meet[m].event, meet[m].link)
    BY <2>1 DEF Pairs, RowPairs
  <2> QED BY <2>2, <2>3 DEF PartiesInv, EventsOwned
<1> QED BY <1>1, PartiesInvariant, PTL

=============================================================================
