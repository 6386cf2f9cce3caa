---------------------------- MODULE MeetingParties ----------------------------
(***************************************************************************)
(* Who a meeting is between, where it takes place, and what Google is told of *)
(* it.  The kernel and the company service serve the same table; a company    *)
(* reaches the meetings of its properties, a caller with access level "user"  *)
(* those it is a party of.  Module Meeting has the lifecycle in detail; here   *)
(* it matters by what an endpoint lets through.                               *)
(***************************************************************************)
EXTENDS Tables, Naturals, FiniteSets

CONSTANTS
  MeetingIds,      \* primary keys (bounds the inserts)
  CalendarEvents,  \* ids of calendar events (bounds how many are created)
  MeetSpaces,      \* ids of Meet spaces (bounds how many are created)
  Parties,         \* users
  Estates,         \* properties
  MeetingOrgs,     \* organizations
  MeetingCallers,  \* who calls
  MeetingBodies,   \* what is sent: the columns a body names, with their values
  MeetingScopes    \* a behaviour takes calls, callers, bodies and keys from one of these

MeetingStatuses == {"REQUESTED", "SCHEDULED", "IN_PROGRESS", "COMPLETED", "CANCELLED", "REJECTED"}

MeetingCalls == {"createMeeting", "updateMeeting", "removeMeeting", "schedule", "googleSync", "forceSync",
                 "confirm", "start", "complete", "cancel", "reject", "publishMom",
                 "property", "user"}

OrNone(S) == S \cup {None}

\* org: None for the kernel service.
MeetingCaller == [user : Parties, org : OrNone(MeetingOrgs), ownOnly : BOOLEAN]

References == {"estate", "developer", "occupier", "requester"}

MeetingRow == [estate : Estates, developer : OrNone(Parties), occupier : OrNone(Parties),
               requester : OrNone(Parties), creator : OrNone(Parties), status : MeetingStatuses,
               dated : BOOLEAN, confirmed : BOOLEAN, minutes : BOOLEAN,
               event : OrNone(CalendarEvents), link : OrNone(MeetSpaces), life : Lives]

\* What a body may put there.
Column(f) ==
  CASE f = "estate" -> Estates
    [] f = "event"  -> OrNone(CalendarEvents)
    [] f = "link"   -> OrNone(MeetSpaces)
    [] OTHER        -> OrNone(Parties)

CalendarEvent == [calendar : Parties, link : MeetSpaces, attendees : SUBSET Parties]

Holding == [op : MeetingCalls, step : {"write", "read", "space", "event", "record"},
            id : MeetingIds, by : MeetingCallers, body : MeetingBodies, old : OrNone(MeetingRow),
            attendees : SUBSET Parties, event : OrNone(CalendarEvents), link : OrNone(MeetSpaces)]

ASSUME MeetingPartiesAssumption ==
  /\ MeetingIds \subseteq Nat /\ CalendarEvents \subseteq Nat /\ MeetSpaces \subseteq Nat
  /\ MeetingCallers \subseteq MeetingCaller
  /\ \A b \in MeetingBodies :
       DOMAIN b \subseteq References \cup {"event", "link"} /\ \A f \in DOMAIN b : b[f] \in Column(f)
  /\ MeetingScopes \subseteq [calls : SUBSET MeetingCalls, callers : SUBSET MeetingCallers,
                               bodies : SUBSET MeetingBodies, meetings : SUBSET MeetingIds]
  /\ None \notin Parties /\ None \notin MeetingOrgs /\ None \notin Estates
  /\ None \notin CalendarEvents /\ None \notin MeetSpaces /\ None \notin CalendarEvent

VARIABLES
  meet,          \* table meeting
  estate,        \* table property: the organization and the life of each
  party,         \* table user: the life of each
  calendar,      \* Google: calendar events
  spaces,        \* Google: Meet spaces that were created
  holding,       \* what each handler keeps across its awaits
  forced,        \* meetings that were synced by force, or whose Google fields a client wrote
  claimed,       \* calendar events a client wrote into a meeting
  meetingScope   \* the scope of this behaviour

meetingTables == <<meet, estate, party>>
google == <<calendar, spaces>>
byHand == <<forced, claimed>>
meetingPartiesVars == <<meetingTables, google, holding, byHand, meetingScope>>

-----------------------------------------------------------------------------
(* Reading *)

\* canAccessMeetingAsUser
IsParty(row, u) == u \in {row.creator, row.requester, row.developer, row.occupier}

\* findMeetingById
FindMeeting(m, org) ==
  /\ IsLive(meet[m])
  /\ org # None => estate[meet[m].estate] = [org |-> org, life |-> "live"]

\* resolveScopedMeeting
ReachesMeeting(c, m) == FindMeeting(m, c.org) /\ (c.ownOnly => IsParty(meet[m], c.user))

\* validateMeetingReferences: what is named must be live, and a property of the
\* caller's organization.
ValidMeetingReferences(c, body) ==
  /\ "estate" \in DOMAIN body =>
       /\ estate[body.estate].life = "live"
       /\ c.org # None => estate[body.estate].org = c.org
  /\ \A f \in DOMAIN body \cap {"developer", "occupier", "requester"} :
       body[f] # None => party[body[f]] = "live"

\* getMeetingLifecycleError = null
LifecycleAllows(op, row) ==
  CASE op = "schedule"              -> row.status \in {"REQUESTED", "SCHEDULED"}
    [] op \in {"confirm", "start"}  -> row.status = "SCHEDULED" /\ row.dated
    [] op = "complete"              -> row.status \in {"SCHEDULED", "IN_PROGRESS"}
    [] op = "cancel"                -> row.status \notin {"COMPLETED", "CANCELLED", "REJECTED"}
    [] op = "reject"                -> row.status = "REQUESTED"
    [] op = "publishMom"            -> row.status = "COMPLETED"
    [] OTHER                        -> TRUE

\* attachMeetingRelations and collectAttendees: the parties that are still there.
Invited(row) ==
  {u \in Parties : u \in {row.developer, row.occupier, row.requester} /\ party[u] = "live"}

-----------------------------------------------------------------------------
(* What an endpoint writes: new columns of the row it finds, from the row it read *)

\* The columns a body names, and the rest as they are.
Overlay(row, body) == [f \in DOMAIN row |-> IF f \in DOMAIN body THEN body[f] ELSE row[f]]

\* The parties the body leaves out are written back as they were read.
Scheduled(row, old, body) ==
  [row EXCEPT !.status = "SCHEDULED", !.dated = TRUE, !.confirmed = FALSE,
              !.developer = Overlay(old, body).developer, !.occupier = Overlay(old, body).occupier]

Confirmed(row) == [row EXCEPT !.confirmed = TRUE]
Started(row) == [row EXCEPT !.status = "IN_PROGRESS", !.confirmed = TRUE]
Completed(row) == [row EXCEPT !.status = "COMPLETED"]
Cancelled(row) == [row EXCEPT !.status = "CANCELLED"]
Rejected(row) == [row EXCEPT !.status = "REJECTED"]
MomPublished(row) == [row EXCEPT !.minutes = TRUE]
RemovedMeeting(row) == [row EXCEPT !.life = "deleted"]

WrittenMeeting(op, row, old, body) ==
  CASE op = "schedule"      -> Scheduled(row, old, body)
    [] op = "updateMeeting" -> Overlay(row, body)
    [] op = "removeMeeting" -> RemovedMeeting(row)
    [] op = "confirm"       -> Confirmed(row)
    [] op = "start"         -> Started(row)
    [] op = "complete"      -> Completed(row)
    [] op = "cancel"        -> Cancelled(row)
    [] op = "reject"        -> Rejected(row)
    [] op = "publishMom"    -> MomPublished(row)

NamesAreKept(row) ==
  /\ estate[row.estate].life # "gone"
  /\ \A u \in {row.developer, row.occupier, row.requester, row.creator} \ {None} : party[u] # "gone"

-----------------------------------------------------------------------------
(* The steps of a handler *)

Hold(w, t) ==
  /\ holding' = [holding EXCEPT ![w] = t]
  /\ UNCHANGED meetingScope

HoldsAt(w, step) == holding[w] # None /\ holding[w].step = step

Drop(w) == Hold(w, None)

NewHolding(op, m, c, body) ==
  [op |-> op, step |-> "write", id |-> m, by |-> c, body |-> body, old |-> meet[m],
   attendees |-> {}, event |-> None, link |-> None]

\* Any endpoint but the creation: read the row, check it and the references sent.
MeetingBegin(w, op, m, c, body) ==
  /\ holding[w] = None /\ op \in meetingScope.calls \ {"createMeeting", "property", "user"}
  /\ ReachesMeeting(c, m)
  /\ LifecycleAllows(op, meet[m])
  /\ IF op \in {"schedule", "updateMeeting"} THEN ValidMeetingReferences(c, body) ELSE DOMAIN body = {}
  /\ Hold(w, IF op \in {"googleSync", "forceSync"}
             THEN [NewHolding(op, m, c, body) EXCEPT !.step = "read"]
             ELSE NewHolding(op, m, c, body))
  /\ UNCHANGED <<meetingTables, google, byHand>>

\* The body may name the Google fields, as any other column.
WroteByHand(t) ==
  /\ forced' = IF {"event", "link"} \cap DOMAIN t.body = {} THEN forced ELSE forced \cup {t.id}
  /\ claimed' = IF "event" \in DOMAIN t.body THEN claimed \cup ({t.body.event} \ {None}) ELSE claimed

\* A request is somebody's: of the caller, unless the body says of whom.
CreateMeetingBegin(w, m, c, body) ==
  /\ holding[w] = None /\ "createMeeting" \in meetingScope.calls
  /\ meet[m] = None /\ \A n \in MeetingIds : n < m => meet[n] # None
  /\ "estate" \in DOMAIN body
  /\ ValidMeetingReferences(c, body)
  /\ Hold(w, NewHolding("createMeeting", m, c, body))
  /\ UNCHANGED <<meetingTables, google, byHand>>

CreateMeeting(w) ==
  LET t == holding[w]
      row == Overlay([estate |-> None, developer |-> None, occupier |-> None, requester |-> t.by.user,
                      creator |-> t.by.user, status |-> "REQUESTED", dated |-> FALSE, confirmed |-> FALSE,
                      minutes |-> FALSE, event |-> None, link |-> None, life |-> "live"], t.body)
  IN  /\ HoldsAt(w, "write") /\ t.op = "createMeeting"
      /\ NamesAreKept(row) /\ meet[t.id] = None
      /\ meet' = [meet EXCEPT ![t.id] = row]
      /\ WroteByHand(t)
      /\ Drop(w)
      /\ UNCHANGED <<estate, party, google>>

\* UPDATE by id; the names it writes must exist.
WriteMeeting(w) ==
  LET t == holding[w]
      row == WrittenMeeting(t.op, meet[t.id], t.old, t.body)
  IN  /\ HoldsAt(w, "write") /\ t.op # "createMeeting"
      /\ Exists(meet[t.id]) /\ NamesAreKept(row)
      /\ meet' = [meet EXCEPT ![t.id] = row]
      /\ IF t.op = "updateMeeting" THEN WroteByHand(t) ELSE UNCHANGED byHand
      /\ \/ Drop(w)
         \/ t.op = "schedule" /\ Hold(w, [t EXCEPT !.step = "read"])
      /\ UNCHANGED <<estate, party, google>>

-----------------------------------------------------------------------------
(* syncMeetingWithGoogle *)

\* The meeting with its relations: of a meeting that is still there and has a date.
ReadForSync(w) ==
  LET t == holding[w]
  IN  /\ HoldsAt(w, "read")
      /\ IsLive(meet[t.id]) /\ meet[t.id].dated
      /\ Hold(w, [t EXCEPT !.step = "space", !.old = meet[t.id], !.attendees = Invited(meet[t.id])])
      /\ UNCHANGED <<meetingTables, google, byHand>>

NeedsSpace_Always(t) == TRUE

NeedsSpace(t) == t.old.link = None \/ t.op = "forceSync"

MeetSpace(w) ==
  LET t == holding[w]
      fresh == {l \in MeetSpaces : l \notin spaces /\ \A k \in MeetSpaces \ spaces : l <= k}
  IN  /\ HoldsAt(w, "space")
      /\ IF NeedsSpace(t)
         THEN \E l \in fresh : /\ spaces' = spaces \cup {l}
                               /\ Hold(w, [t EXCEPT !.step = "event", !.link = l])
         ELSE Hold(w, [t EXCEPT !.step = "event", !.link = t.old.link]) /\ UNCHANGED spaces
      /\ UNCHANGED <<meetingTables, calendar, byHand>>

\* POST to the caller's own calendar, or PATCH there, which needs the event to be there.
UpsertCalendarEvent(w) ==
  LET t == holding[w]
      entry == [calendar |-> t.by.user, link |-> t.link, attendees |-> t.attendees]
  IN  /\ HoldsAt(w, "event")
      /\ \E e \in CalendarEvents :
           /\ IF t.old.event = None
              THEN calendar[e] = None /\ \A d \in CalendarEvents : d < e => calendar[d] # None
              ELSE e = t.old.event /\ calendar[e] # None /\ calendar[e].calendar = t.by.user
           /\ calendar' = [calendar EXCEPT ![e] = entry]
           /\ Hold(w, [t EXCEPT !.step = "record", !.event = e])
      /\ forced' = IF t.op = "forceSync" THEN forced \cup {t.id} ELSE forced
      /\ UNCHANGED <<meetingTables, spaces, claimed>>

RecordSync(w) ==
  LET t == holding[w]
  IN  /\ HoldsAt(w, "record")
      /\ meet' = IF Exists(meet[t.id])
                 THEN [meet EXCEPT ![t.id].event = t.event, ![t.id].link = t.link] ELSE meet
      /\ Drop(w)
      /\ UNCHANGED <<estate, party, google, byHand>>

\* A statement or a call to Google fails, or the process dies: nothing is undone.
AbandonMeeting(w) ==
  /\ holding[w] # None
  /\ Drop(w)
  /\ UNCHANGED <<meetingTables, google, byHand>>

-----------------------------------------------------------------------------
(* What the other services change *)

\* A property is moved to another organization, deleted, or deleted for good
\* with its meetings.
EstateChanges(p, org, life) ==
  /\ "property" \in meetingScope.calls /\ estate[p].life # "gone"
  /\ estate' = [estate EXCEPT ![p] = [org |-> org, life |-> life]]
  /\ meet' = [m \in MeetingIds |-> IF life = "gone" /\ Exists(meet[m]) /\ meet[m].estate = p
                                   THEN [meet[m] EXCEPT !.life = "gone"] ELSE meet[m]]
  /\ UNCHANGED <<party, google, holding, byHand, meetingScope>>

\* ON DELETE SET NULL
Unnamed(row, u) ==
  [f \in DOMAIN row |->
    IF f \in {"developer", "occupier", "requester", "creator"} /\ row[f] = u THEN None ELSE row[f]]

PartyLeaves(u, life) ==
  /\ "user" \in meetingScope.calls /\ party[u] # "gone"
  /\ party' = [party EXCEPT ![u] = life]
  /\ meet' = [m \in MeetingIds |-> IF life = "gone" /\ Exists(meet[m]) THEN Unnamed(meet[m], u) ELSE meet[m]]
  /\ UNCHANGED <<estate, google, holding, byHand, meetingScope>>

-----------------------------------------------------------------------------
EstatesAtFirst == [org : MeetingOrgs, life : {"live"}]

MeetingPartiesInit ==
  /\ meet = [m \in MeetingIds |-> None]
  /\ estate \in [Estates -> EstatesAtFirst]
  /\ party = [u \in Parties |-> "live"]
  /\ calendar = [e \in CalendarEvents |-> None]
  /\ spaces = {}
  /\ holding = [w \in Workers |-> None]
  /\ forced = {} /\ claimed = {}
  /\ meetingScope \in MeetingScopes

MeetingPartiesNext ==
  \/ \E w \in Workers :
       \/ \E m \in meetingScope.meetings, c \in meetingScope.callers, body \in meetingScope.bodies :
            \/ CreateMeetingBegin(w, m, c, body)
            \/ \E op \in MeetingCalls \cap meetingScope.calls : MeetingBegin(w, op, m, c, body)
       \/ CreateMeeting(w) \/ WriteMeeting(w)
       \/ ReadForSync(w) \/ MeetSpace(w) \/ UpsertCalendarEvent(w) \/ RecordSync(w)
       \/ AbandonMeeting(w)
  \/ \E p \in Estates, org \in MeetingOrgs, life \in Lives : EstateChanges(p, org, life)
  \/ \E u \in Parties, life \in {"deleted", "gone"} : PartyLeaves(u, life)

MeetingPartiesSpec == MeetingPartiesInit /\ [][MeetingPartiesNext]_meetingPartiesVars

-----------------------------------------------------------------------------
(* Properties *)

\* The table, the calendar and the handlers have their types; a meeting names a
\* property and users that are not deleted for good, though handlers write back
\* the names they read before.
MeetingPartiesTypeOK ==
  /\ meet \in [MeetingIds -> OrNone(MeetingRow)]
  /\ estate \in [Estates -> [org : MeetingOrgs, life : Lives]]
  /\ party \in [Parties -> Lives]
  /\ calendar \in [CalendarEvents -> OrNone(CalendarEvent)]
  /\ spaces \subseteq MeetSpaces /\ forced \subseteq MeetingIds /\ claimed \subseteq CalendarEvents
  /\ holding \in [Workers -> OrNone(Holding)]
  /\ \A m \in MeetingIds : Exists(meet[m]) => NamesAreKept(meet[m])

\* The event a meeting records invites to the Meet link it records, whichever
\* syncs overlapped and wherever they failed, as long as none was forced and no
\* client wrote the fields itself, nor the event into another meeting.
RecordedLinkIsInvited ==
  \A m \in MeetingIds :
    Exists(meet[m]) /\ meet[m].event # None /\ m \notin forced /\ meet[m].event \notin claimed
    => calendar[meet[m].event] # None /\ calendar[meet[m].event].link = meet[m].link

=============================================================================
