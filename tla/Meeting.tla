-------------------------------- MODULE Meeting --------------------------------
(***************************************************************************)
(* Meetings between developers and occupiers: the meeting table, its        *)
(* lifecycle endpoints, and the Google Calendar events that follow it.      *)
(* The company and the kernel service serve the same table with the same    *)
(* handlers, so two handlers interleave at every await: each one reads the  *)
(* row, checks its status, waits, and then updates by id alone.             *)
(***************************************************************************)
EXTENDS Naturals, FiniteSets

CONSTANTS
  Meetings,  \* primary keys (bounds the inserts)
  Events,    \* ids of calendar events (bounds the events created)
  Users,     \* callers, each with a Google calendar of their own
  Times,     \* dates a meeting may be scheduled at
  Workers,   \* request handlers that may run at the same time
  Ops,       \* the endpoints that a run lets users call on each meeting
  Claims,    \* the event ids that a run lets clients write into each meeting
  None       \* null

Status == {"REQUESTED", "SCHEDULED", "IN_PROGRESS", "COMPLETED", "CANCELLED", "REJECTED"}
Terminal == {"COMPLETED", "CANCELLED", "REJECTED"}
LifecycleOps == {"schedule", "confirm", "start", "complete", "cancel", "reject", "publishMom"}
AllOps == LifecycleOps \cup {"update", "remove", "googleSync"}

\* A date column other than scheduledAt only matters by being set or null.
Row == [status : Status, scheduledAt : Times \cup {None},
        confirmedAt : BOOLEAN, completedAt : BOOLEAN, cancelledAt : BOOLEAN,
        cancellationReason : BOOLEAN, momPublishedAt : BOOLEAN,
        event : Events \cup {None}, isDeleted : BOOLEAN]

Event == [meeting : Meetings, calendar : Users, time : Times]

\* time and event: what syncMeetingWithGoogle read of the row.
Job == [op : AllOps, id : Meetings, user : Users,
        time : Times \cup {None}, event : Events \cup {None}]

ASSUME ConstantsAssumption ==
  /\ Ops \subseteq Meetings \X AllOps
  /\ Claims \subseteq Meetings \X Events
  /\ None \notin Meetings \cup Events \cup Users \cup Times
  /\ None \notin Row /\ None \notin Event /\ None \notin Job

VARIABLES
  meeting,  \* the table
  events,   \* Google: every calendar event the services have created
  claimed,  \* history: the event ids that clients wrote, each with its meeting
  pc,       \* where each handler stands
  job       \* what each handler remembers across its awaits

vars == <<meeting, events, claimed, pc, job>>

-----------------------------------------------------------------------------
(* The steps of a handler *)

Goto(w, label) == pc' = [pc EXCEPT ![w] = label]

Respond(w) ==
  /\ Goto(w, "idle")
  /\ job' = [job EXCEPT ![w] = None]

\* The statuses from which an operation is allowed.
AllowedFrom(op) ==
  CASE op = "schedule"   -> {"REQUESTED", "SCHEDULED"}
    [] op = "confirm"    -> {"SCHEDULED"}
    [] op = "start"      -> {"SCHEDULED"}
    [] op = "complete"   -> {"SCHEDULED", "IN_PROGRESS"}
    [] op = "cancel"     -> Status \ Terminal
    [] op = "reject"     -> {"REQUESTED"}
    [] op = "publishMom" -> {"COMPLETED"}
    [] OTHER             -> Status

\* Mutation: a meeting in progress may have its minutes published.
Allowed_MinutesInProgress(op, row) ==
  /\ ~ row.isDeleted
  /\ row.status \in AllowedFrom(op) \cup (IF op = "publishMom" THEN {"IN_PROGRESS"} ELSE {})
  /\ op \in {"confirm", "start"} => row.scheduledAt # None

\* Mutation: a request may be completed without having been scheduled.
Allowed_CompletesRequests(op, row) ==
  /\ ~ row.isDeleted
  /\ row.status \in AllowedFrom(op) \cup (IF op = "complete" THEN {"REQUESTED"} ELSE {})
  /\ op \in {"confirm", "start"} => row.scheduledAt # None

\* getMeetingLifecycleError = null, on a row that was found.
Allowed(op, row) ==
  /\ ~ row.isDeleted
  /\ row.status \in AllowedFrom(op)
  /\ op \in {"confirm", "start"} => row.scheduledAt # None

\* The create and update schemas leave the Google fields in: a body may name an
\* event, existing or not, or null.
Claim(m, e) ==
  /\ e # None => <<m, e>> \in Claims
  /\ claimed' = IF e = None THEN claimed ELSE claimed \cup {<<m, e>>}

Create(m) ==
  /\ meeting[m] = None
  /\ \E e \in Events \cup {None} :
       /\ Claim(m, e)
       /\ meeting' = [meeting EXCEPT ![m] =
            [status |-> "REQUESTED", scheduledAt |-> None, confirmedAt |-> FALSE,
             completedAt |-> FALSE, cancelledAt |-> FALSE, cancellationReason |-> FALSE,
             momPublishedAt |-> FALSE, event |-> e, isDeleted |-> FALSE]]
  /\ UNCHANGED <<events, pc, job>>

\* Read the row and check it.  googleSync reads the row a second time.
Begin(w, m, op, u) ==
  /\ pc[w] = "idle"
  /\ meeting[m] # None
  /\ Allowed(op, meeting[m])
  /\ Goto(w, IF op = "googleSync" THEN "reread" ELSE "write")
  /\ job' = [job EXCEPT ![w] =
       [op |-> op, id |-> m, user |-> u, time |-> None, event |-> None]]
  /\ UNCHANGED <<meeting, events, claimed>>

\* UPDATE ... WHERE id: whatever the row holds by now.
Write(w, op, row) ==
  /\ pc[w] = "write" /\ job[w].op = op
  /\ meeting' = [meeting EXCEPT ![job[w].id] = row]
  /\ UNCHANGED <<events, claimed>>

Here(w) == meeting[job[w].id]

\* The update is committed before Google is asked; syncGoogle is optional.
Schedule(w) ==
  /\ \E t \in Times :
       Write(w, "schedule",
         [Here(w) EXCEPT !.status = "SCHEDULED", !.scheduledAt = t, !.confirmedAt = FALSE,
                         !.cancellationReason = FALSE, !.cancelledAt = FALSE])
  /\ \/ Respond(w)
     \/ Goto(w, "reread") /\ UNCHANGED job

Confirm(w) ==
  /\ Write(w, "confirm", [Here(w) EXCEPT !.confirmedAt = TRUE])
  /\ Respond(w)

\* confirmedAt is that of the row read, or now: never null.
StartMeeting(w) ==
  /\ Write(w, "start", [Here(w) EXCEPT !.status = "IN_PROGRESS", !.confirmedAt = TRUE])
  /\ Respond(w)

Complete(w) ==
  /\ Write(w, "complete", [Here(w) EXCEPT !.status = "COMPLETED", !.completedAt = TRUE])
  /\ Respond(w)

Cancel(w) ==
  /\ Write(w, "cancel", [Here(w) EXCEPT !.status = "CANCELLED", !.cancelledAt = TRUE,
                                        !.cancellationReason = TRUE])
  /\ Respond(w)

Reject(w) ==
  /\ Write(w, "reject", [Here(w) EXCEPT !.status = "REJECTED", !.cancellationReason = TRUE])
  /\ Respond(w)

PublishMom(w) ==
  /\ Write(w, "publishMom", [Here(w) EXCEPT !.momPublishedAt = TRUE])
  /\ Respond(w)

Remove(w) ==
  /\ Write(w, "remove", [Here(w) EXCEPT !.isDeleted = TRUE])
  /\ Respond(w)

\* Whatever else a body names, the event changes only where it names one.
Update(w) ==
  /\ pc[w] = "write" /\ job[w].op = "update"
  /\ \/ UNCHANGED <<meeting, claimed>>
     \/ \E e \in Events \cup {None} :
          /\ Claim(job[w].id, e)
          /\ meeting' = [meeting EXCEPT ![job[w].id] = [Here(w) EXCEPT !.event = e]]
  /\ Respond(w)
  /\ UNCHANGED events

-----------------------------------------------------------------------------
(* syncMeetingWithGoogle *)

\* Mutation: a meeting without a date is synced.
Reread_Undated(w) ==
  /\ pc[w] = "reread"
  /\ ~ Here(w).isDeleted
  /\ job' = [job EXCEPT ![w] = [@ EXCEPT !.time = Here(w).scheduledAt, !.event = Here(w).event]]
  /\ Goto(w, "google")
  /\ UNCHANGED <<meeting, events, claimed>>

\* findMeetingByIdWithRelations: a deleted meeting is not found.
Reread(w) ==
  /\ pc[w] = "reread"
  /\ ~ Here(w).isDeleted
  /\ Here(w).scheduledAt # None
  /\ job' = [job EXCEPT ![w] = [@ EXCEPT !.time = Here(w).scheduledAt, !.event = Here(w).event]]
  /\ Goto(w, "google")
  /\ UNCHANGED <<meeting, events, claimed>>

\* POST: a new event in the caller's primary calendar.
CreateEvent(w) ==
  /\ pc[w] = "google" /\ job[w].event = None
  /\ \E e \in Events :
       /\ events[e] = None
       /\ events' = [events EXCEPT ![e] =
            [meeting |-> job[w].id, calendar |-> job[w].user, time |-> job[w].time]]
       /\ job' = [job EXCEPT ![w] = [@ EXCEPT !.event = e]]
  /\ Goto(w, "record")
  /\ UNCHANGED <<meeting, claimed>>

\* PATCH, in the caller's primary calendar, which has to hold the event: one
\* whose id a client made up is nobody's.
PatchEvent(w) ==
  LET e == job[w].event
  IN  /\ pc[w] = "google" /\ e # None
      /\ events[e] # None /\ events[e].calendar = job[w].user
      /\ events' = [events EXCEPT ![e] = [@ EXCEPT !.time = job[w].time]]
      /\ Goto(w, "record")
      /\ UNCHANGED <<meeting, claimed, job>>

\* Mutation: the UPDATE has lost its WHERE.
RecordEvent_NoWhere(w) ==
  /\ pc[w] = "record"
  /\ meeting' = [m \in Meetings |-> IF meeting[m] = None THEN None
                                    ELSE [meeting[m] EXCEPT !.event = job[w].event]]
  /\ Respond(w)
  /\ UNCHANGED <<events, claimed>>

RecordEvent(w) ==
  /\ pc[w] = "record"
  /\ meeting' = [meeting EXCEPT ![job[w].id] = [Here(w) EXCEPT !.event = job[w].event]]
  /\ Respond(w)
  /\ UNCHANGED <<events, claimed>>

\* A reference is refused, Google answers with an error, the meeting is not
\* found any more, or the process dies: nothing undoes the earlier steps.
Fail(w) ==
  /\ pc[w] # "idle"
  /\ Respond(w)
  /\ UNCHANGED <<meeting, events, claimed>>

-----------------------------------------------------------------------------
Init ==
  /\ meeting = [m \in Meetings |-> None]
  /\ events = [e \in Events |-> None]
  /\ claimed = {}
  /\ pc = [w \in Workers |-> "idle"]
  /\ job = [w \in Workers |-> None]

Sync(w) == Reread(w) \/ CreateEvent(w) \/ PatchEvent(w) \/ RecordEvent(w)

Handle(w) ==
  Schedule(w) \/ Confirm(w) \/ StartMeeting(w) \/ Complete(w) \/ Cancel(w) \/ Reject(w)
  \/ PublishMom(w) \/ Remove(w) \/ Update(w)

Next ==
  \/ \E m \in Meetings : Create(m)
  \/ \E w \in Workers :
       \/ \E call \in Ops, u \in Users : Begin(w, call[1], call[2], u)
       \/ Handle(w) \/ Sync(w) \/ Fail(w)

Spec == Init /\ [][Next]_vars

-----------------------------------------------------------------------------
(* Properties *)

\* The table, the calendar and the handlers have their types; a handler that is
\* about to record an event holds one that Google has, whatever ids clients wrote.
TypeOK ==
  /\ meeting \in [Meetings -> Row \cup {None}]
  /\ events \in [Events -> Event \cup {None}]
  /\ pc \in [Workers -> {"idle", "write", "reread", "google", "record"}]
  /\ job \in [Workers -> Job \cup {None}]
  /\ claimed \subseteq Claims
  /\ \A w \in Workers : pc[w] = "record" =>
       job[w].event # None /\ events[job[w].event] # None

\* However stale the check of a handler is when it writes, the status and the
\* columns it is shown with agree: a meeting that is under way or done has a
\* date, one in progress was confirmed, and a cancelled one says why and when.
StatusIsBacked ==
  \A m \in Meetings : meeting[m] # None =>
    LET row == meeting[m]
    IN  /\ row.status \in {"SCHEDULED", "IN_PROGRESS", "COMPLETED"} => row.scheduledAt # None
        /\ row.status = "IN_PROGRESS" => row.confirmedAt
        /\ row.status = "COMPLETED" => row.completedAt
        /\ row.status = "CANCELLED" => row.cancelledAt /\ row.cancellationReason
        /\ row.status = "REJECTED" => row.cancellationReason
        /\ row.confirmedAt => row.scheduledAt # None

\* "Minutes of meeting can only be published after completion": published
\* minutes belong to a meeting that has been completed, even when another
\* handler moves the meeting on between the check and the write.
MinutesFollowCompletion ==
  \A m \in Meetings :
    meeting[m] # None /\ meeting[m].momPublishedAt => meeting[m].completedAt

\* The event that a meeting records was created for that meeting, whichever
\* syncs overlapped, unless a client once wrote this very id into this meeting:
\* two meetings whose events no client chose never move each other's event.
EventIsOwn ==
  \A m \in Meetings :
    /\ meeting[m] # None /\ meeting[m].event # None
    /\ <<m, meeting[m].event>> \notin claimed
    => /\ events[meeting[m].event] # None
       /\ events[meeting[m].event].meeting = m

\* "Cannot cancel a meeting that is completed", "Only requested or scheduled
\* meetings can be scheduled": a completed, cancelled or rejected meeting keeps
\* its status.
TerminalStays ==
  [][\A m \in Meetings :
       meeting[m] # None /\ meeting[m].status \in Terminal
       => meeting'[m].status = meeting[m].status]_vars

=============================================================================
