----------------------------- MODULE MeetingProofs -----------------------------
(***************************************************************************)
(* Proofs about Meeting, for any number of meetings, events and handlers.  *)
(***************************************************************************)
EXTENDS Meeting, TLAPS

\* A row that agrees with its status.
Backed(row) ==
  /\ row.status \in {"SCHEDULED", "IN_PROGRESS", "COMPLETED"} => row.scheduledAt # None
  /\ row.status = "IN_PROGRESS" => row.confirmedAt
  /\ row.status = "COMPLETED" => row.completedAt
  /\ row.status = "CANCELLED" => row.cancelledAt /\ row.cancellationReason
  /\ row.status = "REJECTED" => row.cancellationReason
  /\ row.confirmedAt => row.scheduledAt # None

\* The event, if any, was created for meeting m, or a client wrote it into m.
OwnEvent(e, m) ==
  e # None /\ <<m, e>> \notin claimed => events[e] # None /\ events[e].meeting = m

\* The types alone.
Typed ==
  /\ meeting \in [Meetings -> Row \cup {None}]
  /\ events \in [Events -> Event \cup {None}]
  /\ pc \in [Workers -> {"idle", "write", "reread", "google", "record"}]
  /\ job \in [Workers -> Job \cup {None}]
  /\ claimed \subseteq Claims

RowInv(m) ==
  meeting[m] # None =>
    /\ Backed(meeting[m])
    /\ meeting[m].momPublishedAt => meeting[m].completedAt
    /\ OwnEvent(meeting[m].event, m)

\* What a handler checked and what no other handler takes back: dates and
\* completions are never cleared, events keep their meeting.
JobInv(w) ==
  pc[w] # "idle" =>
    /\ job[w] # None
    /\ meeting[job[w].id] # None
    /\ pc[w] = "write" /\ job[w].op \in {"confirm", "start", "complete"}
         => meeting[job[w].id].scheduledAt # None
    /\ pc[w] = "write" /\ job[w].op = "publishMom" => meeting[job[w].id].completedAt
    /\ pc[w] = "google" => job[w].time # None
    /\ pc[w] = "record" => job[w].event # None /\ events[job[w].event] # None
    /\ OwnEvent(job[w].event, job[w].id)

IInv ==
  /\ Typed
  /\ \A m \in Meetings : RowInv(m)
  /\ \A w \in Workers : JobInv(w)

\* The invariant of one handler carries over a step of another one that keeps
\* every row, its date and its completion, the meeting of every event, and
\* what clients claimed.
Keeps ==
  /\ claimed \subseteq claimed'
  /\ \A m \in Meetings : meeting[m] # None =>
       /\ meeting'[m] # None
       /\ meeting[m].scheduledAt # None => meeting'[m].scheduledAt # None
       /\ meeting[m].completedAt => meeting'[m].completedAt
  /\ \A e \in Events : events[e] # None =>
       events'[e] # None /\ events'[e].meeting = events[e].meeting

LEMMA JobKept ==
  ASSUME Typed, Keeps, NEW w \in Workers, JobInv(w),
         pc'[w] = pc[w], job'[w] = job[w]
  PROVE  JobInv(w)'
<1> SUFFICES ASSUME pc[w] # "idle" PROVE JobInv(w)'
  BY DEF JobInv
<1>1. job[w] # None /\ job[w] \in Job
  BY DEF JobInv, Typed
<1>2. job[w].id \in Meetings /\ job[w].event \in Events \cup {None}
  BY <1>1 DEF Job
<1>3. OwnEvent(job[w].event, job[w].id)'
  BY <1>2 DEF JobInv, OwnEvent, Keeps
<1>4. pc[w] = "record" => job[w].event # None /\ events'[job[w].event] # None
  BY <1>2 DEF JobInv, Keeps
<1> QED
  BY <1>1, <1>2, <1>3, <1>4 DEF JobInv, Keeps

\* A handler that answers remembers nothing.
LEMMA JobDone ==
  ASSUME NEW w \in Workers, Typed, Respond(w)
  PROVE  /\ JobInv(w)'
         /\ \A v \in Workers : v # w => pc'[v] = pc[v] /\ job'[v] = job[v]
         /\ pc' \in [Workers -> {"idle", "write", "reread", "google", "record"}]
         /\ job' \in [Workers -> Job \cup {None}]
  BY DEF Respond, Goto, JobInv, Typed

\* Writing a row that is well formed, agrees with its status and takes nothing
\* back keeps the invariant, when the handler then answers.
LEMMA RowWritten ==
  ASSUME IInv, NEW w \in Workers, NEW m \in Meetings, NEW row \in Row,
         meeting[m] # None,
         meeting' = [meeting EXCEPT ![m] = row],
         UNCHANGED events,
         claimed \subseteq claimed', claimed' \subseteq Claims,
         Respond(w),
         Backed(row),
         row.momPublishedAt => row.completedAt,
         row.event # None /\ <<m, row.event>> \notin claimed'
           => events[row.event] # None /\ events[row.event].meeting = m,
         meeting[m].scheduledAt # None => row.scheduledAt # None,
         meeting[m].completedAt => row.completedAt
  PROVE  IInv'
<1>1. meeting' \in [Meetings -> Row \cup {None}] /\ row # None
  BY ConstantsAssumption DEF IInv, Typed
<1>2. meeting'[m] = row /\ \A n \in Meetings : n # m => meeting'[n] = meeting[n]
  BY DEF IInv, Typed
<1>3. Keeps
  BY <1>1, <1>2 DEF Keeps
<1>4. Typed'
  BY <1>1, JobDone DEF IInv, Typed
<1>5. ASSUME NEW n \in Meetings PROVE RowInv(n)'
  BY <1>2 DEF RowInv, OwnEvent, Backed, IInv
<1>6. ASSUME NEW v \in Workers PROVE JobInv(v)'
  BY <1>3, JobDone, JobKept DEF IInv
<1> QED
  BY <1>4, <1>5, <1>6 DEF IInv

\* The row that a handler about to write finds.
LEMMA HereHolds ==
  ASSUME IInv, NEW w \in Workers, pc[w] # "idle"
  PROVE  /\ job[w].id \in Meetings
         /\ Here(w) \in Row
         /\ Here(w) = meeting[job[w].id] /\ Here(w) # None
         /\ Backed(Here(w))
         /\ Here(w).momPublishedAt => Here(w).completedAt
         /\ OwnEvent(Here(w).event, job[w].id)
         /\ OwnEvent(job[w].event, job[w].id)
<1>1. job[w] \in Job /\ meeting[job[w].id] # None /\ OwnEvent(job[w].event, job[w].id)
  BY DEF IInv, Typed, JobInv
<1>2. job[w].id \in Meetings
  BY <1>1 DEF Job
<1>3. RowInv(job[w].id) /\ meeting[job[w].id] \in Row
  BY <1>1, <1>2 DEF IInv, Typed
<1> QED
  BY <1>1, <1>2, <1>3 DEF RowInv, Here

\* Every write that answers at once.
LEMMA Writes ==
  ASSUME IInv, NEW w \in Workers,
         Confirm(w) \/ StartMeeting(w) \/ Complete(w) \/ Cancel(w) \/ Reject(w)
         \/ PublishMom(w) \/ Remove(w) \/ Update(w)
  PROVE  IInv'
<1> DEFINE row == meeting'[job[w].id]
<1>1. /\ pc[w] = "write" /\ Respond(w) /\ UNCHANGED events
      /\ claimed \subseteq claimed' /\ claimed' \subseteq Claims
  <2>1. CASE Update(w)
    BY <2>1 DEF Update, Claim, IInv, Typed
  <2>2. CASE ~ Update(w)
    BY <2>2 DEF Confirm, StartMeeting, Complete, Cancel, Reject, PublishMom, Remove, Write,
                IInv, Typed
  <2> QED
    BY <2>1, <2>2
<1>2. /\ job[w].id \in Meetings /\ Here(w) \in Row
      /\ Here(w) = meeting[job[w].id] /\ Here(w) # None
      /\ Backed(Here(w))
      /\ Here(w).momPublishedAt => Here(w).completedAt
      /\ OwnEvent(Here(w).event, job[w].id)
  BY <1>1, HereHolds
<1>3. JobInv(w)
  BY DEF IInv
<1>4. meeting \in [Meetings -> Row \cup {None}]
  BY DEF IInv, Typed
<1>5. /\ meeting' = [meeting EXCEPT ![job[w].id] = row]
      /\ row \in Row
      /\ Backed(row)
      /\ row.momPublishedAt => row.completedAt
      /\ row.event # None /\ <<job[w].id, row.event>> \notin claimed'
           => events[row.event] # None /\ events[row.event].meeting = job[w].id
      /\ Here(w).scheduledAt # None => row.scheduledAt # None
      /\ Here(w).completedAt => row.completedAt
  <2>1. CASE Confirm(w)
    <3>1. row = [Here(w) EXCEPT !.confirmedAt = TRUE]
      BY <2>1, <1>2, <1>4 DEF Confirm, Write
    <3>2. Here(w).scheduledAt # None
      BY <2>1, <1>2, <1>3 DEF Confirm, Write, JobInv
    <3> QED
      BY <2>1, <3>1, <3>2, <1>2, <1>4 DEF Confirm, Write, Row, Backed, OwnEvent
  <2>2. CASE StartMeeting(w)
    <3>1. row = [Here(w) EXCEPT !.status = "IN_PROGRESS", !.confirmedAt = TRUE]
      BY <2>2, <1>2, <1>4 DEF StartMeeting, Write
    <3>2. Here(w).scheduledAt # None
      BY <2>2, <1>2, <1>3 DEF StartMeeting, Write, JobInv
    <3> QED
      BY <2>2, <3>1, <3>2, <1>2, <1>4 DEF StartMeeting, Write, Row, Backed, Status, OwnEvent
  <2>3. CASE Complete(w)
    <3>1. row = [Here(w) EXCEPT !.status = "COMPLETED", !.completedAt = TRUE]
      BY <2>3, <1>2, <1>4 DEF Complete, Write
    <3>2. Here(w).scheduledAt # None
      BY <2>3, <1>2, <1>3 DEF Complete, Write, JobInv
    <3> QED
      BY <2>3, <3>1, <3>2, <1>2, <1>4 DEF Complete, Write, Row, Backed, Status, OwnEvent
  <2>4. CASE Cancel(w)
    <3>1. row = [Here(w) EXCEPT !.status = "CANCELLED", !.cancelledAt = TRUE,
                                !.cancellationReason = TRUE]
      BY <2>4, <1>2, <1>4 DEF Cancel, Write
    <3> QED
      BY <2>4, <3>1, <1>2, <1>4 DEF Cancel, Write, Row, Backed, Status, OwnEvent
  <2>5. CASE Reject(w)
    <3>1. row = [Here(w) EXCEPT !.status = "REJECTED", !.cancellationReason = TRUE]
      BY <2>5, <1>2, <1>4 DEF Reject, Write
    <3> QED
      BY <2>5, <3>1, <1>2, <1>4 DEF Reject, Write, Row, Backed, Status, OwnEvent
  <2>6. CASE PublishMom(w)
    <3>1. row = [Here(w) EXCEPT !.momPublishedAt = TRUE]
      BY <2>6, <1>2, <1>4 DEF PublishMom, Write
    <3>2. Here(w).completedAt
      BY <2>6, <1>2, <1>3 DEF PublishMom, Write, JobInv
    <3> QED
      BY <2>6, <3>1, <3>2, <1>2, <1>4 DEF PublishMom, Write, Row, Backed, OwnEvent
  <2>7. CASE Remove(w)
    <3>1. row = [Here(w) EXCEPT !.isDeleted = TRUE]
      BY <2>7, <1>2, <1>4 DEF Remove, Write
    <3> QED
      BY <2>7, <3>1, <1>2, <1>4 DEF Remove, Write, Row, Backed, OwnEvent
  <2>8. CASE Update(w)
    <3>1. CASE UNCHANGED <<meeting, claimed>>
      BY <3>1, <1>2, <1>4 DEF OwnEvent
    <3>2. ASSUME NEW e \in Events \cup {None}, Claim(job[w].id, e),
                 meeting' = [meeting EXCEPT ![job[w].id] = [Here(w) EXCEPT !.event = e]]
          PROVE  <1>5
      <4>1. row = [Here(w) EXCEPT !.event = e]
        BY <3>2, <1>2, <1>4
      <4>2. e # None => <<job[w].id, e>> \in claimed'
        BY <3>2 DEF Claim
      <4> QED
        BY <3>2, <4>1, <4>2, <1>2, <1>4 DEF Row, Backed
    <3> QED
      BY <2>8, <3>1, <3>2 DEF Update
  <2> QED
    BY <2>1, <2>2, <2>3, <2>4, <2>5, <2>6, <2>7, <2>8
<1> QED
  BY <1>1, <1>2, <1>5, RowWritten

LEMMA Recorded ==
  ASSUME IInv, NEW w \in Workers, RecordEvent(w)
  PROVE  IInv'
<1> DEFINE row == [Here(w) EXCEPT !.event = job[w].event]
<1>1. pc[w] # "idle" /\ Respond(w) /\ UNCHANGED <<events, claimed>>
      /\ meeting' = [meeting EXCEPT ![job[w].id] = row]
  BY DEF RecordEvent
<1>2. /\ job[w].id \in Meetings /\ Here(w) \in Row
      /\ Here(w) = meeting[job[w].id] /\ Here(w) # None
      /\ Backed(Here(w))
      /\ Here(w).momPublishedAt => Here(w).completedAt
      /\ OwnEvent(job[w].event, job[w].id)
  BY <1>1, HereHolds
<1>3. job[w].event \in Events \cup {None}
  BY <1>1 DEF IInv, Typed, JobInv, Job
<1>4. /\ row \in Row /\ Backed(row)
      /\ row.momPublishedAt => row.completedAt
      /\ row.event = job[w].event
      /\ Here(w).scheduledAt # None => row.scheduledAt # None
      /\ Here(w).completedAt => row.completedAt
  BY <1>2, <1>3 DEF Row, Backed
<1>5. row.event # None /\ <<job[w].id, row.event>> \notin claimed'
        => events[row.event] # None /\ events[row.event].meeting = job[w].id
  BY <1>1, <1>2, <1>4 DEF OwnEvent
<1>6. claimed \subseteq claimed' /\ claimed' \subseteq Claims
  BY <1>1 DEF IInv, Typed
<1> QED
  BY <1>1, <1>2, <1>4, <1>5, <1>6, RowWritten

\* The steps that write no row.
LEMMA OthersKeep ==
  ASSUME IInv, NEW w \in Workers, UNCHANGED meeting, Keeps, Typed', JobInv(w)',
         \A v \in Workers : v # w => pc'[v] = pc[v] /\ job'[v] = job[v]
  PROVE  IInv'
<1>1. ASSUME NEW m \in Meetings PROVE RowInv(m)'
  <2> SUFFICES ASSUME meeting[m] # None PROVE OwnEvent(meeting[m].event, m)'
    BY DEF RowInv, Backed, IInv
  <2>1. meeting[m].event \in Events \cup {None} /\ OwnEvent(meeting[m].event, m)
    BY DEF IInv, Typed, RowInv, Row
  <2> QED
    BY <2>1 DEF Keeps, OwnEvent
<1>2. ASSUME NEW v \in Workers PROVE JobInv(v)'
  BY JobKept DEF IInv
<1> QED
  BY <1>1, <1>2 DEF IInv

LEMMA Failed ==
  ASSUME IInv, NEW w \in Workers, Fail(w)
  PROVE  IInv'
<1>1. Respond(w) /\ UNCHANGED <<meeting, events, claimed>>
  BY DEF Fail
<1>2. Typed' /\ Keeps /\ JobInv(w)'
      /\ \A v \in Workers : v # w => pc'[v] = pc[v] /\ job'[v] = job[v]
  BY <1>1, JobDone DEF IInv, Typed, Keeps
<1> QED
  BY <1>1, <1>2, OthersKeep

\* A date is set, and the handler either answers or goes on to the sync.
LEMMA Scheduled ==
  ASSUME IInv, NEW w \in Workers, Schedule(w)
  PROVE  IInv'
<1> PICK t \in Times :
      Write(w, "schedule",
         [Here(w) EXCEPT !.status = "SCHEDULED", !.scheduledAt = t, !.confirmedAt = FALSE,
                         !.cancellationReason = FALSE, !.cancelledAt = FALSE])
  BY DEF Schedule
<1> DEFINE row == [Here(w) EXCEPT !.status = "SCHEDULED", !.scheduledAt = t,
                     !.confirmedAt = FALSE, !.cancellationReason = FALSE,
                     !.cancelledAt = FALSE]
<1>1. /\ pc[w] = "write" /\ UNCHANGED <<events, claimed>>
      /\ meeting' = [meeting EXCEPT ![job[w].id] = row]
  BY DEF Write
<1>2. /\ job[w].id \in Meetings /\ Here(w) \in Row
      /\ Here(w) = meeting[job[w].id] /\ Here(w) # None
      /\ Here(w).momPublishedAt => Here(w).completedAt
      /\ OwnEvent(Here(w).event, job[w].id)
      /\ OwnEvent(job[w].event, job[w].id)
  BY <1>1, HereHolds
<1>3. t # None
  BY ConstantsAssumption
<1>4. /\ row \in Row /\ Backed(row)
      /\ row.momPublishedAt => row.completedAt
      /\ OwnEvent(row.event, job[w].id)
      /\ row.scheduledAt # None
      /\ Here(w).completedAt => row.completedAt
  BY <1>2, <1>3 DEF Row, Backed, Status
<1>5. CASE Respond(w)
  <2>1. row.event # None /\ <<job[w].id, row.event>> \notin claimed'
          => events[row.event] # None /\ events[row.event].meeting = job[w].id
    BY <1>1, <1>4 DEF OwnEvent
  <2>2. claimed \subseteq claimed' /\ claimed' \subseteq Claims
    BY <1>1 DEF IInv, Typed
  <2> QED
    BY <1>1, <1>2, <1>4, <1>5, <2>1, <2>2, RowWritten
<1>6. CASE Goto(w, "reread") /\ UNCHANGED job
  <2>1. /\ meeting' \in [Meetings -> Row \cup {None}] /\ row # None
        /\ meeting'[job[w].id] = row
        /\ \A n \in Meetings : n # job[w].id => meeting'[n] = meeting[n]
    BY <1>1, <1>2, <1>4, ConstantsAssumption DEF IInv, Typed
  <2>2. Keeps
    BY <1>1, <1>2, <1>4, <2>1 DEF Keeps
  <2>3. Typed'
    BY <1>1, <1>6, <2>1 DEF IInv, Typed, Goto
  <2>4. pc'[w] = "reread" /\ \A v \in Workers : v # w => pc'[v] = pc[v]
    BY <1>6 DEF Goto, IInv, Typed
  <2>5. ASSUME NEW n \in Meetings PROVE RowInv(n)'
    BY <1>1, <1>4, <2>1, <2>5 DEF RowInv, OwnEvent, Backed, IInv
  <2>6. JobInv(w)'
    <3>1. job[w] # None
      BY <1>1 DEF IInv, JobInv
    <3> QED
      BY <3>1, <1>1, <1>2, <1>6, <2>1, <2>4 DEF JobInv, OwnEvent
  <2>7. ASSUME NEW v \in Workers, v # w PROVE JobInv(v)'
    BY <1>6, <2>2, <2>4, <2>7, JobKept DEF IInv
  <2> QED
    BY <2>3, <2>5, <2>6, <2>7 DEF IInv
<1> QED
  BY <1>5, <1>6 DEF Schedule

LEMMA Created ==
  ASSUME IInv, NEW m \in Meetings, Create(m)
  PROVE  IInv'
<1> PICK e \in Events \cup {None} :
      /\ Claim(m, e)
      /\ meeting' = [meeting EXCEPT ![m] =
           [status |-> "REQUESTED", scheduledAt |-> None, confirmedAt |-> FALSE,
            completedAt |-> FALSE, cancelledAt |-> FALSE, cancellationReason |-> FALSE,
            momPublishedAt |-> FALSE, event |-> e, isDeleted |-> FALSE]]
  BY DEF Create
<1> DEFINE row == [status |-> "REQUESTED", scheduledAt |-> None, confirmedAt |-> FALSE,
                   completedAt |-> FALSE, cancelledAt |-> FALSE, cancellationReason |-> FALSE,
                   momPublishedAt |-> FALSE, event |-> e, isDeleted |-> FALSE]
<1>1. /\ meeting[m] = None /\ meeting' = [meeting EXCEPT ![m] = row]
      /\ UNCHANGED <<events, pc, job>>
      /\ claimed \subseteq claimed' /\ claimed' \subseteq Claims
      /\ e # None => <<m, e>> \in claimed'
  BY DEF Create, Claim, IInv, Typed
<1>2. row \in Row
  BY DEF Row, Status
<1>3. /\ meeting' \in [Meetings -> Row \cup {None}] /\ row # None /\ meeting'[m] = row
      /\ \A n \in Meetings : n # m => meeting'[n] = meeting[n]
  <2>1. row # None
    BY <1>2, ConstantsAssumption
  <2>2. meeting \in [Meetings -> Row \cup {None}]
    BY DEF IInv, Typed
  <2> HIDE DEF row
  <2> QED
    BY ONLY <1>1, <1>2, <2>1, <2>2, m \in Meetings
<1>4. Typed' /\ Keeps
  BY <1>1, <1>3 DEF IInv, Typed, Keeps
<1>5. Backed(row) /\ ~ row.momPublishedAt /\ row.event = e
  BY DEF Backed
<1>6. ASSUME NEW n \in Meetings PROVE RowInv(n)'
  BY <1>1, <1>3, <1>5, <1>6 DEF RowInv, OwnEvent, Backed, IInv
<1>7. ASSUME NEW v \in Workers PROVE JobInv(v)'
  BY <1>1, <1>4, JobKept DEF IInv
<1> QED
  BY <1>4, <1>6, <1>7 DEF IInv

LEMMA Begun ==
  ASSUME IInv, NEW w \in Workers, NEW m \in Meetings, NEW op \in AllOps, NEW u \in Users,
         Begin(w, m, op, u)
  PROVE  IInv'
<1> DEFINE new == [op |-> op, id |-> m, user |-> u, time |-> None, event |-> None]
<1>1. /\ meeting[m] # None /\ Allowed(op, meeting[m]) /\ UNCHANGED <<meeting, events, claimed>>
      /\ pc' = [pc EXCEPT ![w] = IF op = "googleSync" THEN "reread" ELSE "write"]
      /\ job' = [job EXCEPT ![w] = new]
  BY DEF Begin, Goto
<1>2. new \in Job /\ new # None
  BY ConstantsAssumption DEF Job
<1>3. /\ job'[w] = new /\ pc'[w] = IF op = "googleSync" THEN "reread" ELSE "write"
      /\ \A v \in Workers : v # w => pc'[v] = pc[v] /\ job'[v] = job[v]
  BY <1>1 DEF IInv, Typed
<1>4. Typed' /\ Keeps
  BY <1>1, <1>2 DEF IInv, Typed, Keeps
<1>5. meeting[m] \in Row /\ RowInv(m)
  BY <1>1 DEF IInv, Typed
<1>6. op \in {"confirm", "start", "complete"} => meeting[m].scheduledAt # None
  BY <1>1, <1>5 DEF Allowed, AllowedFrom, RowInv, Backed
<1>7. op = "publishMom" => meeting[m].completedAt
  BY <1>1, <1>5 DEF Allowed, AllowedFrom, RowInv, Backed
<1>8. JobInv(w)'
  BY <1>1, <1>2, <1>3, <1>6, <1>7 DEF JobInv, OwnEvent
<1> QED
  BY <1>1, <1>3, <1>4, <1>8, OthersKeep

LEMMA WasReread ==
  ASSUME IInv, NEW w \in Workers, Reread(w)
  PROVE  IInv'
<1> DEFINE new == [job[w] EXCEPT !.time = Here(w).scheduledAt, !.event = Here(w).event]
<1>1. /\ pc[w] = "reread" /\ Here(w).scheduledAt # None /\ UNCHANGED <<meeting, events, claimed>>
      /\ pc' = [pc EXCEPT ![w] = "google"]
      /\ job' = [job EXCEPT ![w] = new]
  BY DEF Reread, Goto
<1>2. /\ job[w].id \in Meetings /\ Here(w) \in Row
      /\ Here(w) = meeting[job[w].id] /\ Here(w) # None
      /\ OwnEvent(Here(w).event, job[w].id)
  BY <1>1, HereHolds
<1>3. job[w] \in Job
  BY <1>1 DEF IInv, Typed, JobInv
<1>4. new \in Job /\ new.id = job[w].id /\ new.op = job[w].op
      /\ new.time = Here(w).scheduledAt /\ new.event = Here(w).event
  BY <1>2, <1>3 DEF Job, Row
<1>5. /\ job'[w] = new /\ pc'[w] = "google" /\ new # None
      /\ \A v \in Workers : v # w => pc'[v] = pc[v] /\ job'[v] = job[v]
  <2>1. new # None
    BY <1>4, ConstantsAssumption
  <2>2. job \in [Workers -> Job \cup {None}] /\ DOMAIN pc = Workers
    BY DEF IInv, Typed
  <2> HIDE DEF new
  <2> QED
    BY <1>1, <2>1, <2>2
<1>6. Typed' /\ Keeps
  <2>1. job' \in [Workers -> Job \cup {None}]
    BY ONLY <1>1, <1>4, IInv DEF IInv, Typed
  <2> HIDE DEF new
  <2>2. Typed'
    BY <1>1, <2>1 DEF IInv, Typed
  <2> QED
    BY <1>1, <2>2 DEF Keeps
<1>7. JobInv(w)'
  <2> HIDE DEF new
  <2>1. OwnEvent(new.event, new.id)
    BY <1>2, <1>4
  <2>2. OwnEvent(job[w].event, job[w].id)'
    BY <1>1, <1>5, <2>1 DEF OwnEvent
  <2>3. meeting'[job'[w].id] # None /\ job'[w].time # None
    BY <1>1, <1>2, <1>4, <1>5
  <2> QED
    BY ONLY <1>5, <2>2, <2>3 DEF JobInv
<1> QED
  BY <1>1, <1>5, <1>6, <1>7, OthersKeep

LEMMA EventCreated ==
  ASSUME IInv, NEW w \in Workers, CreateEvent(w)
  PROVE  IInv'
<1> PICK e \in Events :
      /\ events[e] = None
      /\ events' = [events EXCEPT ![e] =
           [meeting |-> job[w].id, calendar |-> job[w].user, time |-> job[w].time]]
      /\ job' = [job EXCEPT ![w] = [job[w] EXCEPT !.event = e]]
  BY DEF CreateEvent, IInv, Typed
<1> DEFINE new == [job[w] EXCEPT !.event = e]
           ev == [meeting |-> job[w].id, calendar |-> job[w].user, time |-> job[w].time]
<1>1. pc[w] = "google" /\ UNCHANGED <<meeting, claimed>> /\ pc' = [pc EXCEPT ![w] = "record"]
  BY DEF CreateEvent, Goto
<1>2. job[w] \in Job /\ job[w].time # None /\ meeting[job[w].id] # None
  BY <1>1 DEF IInv, Typed, JobInv
<1>3. ev \in Event /\ ev # None
  BY <1>2, ConstantsAssumption DEF Job, Event
<1>4. new \in Job /\ new # None /\ new.id = job[w].id /\ new.event = e
  BY <1>2, ConstantsAssumption DEF Job
<1>5. /\ job'[w] = new /\ pc'[w] = "record"
      /\ \A v \in Workers : v # w => pc'[v] = pc[v] /\ job'[v] = job[v]
      /\ events'[e] = ev
      /\ \A f \in Events : f # e => events'[f] = events[f]
  BY <1>1 DEF IInv, Typed
<1>6. Typed'
  BY <1>1, <1>3, <1>4 DEF IInv, Typed
<1>7. Keeps
  BY <1>1, <1>5 DEF Keeps
<1>8. JobInv(w)'
  <2>1. job'[w].event = e /\ job'[w].id = job[w].id /\ job'[w] # None
    BY <1>4, <1>5
  <2>2. events'[e] # None /\ events'[e].meeting = job[w].id
    BY <1>3, <1>5
  <2>3. OwnEvent(job[w].event, job[w].id)'
    BY <2>1, <2>2 DEF OwnEvent
  <2>4. events'[job'[w].event] # None /\ job'[w].event # None
    BY <2>1, <2>2, ConstantsAssumption
  <2>5. meeting'[job'[w].id] # None /\ pc'[w] = "record"
    BY <1>1, <1>2, <1>5, <2>1
  <2> QED
    BY ONLY <2>1, <2>3, <2>4, <2>5 DEF JobInv
<1> QED
  BY <1>1, <1>5, <1>6, <1>7, <1>8, OthersKeep

LEMMA EventPatched ==
  ASSUME IInv, NEW w \in Workers, PatchEvent(w)
  PROVE  IInv'
<1> DEFINE e == job[w].event
           ev == [events[e] EXCEPT !.time = job[w].time]
<1>1. /\ pc[w] = "google" /\ e # None /\ events[e] # None /\ UNCHANGED <<meeting, job, claimed>>
      /\ pc' = [pc EXCEPT ![w] = "record"]
  BY DEF PatchEvent, Goto
<1>2. /\ job[w] \in Job /\ job[w].time # None /\ job[w] # None
      /\ meeting[job[w].id] # None /\ OwnEvent(e, job[w].id)
  BY <1>1 DEF IInv, Typed, JobInv
<1>3. e \in Events /\ events[e] # None /\ events[e] \in Event
      /\ job[w].time \in Times
  BY <1>1, <1>2 DEF IInv, Typed, Job, OwnEvent
<1>4. events' = [events EXCEPT ![e] = ev]
  BY <1>3 DEF PatchEvent, IInv, Typed
<1>5. ev \in Event /\ ev # None /\ ev.meeting = events[e].meeting
  BY <1>3, ConstantsAssumption DEF Event
<1>6. /\ pc'[w] = "record" /\ \A v \in Workers : v # w => pc'[v] = pc[v] /\ job'[v] = job[v]
      /\ events'[e] = ev
      /\ \A f \in Events : f # e => events'[f] = events[f]
  BY <1>1, <1>3, <1>4 DEF IInv, Typed
<1>7. Typed'
  BY <1>1, <1>4, <1>5 DEF IInv, Typed
<1>8. Keeps
  BY <1>1, <1>5, <1>6 DEF Keeps
<1>9. JobInv(w)'
  BY <1>1, <1>2, <1>5, <1>6 DEF JobInv, OwnEvent
<1> QED
  BY <1>1, <1>6, <1>7, <1>8, <1>9, OthersKeep

LEMMA InitHolds == Init => IInv
  BY DEF Init, IInv, Typed, RowInv, JobInv

LEMMA Inductive == IInv /\ [Next]_vars => IInv'
<1> SUFFICES ASSUME IInv, [Next]_vars PROVE IInv'
  OBVIOUS
<1>1. ASSUME NEW m \in Meetings, Create(m) PROVE IInv'
  BY <1>1, Created
<1>2. ASSUME NEW w \in Workers, NEW call \in Ops, NEW u \in Users,
             Begin(w, call[1], call[2], u)
      PROVE  IInv'
  <2>1. call[1] \in Meetings /\ call[2] \in AllOps
    BY ConstantsAssumption
  <2> QED
    BY <1>2, <2>1, Begun
<1>3. ASSUME NEW w \in Workers, Handle(w) PROVE IInv'
  BY <1>3, Scheduled, Writes DEF Handle
<1>4. ASSUME NEW w \in Workers, Sync(w) PROVE IInv'
  BY <1>4, WasReread, EventCreated, EventPatched, Recorded DEF Sync
<1>5. ASSUME NEW w \in Workers, Fail(w) PROVE IInv'
  BY <1>5, Failed
<1>6. ASSUME UNCHANGED vars PROVE IInv'
  BY <1>6 DEF vars, IInv, Typed, RowInv, JobInv, OwnEvent, Backed
<1> QED
  BY <1>1, <1>2, <1>3, <1>4, <1>5, <1>6 DEF Next

LEMMA Invariance == Spec => []IInv
  BY InitHolds, Inductive, PTL DEF Spec

\* The table, the calendar and the handlers have their types, and a handler that
\* is about to record an event holds one that Google has, whatever ids clients
\* wrote into meetings (syncMeetingWithGoogle).
THEOREM TypeCorrect == Spec => []TypeOK
<1>1. IInv => TypeOK
  BY DEF IInv, Typed, JobInv, TypeOK
<1> QED
  BY <1>1, Invariance, PTL

\* With any number of overlapping handlers, the status of a meeting and the
\* columns it is shown with agree (the lifecycle endpoints of handler.ts).
THEOREM StatusBacked == Spec => []StatusIsBacked
<1>1. IInv => StatusIsBacked
  BY DEF IInv, RowInv, Backed, StatusIsBacked
<1> QED
  BY <1>1, Invariance, PTL

\* With any number of overlapping handlers, minutes are only published of a
\* meeting that has been completed.
THEOREM MinutesAfterCompletion == Spec => []MinutesFollowCompletion
<1>1. IInv => MinutesFollowCompletion
  BY DEF IInv, RowInv, MinutesFollowCompletion
<1> QED
  BY <1>1, Invariance, PTL

\* With any number of overlapping syncs and whatever ids clients write, a meeting
\* records an event of its own, or one that a client wrote into this meeting.
THEOREM EventsAreOwn == Spec => []EventIsOwn
<1>1. IInv => EventIsOwn
  BY DEF IInv, RowInv, OwnEvent, EventIsOwn
<1> QED
  BY <1>1, Invariance, PTL

===============================================================================
