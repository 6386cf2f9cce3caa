----------------------------- MODULE Notifications -----------------------------
(***************************************************************************)
(* The notification service, one process.  A request to notify reads the      *)
(* preferences of its recipients, inserts one row for each of them, hands the  *)
(* rows to the open sockets of this process, and leaves behind a push job that *)
(* nobody waits for.  Tokens of browsers are registered in two statements,     *)
(* preferences are created when they are first read, and a cron deletes what   *)
(* is old.                                                                    *)
(***************************************************************************)
EXTENDS Tables, FiniteSets, Naturals

CONSTANTS
  Recipients,    \* users
  Batches,       \* the rows of one INSERT: a notification is a batch and its user (bounds the inserts)
  PushTokens,    \* tokens of Firebase
  Devices,       \* devices a token may name
  Sockets,       \* connections (bounds how many are opened)
  TemplateIds,   \* primary keys of templates; SeedId is the one of the seed
  SeedId,
  TemplateKeys,  \* keys of templates, with SystemKey and RetiredKey
  SystemKey,     \* "property-published"
  RetiredKey,    \* "custom-announcement", which the seeding deletes
  NoticeBodies,  \* what is asked to be sent (bounds the requests)
  NoticeScopes   \* a behaviour takes its calls and its keys from one of these

Channels == {"email", "dashboard", "push"}
DeliveryChannels == {"DASHBOARD", "PUSH", "BOTH"}

NoticeOps == {"send", "property", "test", "register", "unregister", "getPreference",
              "updatePreference", "updateTemplate", "createTemplate", "deleteTemplate",
              "seed", "socket", "socketError", "stream", "read", "cron", "purgeUser", "crash"}

OrNull(S) == S \cup {None}

\* members: of the organization that is named, by the roles that are named; to:
\* recipientUserIds; audience: the users of the panel and roles that are named.
NoticeBody == [members : OrNull(SUBSET Recipients), to : SUBSET Recipients,
               audience : SUBSET Recipients, key : OrNull(TemplateKeys),
               channel : DeliveryChannels]

\* life: with deletedAt the row is deleted, and ten hours later expired.
Notice == [life : {"live", "deleted", "expired", "gone"}, read : BOOLEAN,
           archived : BOOLEAN, key : OrNull(TemplateKeys), pushStatus : {"QUEUED", "SKIPPED"}]

\* quiet: not updated for fourteen days; stale: not seen for ninety.
PushSubscription == [user : Recipients, device : OrNull(Devices), active : BOOLEAN,
                     quiet : BOOLEAN, stale : BOOLEAN]

Template == [key : TemplateKeys, content : {"seed", "custom"}, active : BOOLEAN]

Connection == [user : Recipients, kind : {"socket", "stream"},
               got : SUBSET Batches, state : {"open", "failed", "closed"}, group : Sockets, unsubscribed : 0..2]

NoticeSteps == {"queue", "insert", "publish", "count", "push", "deliver", "deactivate", "write",
                "clear", "find", "createPreference", "setPreference"}

Sending == [op : NoticeSteps,
            by : NoticeOps, to : SUBSET Recipients, dashboard : SUBSET Recipients,
            push : SUBSET Recipients, channel : DeliveryChannels, key : OrNull(TemplateKeys),
            batch : OrNull(Batches), tokens : SUBSET PushTokens, user : OrNull(Recipients),
            device : OrNull(Devices), template : OrNull(TemplateIds), setting : OrNull(Channels), value : BOOLEAN]

NoticeScope == [calls : SUBSET NoticeOps, users : SUBSET Recipients, batches : SUBSET Batches,
                tokens : SUBSET PushTokens, sockets : SUBSET Sockets]

ASSUME NotificationsAssumption ==
  /\ Batches \subseteq Nat /\ Sockets \subseteq Nat
  /\ SeedId \in TemplateIds /\ {SystemKey, RetiredKey} \subseteq TemplateKeys
  /\ NoticeBodies \subseteq NoticeBody
  /\ NoticeScopes \subseteq NoticeScope
  /\ None \notin Recipients /\ None \notin TemplateKeys /\ None \notin Devices
  /\ None \notin TemplateIds /\ None \notin Sockets /\ None \notin Batches
  /\ None \notin Sending /\ None \notin Connection

VARIABLES
  notice,        \* table notification, by batch and user
  pushToken,     \* table notification_push_subscription, by token
  preference,    \* table notification_preference, by user: the channels that are enabled
  template,      \* table notification_template
  purged,        \* users the kernel service has deleted for good
  conn,          \* connections of this process
  registry,      \* realtimeSubscribers: a Set is named after the connection that made it
  group,         \* the members of each Set
  sending,       \* what each handler keeps across its awaits
  halfDone,      \* tokens whose registration did not reach its second statement
  cron,          \* notificationDeletePurgeCronPromise: the deletions still to come
  noticeScope    \* the scope of this behaviour

noticeTables == <<notice, pushToken, preference, template, purged>>
realtime == <<conn, registry, group>>
notificationsVars == <<noticeTables, realtime, sending, halfDone, cron, noticeScope>>

-----------------------------------------------------------------------------
(* Realtime *)

\* subscribeToUserNotifications, called when the socket or the stream opens.
Subscribe(s, u, kind) ==
  LET set == IF registry[u] = None THEN s ELSE registry[u]
  IN  /\ kind \in noticeScope.calls
      /\ conn[s] = None /\ \A r \in Sockets : r < s => conn[r] # None
      /\ u \notin purged
      /\ conn' = [conn EXCEPT ![s] = [user |-> u, kind |-> kind, got |-> {}, state |-> "open",
                                      group |-> set, unsubscribed |-> 0]]
      /\ group' = [group EXCEPT ![set] = @ \cup {s}]
      /\ registry' = [registry EXCEPT ![u] = set]
      /\ UNCHANGED <<noticeTables, sending, halfDone, cron, noticeScope>>

Unsubscribe_ForgetsOthers(s, state) ==
  /\ group' = [group EXCEPT ![conn[s].group] = @ \ {s}]
  /\ registry' = [registry EXCEPT ![conn[s].user] = None]
  /\ conn' = [conn EXCEPT ![s].state = state, ![s].unsubscribed = @ + 1]
  /\ UNCHANGED <<noticeTables, sending, halfDone, cron, noticeScope>>

\* What subscribeToUserNotifications returned: it leaves its own Set, and drops
\* whatever Set the user has now if its own is empty.
Unsubscribe(s, state) ==
  /\ group' = [group EXCEPT ![conn[s].group] = @ \ {s}]
  /\ registry' = [registry EXCEPT ![conn[s].user] =
                    IF group'[conn[s].group] = {} THEN None ELSE @]
  /\ conn' = [conn EXCEPT ![s].state = state, ![s].unsubscribed = @ + 1]
  /\ UNCHANGED <<noticeTables, sending, halfDone, cron, noticeScope>>

\* A socket that fails reports the error, and closes some time after.
SocketError(s) ==
  /\ "socketError" \in noticeScope.calls
  /\ conn[s] # None /\ conn[s].kind = "socket" /\ conn[s].state = "open"
  /\ Unsubscribe(s, "failed")

SocketClose(s) ==
  /\ conn[s] # None /\ conn[s].kind = "socket" /\ conn[s].state \in {"open", "failed"}
  /\ Unsubscribe(s, "closed")

StreamCancel(s) ==
  /\ conn[s] # None /\ conn[s].kind = "stream" /\ conn[s].state = "open"
  /\ Unsubscribe(s, "closed")

Registered(s) == registry[conn[s].user] # None /\ s \in group[registry[conn[s].user]]

IsOpen(s) == conn[s] # None /\ conn[s].state = "open"

-----------------------------------------------------------------------------
(* The steps of a handler *)

NewSending(op) ==
  [op |-> op, by |-> op, to |-> {}, dashboard |-> {}, push |-> {}, channel |-> "BOTH", key |-> None,
   batch |-> None, tokens |-> {}, user |-> None, device |-> None, template |-> None, setting |-> None, value |-> FALSE]

Calls(w, t) ==
  /\ sending[w] = None /\ t.by \in noticeScope.calls
  /\ sending' = [sending EXCEPT ![w] = t]
  /\ UNCHANGED <<noticeTables, realtime, halfDone, cron, noticeScope>>

At(w, op) == sending[w] # None /\ sending[w].op = op

Goes(w, t) ==
  /\ sending' = [sending EXCEPT ![w] = t]
  /\ UNCHANGED <<realtime, halfDone, cron, noticeScope>>

Does(w, op) == At(w, op) /\ Goes(w, None)

\* A handler that writes in its first step.
Once(op) ==
  /\ op \in noticeScope.calls
  /\ UNCHANGED <<realtime, sending, halfDone, cron, noticeScope>>

\* getNotificationPreferencesForUsers: who has not turned the channel off.
Enabled(us, channel) == {u \in us : preference[u] = None \/ channel \in preference[u]}

ActiveTokens(us) == {t \in PushTokens : pushToken[t] # None /\ pushToken[t].active /\ pushToken[t].user \in us}

-----------------------------------------------------------------------------
(* Sending *)

\* resolveNotificationRecipients: with an organization the recipients that are
\* named do not matter; with none named everybody in the audience is meant.
ResolvedRecipients(body) ==
  (IF body.members # None THEN body.members
   ELSE IF body.to = {} THEN body.audience ELSE body.to \cap body.audience) \ purged

\* resolveNotificationPayload: the system template is built in, the others are rows.
HasPayload(key) ==
  \/ key \in {None, SystemKey}
  \/ \E i \in TemplateIds : template[i] # None /\ template[i].key = key /\ template[i].active

\* send and broadcast
SendBegin(w, body) ==
  /\ HasPayload(body.key)
  /\ Calls(w, [NewSending("send") EXCEPT !.op = "queue", !.to = ResolvedRecipients(body),
                                         !.channel = body.channel, !.key = body.key])

\* notifyPropertyPublished: e-mails first, to the owners who want them; their failures are logged.
PropertyPublished(w, owners) ==
  /\ owners # {}
  /\ Calls(w, [NewSending("property") EXCEPT !.op = "queue", !.to = owners, !.key = SystemKey])

\* queueNotificationForUsers reads the preferences once, for both channels.
ReadPreferences(w) ==
  LET t == sending[w]
  IN  /\ At(w, "queue")
      /\ Goes(w, [t EXCEPT !.op = "insert",
                           !.dashboard = IF t.channel = "PUSH" THEN {} ELSE Enabled(t.to, "dashboard"),
                           !.push = Enabled(t.to, "push")])
      /\ UNCHANGED noticeTables

UnusedBatch(b) == b \in noticeScope.batches /\ \A u \in Recipients : notice[b][u] = None

FreshBatch(b) == UnusedBatch(b) /\ \A c \in Batches : UnusedBatch(c) => b <= c

\* One INSERT for all of them: a user who is gone makes it fail, for everybody.
InsertNotices(w) ==
  LET t == sending[w]
      row == [life |-> "live", read |-> FALSE, archived |-> FALSE, key |-> t.key,
              pushStatus |-> IF t.channel = "DASHBOARD" THEN "SKIPPED" ELSE "QUEUED"]
  IN  /\ At(w, "insert")
      /\ \/ t.dashboard = {} /\ Goes(w, [t EXCEPT !.op = "count"]) /\ UNCHANGED notice
         \/ t.dashboard \cap purged # {} /\ Goes(w, None) /\ UNCHANGED notice
         \/ /\ t.dashboard # {} /\ t.dashboard \cap purged = {}
            /\ \E b \in Batches :
                 /\ FreshBatch(b)
                 /\ notice' = [notice EXCEPT ![b] = [u \in Recipients |-> IF u \in t.dashboard THEN row ELSE None]]
                 /\ Goes(w, [t EXCEPT !.op = "publish", !.batch = b])
      /\ UNCHANGED <<pushToken, preference, template, purged>>

\* publishRealtimeNotifications: every open connection registered for the user of a row.
Publish(w) ==
  LET t == sending[w]
  IN  /\ At(w, "publish")
      /\ conn' = [s \in Sockets |->
                    IF conn[s] # None /\ conn[s].user \in t.dashboard /\ Registered(s)
                    THEN [conn[s] EXCEPT !.got = @ \cup {t.batch}] ELSE conn[s]]
      /\ sending' = [sending EXCEPT ![w] = [t EXCEPT !.op = "count"]]
      /\ UNCHANGED <<noticeTables, registry, group, halfDone, cron, noticeScope>>

\* The tokens are counted for the answer; then the push job goes on by itself.
CountTokens(w) ==
  LET t == sending[w]
  IN  /\ At(w, "count")
      /\ Goes(w, IF t.channel = "DASHBOARD" THEN None
                 ELSE [t EXCEPT !.op = "push", !.dashboard = {}, !.batch = None])
      /\ UNCHANGED noticeTables

-----------------------------------------------------------------------------
(* The push job *)

\* testMyPushNotification waits for it.
TestPush(w, u) == Calls(w, [NewSending("test") EXCEPT !.op = "push", !.to = {u}, !.push = {u}])

\* sendPushFireAndForget reads preferences and tokens again.
ReadTokens(w) ==
  LET t == sending[w]
  IN  /\ At(w, "push")
      /\ Goes(w, [t EXCEPT !.op = "deliver", !.tokens = ActiveTokens(Enabled(t.push, "push"))])
      /\ UNCHANGED noticeTables

\* sendPushToTokens: Firebase answers for each token; those it does not know come back.
Deliver(w, invalid) ==
  LET t == sending[w]
  IN  /\ At(w, "deliver") /\ invalid \subseteq t.tokens
      /\ Goes(w, IF invalid = {} THEN None ELSE [t EXCEPT !.op = "deactivate", !.tokens = invalid])
      /\ UNCHANGED noticeTables

DeactivatePushTokens(w) ==
  LET t == sending[w]
  IN  /\ Does(w, "deactivate")
      /\ pushToken' = [k \in PushTokens |-> IF k \in t.tokens /\ pushToken[k] # None
                         THEN [pushToken[k] EXCEPT !.active = FALSE, !.quiet = FALSE] ELSE pushToken[k]]
      /\ UNCHANGED <<notice, preference, template, purged>>

\* A job nobody waits for rejects: the process dies, with its connections and
\* its handlers, and starts again.
PushFails(w) ==
  /\ "crash" \in noticeScope.calls
  /\ sending[w] # None /\ sending[w].op \in {"push", "deliver", "deactivate"}
  /\ IF sending[w].by = "test"
     THEN sending' = [sending EXCEPT ![w] = None] /\ UNCHANGED <<realtime, halfDone, cron>>
     ELSE /\ sending' = [v \in Workers |-> None]
          /\ conn' = [s \in Sockets |-> IF conn[s] = None THEN None ELSE [conn[s] EXCEPT !.state = "closed"]]
          /\ registry' = [u \in Recipients |-> None]
          /\ group' = [s \in Sockets |-> {}]
          /\ halfDone' = halfDone \cup UNION {sending[v].tokens :
                            v \in {x \in Workers : At(x, "clear")}}
          /\ cron' = {}
  /\ UNCHANGED <<noticeTables, noticeScope>>

-----------------------------------------------------------------------------
(* Push subscriptions *)

\* upsertPushSubscription, without a transaction: the token is inserted or taken
\* over, and then the other tokens of the device are switched off.
RegisterBegin(w, u, k, d) ==
  Calls(w, [NewSending("register") EXCEPT !.op = "write", !.user = u, !.tokens = {k}, !.device = d])

UpsertToken_NewOnly(w) ==
  LET t == sending[w]
  IN  /\ At(w, "write") /\ t.by = "register" /\ t.user \notin purged
      /\ pushToken' = [k \in PushTokens |-> IF k \notin t.tokens THEN pushToken[k] ELSE
                         [user |-> t.user, device |-> t.device, active |-> TRUE, quiet |-> FALSE, stale |-> FALSE]]
      /\ sending' = [sending EXCEPT ![w] = IF t.device = None \/ \A k \in t.tokens : pushToken[k] # None
                                           THEN None ELSE [t EXCEPT !.op = "clear"]]
      /\ halfDone' = halfDone \ t.tokens
      /\ UNCHANGED <<notice, preference, template, purged, realtime, cron, noticeScope>>

UpsertToken(w) ==
  LET t == sending[w]
  IN  /\ At(w, "write") /\ t.by = "register" /\ t.user \notin purged
      /\ pushToken' = [k \in PushTokens |-> IF k \notin t.tokens THEN pushToken[k] ELSE
                         [user |-> t.user, device |-> t.device, active |-> TRUE, quiet |-> FALSE, stale |-> FALSE]]
      /\ sending' = [sending EXCEPT ![w] = IF t.device = None THEN None ELSE [t EXCEPT !.op = "clear"]]
      /\ halfDone' = halfDone \ t.tokens
      /\ UNCHANGED <<notice, preference, template, purged, realtime, cron, noticeScope>>

\* The user of the token must exist.
UpsertFails(w) ==
  /\ sending[w] # None /\ sending[w].user \in purged /\ sending[w].by = "register"
  /\ Does(w, "write") /\ UNCHANGED noticeTables

OtherTokens(t) ==
  {k \in PushTokens \ t.tokens : pushToken[k] # None /\ pushToken[k].user = t.user /\ pushToken[k].device = t.device}

ClearOtherTokens(w) ==
  LET others == OtherTokens(sending[w])
  IN  /\ Does(w, "clear")
      /\ pushToken' = [k \in PushTokens |-> IF k \in others
                         THEN [pushToken[k] EXCEPT !.active = FALSE, !.quiet = FALSE] ELSE pushToken[k]]
      /\ UNCHANGED <<notice, preference, template, purged>>

Unregister(u, k) ==
  /\ Once("unregister")
  /\ pushToken[k] # None /\ pushToken[k].user = u
  /\ pushToken' = [pushToken EXCEPT ![k].active = FALSE, ![k].quiet = FALSE]
  /\ UNCHANGED <<notice, preference, template, purged>>

-----------------------------------------------------------------------------
(* Preferences *)

\* getOrCreateNotificationPreference, on its own or before an update.
PreferenceBegin(w, op, u, setting, value) ==
  Calls(w, [NewSending(op) EXCEPT !.op = "find", !.user = u, !.setting = setting, !.value = value])

AfterPreference(t) == IF t.by = "getPreference" THEN None ELSE [t EXCEPT !.op = "setPreference"]

FindPreference(w) ==
  LET t == sending[w]
  IN  /\ At(w, "find")
      /\ Goes(w, IF preference[t.user] = None THEN [t EXCEPT !.op = "createPreference"] ELSE AfterPreference(t))
      /\ UNCHANGED noticeTables

\* Of two that found none the second fails, by the unique index on the user.
CreatePreference(w) ==
  LET t == sending[w]
  IN  /\ At(w, "createPreference")
      /\ IF preference[t.user] = None /\ t.user \notin purged
         THEN preference' = [preference EXCEPT ![t.user] = Channels] /\ Goes(w, AfterPreference(t))
         ELSE Goes(w, None) /\ UNCHANGED preference
      /\ UNCHANGED <<notice, pushToken, template, purged>>

SetPreference(w) ==
  LET t == sending[w]
  IN  /\ Does(w, "setPreference")
      /\ preference' = [preference EXCEPT ![t.user] =
                          IF @ = None THEN None ELSE IF t.value THEN @ \cup {t.setting} ELSE @ \ {t.setting}]
      /\ UNCHANGED <<notice, pushToken, template, purged>>

-----------------------------------------------------------------------------
(* The user's notifications *)

HasRow(b, u) == notice[b][u] # None /\ notice[b][u].life # "gone"

ChangeNotice(b, u, row) ==
  /\ Once("read") /\ HasRow(b, u)
  /\ notice' = [notice EXCEPT ![b][u] = row]
  /\ UNCHANGED <<pushToken, preference, template, purged>>

MarkRead(b, u) == ChangeNotice(b, u, [notice[b][u] EXCEPT !.read = TRUE])

\* A row that is deleted is not archived any more; one that is deleted again
\* is kept for another ten hours.
Archive(b, u) ==
  /\ HasRow(b, u) /\ notice[b][u].life = "live"
  /\ ChangeNotice(b, u, [notice[b][u] EXCEPT !.archived = TRUE, !.read = TRUE])

DeleteNotice(b, u) == ChangeNotice(b, u, [notice[b][u] EXCEPT !.life = "deleted", !.read = TRUE])

\* What countUnreadNotifications counts.
Unread(b, u) == /\ HasRow(b, u) /\ notice[b][u].life = "live"
                /\ ~notice[b][u].read /\ ~notice[b][u].archived

MarkAllRead(u) ==
  /\ Once("read")
  /\ \E b \in Batches : Unread(b, u)
  /\ notice' = [b \in Batches |-> IF Unread(b, u) THEN [notice[b] EXCEPT ![u].read = TRUE] ELSE notice[b]]
  /\ UNCHANGED <<pushToken, preference, template, purged>>

-----------------------------------------------------------------------------
(* Templates *)

IdOf(key) == {i \in TemplateIds : template[i] # None /\ template[i].key = key}

SeedRow == [key |-> SystemKey, content |-> "seed", active |-> TRUE]

\* ensureNotificationTemplatesSeeded, before every list and every get: the
\* retired template goes, the system's is inserted or gets its text back.
Seeded ==
  LET kept == [i \in TemplateIds |-> IF i \in IdOf(RetiredKey) THEN None ELSE template[i]]
  IN  IF IdOf(SystemKey) = {} THEN [kept EXCEPT ![SeedId] = SeedRow]
      ELSE [i \in TemplateIds |-> IF i \in IdOf(SystemKey) THEN SeedRow ELSE kept[i]]

SeedTemplates ==
  /\ Once("seed")
  /\ template' = Seeded
  /\ UNCHANGED <<notice, pushToken, preference, purged>>

\* The unique index on the key refuses the second row of a key.
CreateTemplate(i, key) ==
  /\ Once("createTemplate")
  /\ key # SystemKey /\ IdOf(key) = {} /\ i # SeedId /\ template[i] = None
  /\ template' = [template EXCEPT ![i] = [key |-> key, content |-> "custom", active |-> TRUE]]
  /\ UNCHANGED <<notice, pushToken, preference, purged>>

TemplateBegin_AnyKey(w, op, i, key) ==
  /\ op \in {"updateTemplate", "deleteTemplate"}
  /\ template[i] # None
  /\ Calls(w, [NewSending(op) EXCEPT !.op = "write", !.template = i, !.key = key])

\* updateNotificationTemplate and deleteNotificationTemplate read the row and
\* refuse the system's; the write that follows is by id.
TemplateBegin(w, op, i, key) ==
  /\ op \in {"updateTemplate", "deleteTemplate"}
  /\ template[i] # None /\ template[i].key # SystemKey
  /\ Calls(w, [NewSending(op) EXCEPT !.op = "write", !.template = i, !.key = key])

\* The body may name a key, SystemKey too; a key another row has is refused.
UpdateTemplate(w) ==
  LET t == sending[w]
      key == IF t.key = None THEN template[t.template].key ELSE t.key
  IN  /\ Does(w, "write") /\ t.by = "updateTemplate"
      /\ IF template[t.template] = None \/ ~(IdOf(key) \subseteq {t.template}) THEN UNCHANGED template
         ELSE \E active \in BOOLEAN :
                template' = [template EXCEPT ![t.template] = [key |-> key, content |-> "custom", active |-> active]]
      /\ UNCHANGED <<notice, pushToken, preference, purged>>

DeleteTemplate(w) ==
  LET t == sending[w]
  IN  /\ Does(w, "write") /\ t.by = "deleteTemplate"
      /\ template' = [template EXCEPT ![t.template] = None]
      /\ UNCHANGED <<notice, pushToken, preference, purged>>

-----------------------------------------------------------------------------
(* Time *)

\* runNotificationMaintenanceCron: not while the last run is still going.
CronStart ==
  /\ "cron" \in noticeScope.calls /\ cron = {}
  /\ cron' = {"notices", "tokens"}
  /\ UNCHANGED <<noticeTables, realtime, sending, halfDone, noticeScope>>

PurgeNotices ==
  /\ "notices" \in cron /\ cron' = cron \ {"notices"}
  /\ notice' = [b \in Batches |-> [u \in Recipients |->
       IF HasRow(b, u) /\ notice[b][u].life = "expired" THEN [notice[b][u] EXCEPT !.life = "gone"]
       ELSE notice[b][u]]]
  /\ UNCHANGED <<pushToken, preference, template, purged, realtime, sending, halfDone, noticeScope>>

PurgeTokens ==
  /\ "tokens" \in cron /\ cron' = cron \ {"tokens"}
  /\ pushToken' = [k \in PushTokens |->
       IF pushToken[k] # None /\ (pushToken[k].stale \/ (~pushToken[k].active /\ pushToken[k].quiet))
       THEN None ELSE pushToken[k]]
  /\ UNCHANGED <<notice, preference, template, purged, realtime, sending, halfDone, noticeScope>>

\* Two weeks go by, or three months; ten hours are over in both.
TimePasses(long) ==
  /\ Once("cron") /\ cron = {}
  /\ notice' = [b \in Batches |-> [u \in Recipients |->
       IF HasRow(b, u) /\ notice[b][u].life = "deleted" THEN [notice[b][u] EXCEPT !.life = "expired"]
       ELSE notice[b][u]]]
  /\ pushToken' = [k \in PushTokens |-> IF pushToken[k] = None THEN None
                     ELSE [pushToken[k] EXCEPT !.quiet = TRUE, !.stale = @ \/ long]]
  /\ UNCHANGED <<preference, template, purged>>

\* The kernel service deletes a user for good, and what refers to the user goes too.
UserPurged(u) ==
  /\ Once("purgeUser") /\ u \notin purged
  /\ purged' = purged \cup {u}
  /\ notice' = [b \in Batches |-> IF HasRow(b, u) THEN [notice[b] EXCEPT ![u].life = "gone"] ELSE notice[b]]
  /\ pushToken' = [k \in PushTokens |-> IF pushToken[k] # None /\ pushToken[k].user = u
                     THEN None ELSE pushToken[k]]
  /\ preference' = [preference EXCEPT ![u] = None]
  /\ UNCHANGED template

-----------------------------------------------------------------------------
NotificationsInit ==
  /\ notice = [b \in Batches |-> [u \in Recipients |-> None]]
  /\ pushToken = [k \in PushTokens |-> None]
  /\ preference = [u \in Recipients |-> None]
  /\ template = [i \in TemplateIds |-> None]
  /\ purged = {}
  /\ conn = [s \in Sockets |-> None]
  /\ registry = [u \in Recipients |-> None]
  /\ group = [s \in Sockets |-> {}]
  /\ sending = [w \in Workers |-> None]
  /\ halfDone = {}
  /\ cron = {}
  /\ noticeScope \in NoticeScopes

SendStep(w) ==
  \/ \E body \in NoticeBodies : SendBegin(w, body)
  \/ \E owners \in SUBSET noticeScope.users : PropertyPublished(w, owners)
  \/ \E u \in noticeScope.users : TestPush(w, u)
  \/ ReadPreferences(w) \/ InsertNotices(w) \/ Publish(w) \/ CountTokens(w)
  \/ ReadTokens(w) \/ (\E invalid \in SUBSET noticeScope.tokens : Deliver(w, invalid))
  \/ DeactivatePushTokens(w) \/ PushFails(w)

DeviceStep(w) ==
  \/ \E u \in noticeScope.users, k \in noticeScope.tokens, d \in OrNull(Devices) : RegisterBegin(w, u, k, d)
  \/ UpsertToken(w) \/ UpsertFails(w) \/ ClearOtherTokens(w)
  \/ \E op \in {"getPreference", "updatePreference"} \cap noticeScope.calls, u \in noticeScope.users,
        c \in Channels, v \in BOOLEAN : PreferenceBegin(w, op, u, c, v)
  \/ FindPreference(w) \/ CreatePreference(w) \/ SetPreference(w)

TemplateStep(w) ==
  \/ \E op \in NoticeOps \cap noticeScope.calls, i \in TemplateIds, key \in OrNull(TemplateKeys) : TemplateBegin(w, op, i, key)
  \/ UpdateTemplate(w) \/ DeleteTemplate(w)

RealtimeStep ==
  \E s \in noticeScope.sockets :
    \/ \E u \in noticeScope.users, kind \in {"socket", "stream"} : Subscribe(s, u, kind)
    \/ SocketError(s) \/ SocketClose(s) \/ StreamCancel(s)

InboxStep ==
  \E u \in noticeScope.users :
    \/ \E b \in noticeScope.batches : MarkRead(b, u) \/ Archive(b, u) \/ DeleteNotice(b, u)
    \/ MarkAllRead(u) \/ UserPurged(u)
    \/ \E k \in noticeScope.tokens : Unregister(u, k)

NotificationsNext ==
  \/ \E w \in Workers : SendStep(w) \/ DeviceStep(w) \/ TemplateStep(w)
  \/ RealtimeStep \/ InboxStep
  \/ SeedTemplates \/ \E i \in TemplateIds, key \in TemplateKeys : CreateTemplate(i, key)
  \/ CronStart \/ PurgeNotices \/ PurgeTokens \/ \E long \in BOOLEAN : TimePasses(long)

NotificationsSpec == NotificationsInit /\ [][NotificationsNext]_notificationsVars

-----------------------------------------------------------------------------
(* Properties *)

\* The tables, the registry and the handlers have their types; the foreign keys
\* to users and the unique index on a template's key hold.
NotificationsTypeOK ==
  /\ notice \in [Batches -> [Recipients -> OrNull(Notice)]]
  /\ pushToken \in [PushTokens -> OrNull(PushSubscription)]
  /\ preference \in [Recipients -> OrNull(SUBSET Channels)]
  /\ template \in [TemplateIds -> OrNull(Template)]
  /\ purged \subseteq Recipients
  /\ conn \in [Sockets -> OrNull(Connection)]
  /\ registry \in [Recipients -> OrNull(Sockets)]
  /\ group \in [Sockets -> SUBSET Sockets]
  /\ sending \in [Workers -> OrNull(Sending)]
  /\ halfDone \subseteq PushTokens /\ cron \subseteq {"notices", "tokens"}
  /\ \A u \in purged : /\ preference[u] = None
                       /\ \A b \in Batches : ~HasRow(b, u)
                       /\ \A k \in PushTokens : pushToken[k] # None => pushToken[k].user # u
  /\ \A key \in TemplateKeys : Cardinality(IdOf(key)) <= 1

\* A connection that is open gets what is published for its user.
OpenIsSubscribed == \A s \in Sockets : IsOpen(s) => Registered(s)

\* It does so as long as nobody of its user's connections reported an error: then
\* the one Set of a user is found by every publication, however connections
\* come and go, and a connection that is closed is in no Set.
QuietIsSubscribed ==
  /\ (\A s \in Sockets : conn[s] # None => conn[s].state # "failed" /\ conn[s].unsubscribed < 2) => OpenIsSubscribed
  /\ \A s \in Sockets : conn[s] # None /\ ~IsOpen(s) => \A r \in Sockets : s \notin group[r]

\* Of the tokens a user registered for one device at most one is active, but
\* for registrations between their two statements and those cut off there:
\* registrations that overlap may switch off each other's token, and never leave two.
OneTokenPerDevice ==
  \A k, l \in PushTokens :
    /\ k # l /\ pushToken[k] # None /\ pushToken[l] # None
    /\ pushToken[k].active /\ pushToken[l].active
    /\ pushToken[k].user = pushToken[l].user
    /\ pushToken[k].device = pushToken[l].device /\ pushToken[k].device # None
    => \/ {k, l} \cap halfDone # {}
       \/ \E w \in Workers : At(w, "clear") /\ sending[w].tokens \cap {k, l} # {}

\* The system's template, once seeded, keeps the seeded text and stays, however
\* edits, renames and seedings of other templates overlap.
SystemTemplateKept ==
  [][template[SeedId] # None => template'[SeedId] = template[SeedId]]_template

=============================================================================
