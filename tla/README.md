# A TLA+ model of Proptryx Server

Proptryx Server is a TypeScript monorepo: HTTP services (`gateway`, `auth`, `kernel`, `company`,
`notification`) over one Postgres database and one Redis, with Razorpay, Google Calendar, Firebase
and SMTP outside. It has no automated tests. The modules here are translated from the code under
`src/`; this file says which module models which part, what TLC checks of it on small instances,
and what TLAPS proves of it for all of them.

## 1. Inventory

| Component | State | Operations | Hard behaviour | Module |
| --- | --- | --- | --- | --- |
| Organization subscriptions (`services/auth/.../subscriptions/organization.ts`, `shared.ts`) | `organization_subscription` rows, soft deleted, two partial unique indexes; a subscription at Razorpay | create, sync, cancel, pause, resume, delete, webhook | every handler reads, awaits Razorpay, writes by id; notifications repeated and reordered | `Subscription`, `SubscriptionLedger` |
| Meetings (`meeting/handler.ts`, `google.ts` of two services) | `meeting` rows, calendar events, Meet spaces | create, update, schedule, confirm, start, complete, cancel, reject, publish, sync | read, check, then UPDATE by id; calendar events created first | `Meeting` (lifecycle), `MeetingParties` (whom and what it names, Google) |
| Auth context middleware (`packages/utils/src/middleware/auth.ts`) | memory cache, Redis cache, single-flight map, circuit state | resolve a request's session, invalidate | concurrent resolutions, invalidation during a resolution, upstream failures | `AuthCache` |
| Company lifecycle (`kernel/.../company/main`, `request`) | `organization`, `user`, request rows, Razorpay customer | request, create, approve, update, remove, restore, purge, resend credentials | status and next number read outside of the transaction; the customer is made after the reply | `Tenancy`; the subscriptions it touches: `Subscription` |
| Members (`company` and `kernel`) | `member`, `user`, `session` rows | create, update, remove, restore, ban, sessions, credentials | a role is read, then written over by id; the user is deleted with the member | `Tenancy` |
| Limits (`packages/database/src/organization/limits.ts`) | none (counts rows) | check | count and insert in different statements | `OrgLimits` |
| Properties (`company` and `kernel`) | `property`, owners' terms, details by kind, mandate, announcement | create, update, move, remove, restore, purge, publish | as above; four tables of details; announcement outside of the transaction | `Properties` |
| Notifications (`notification/.../utils.ts`, `handler.ts`) | notifications, preferences, push tokens, templates, connections | queue, deliver, register, read, seed, subscribe, purge | get-or-create, Sets of subscribers, two-statement registration, jobs nobody waits for | `Notifications` |
| Roles and permissions (three routers, `rbac.ts`) | role and permission rows | create, update, remove, seed | a slug is unique by a check only; presets rewritten while roles are edited | `Roles` |
| Plans (`plans.ts`, `discount-expiry.ts`) | `subscription_plans` rows, links of subscriptions | create, update, delete, expiry, subscribe, sync, webhook | "plan is unused" checked before the write | `Plans` |
| Regions and zones (`zone-region/handler.ts`) | two tables | create, update, remove | parent checked before the child is written, and the reverse | `Zones` |
| Platform users, brokers, broker requests | `user`, `account`, `session`, `broker_request` | create, update, remove, purge, revoke, submit | two routers over one table; phone numbers unique by a check only | `Staff` |
| Socket proxy (`gateway/src/websocket-proxy.ts`) | two sockets, a buffer | open, forward, close, error | messages before the upstream is open; a close while connecting | `SocketProxy` |
| Gateway, Auth service, FAQs, list queries, mail, logger, migration | - | - | stateless, a library's, single statements or I/O | section 16 |

Services do not call each other's functions: they share the database and Redis, and the gateway and
the auth middleware call them over HTTP. `PROJECT.json` has the list with the status of each part,
and, under `hazards`, what is hard to test at which line.

The same shape recurs in nearly every handler: read and check, await, then write by primary key in
one transaction that does not repeat the check. Modules model it the same way: a first step reads and
stores what the handler keeps, a later step writes, anything may happen in between, and a step that
abandons the handler stands for an error, a refused write, or a crash.

## 2. Order of the modules, and what is left

1. `Subscription`, its abstract specification `SubscriptionLedger`, `SubscriptionProofs`.
2. `Meeting`, `MeetingProofs`. 3. `AuthCache`, `AuthCacheProofs`.
4. `Tables` (rows that are live, soft deleted or gone), `OrgLimits`, `Tenancy`, `TenancyProofs`.
5. `Properties` and `MeetingParties`, with `PropertyProofs`; `Roles` and `Staff`, with `AccessProofs`:
   what refers to companies, members and properties, and who may do what.
6. `Notifications`, with its own instance `MCNotifications`, and `SocketProxy`; `RealtimeProofs`.
7. `Plans` and `Zones`, proved about in `PlatformProofs`.
8. `Platform`, which puts the modules of 4 to 7 side by side, with the instances `MCPlatform`;
   `PlatformProofs` extends the other modules of proofs and proves that what they say of each
   component holds in `Platform`.

Left for later: an abstract specification of seats that `Tenancy` and `Properties` both implement;
delivery of a push message under fairness; parsing of list filters as a pure algorithm.

## 3. `Subscription`

State. `rows` is the table, under a bounded set of primary keys: each row has its organization, its
`life` (live, soft deleted, purged) and a `snap`, the state of a Razorpay subscription it shows.
`company` is the organization row. `owner`, `noted`, `rz`, `sent`, `unacked` are Razorpay: the
organization whose create made a subscription, the `organizationId` in its notes, its current status and
change count, every state it ever reported, and the notifications it will still deliver. `pc` and `job`
are the handlers: where each stands, and what it keeps across its awaits (the `existing` record by id,
and what is known of the subscription).

| Code | Actions |
| --- | --- |
| create: guard on the record's status, Razorpay call, save | `CreateBegin`, `CallCreate`, then save |
| sync, cancel, pause, resume | `CallBegin`, `CallFetch` / `CallCancel` / `CallCancelAtCycleEnd` / `CallPause` / `CallResume`, then save |
| delete | `DeleteBegin`, `DeleteRow` |
| webhook: lookup by subscription, save | `WebhookBegin`, then save; `WebhookIgnore` when neither the notes nor a record name an organization |
| `saveOrganizationSubscriptionRecord` | `Reread` (only when there is no `existing`), then `Update` (by id) or `Insert` |
| kernel remove, restore, restore-only, permanent removal | `CompanyBegin`, `CompanyRemove`, `CompanyRestore`, `CompanyRestoreOnly`, `CompanyPurge` |
| an error, a refused call, a constraint violation, a crash | `Fail` |
| Razorpay's own changes | `RazorpayStep` |

What is abstracted. A snapshot is a subscription, a status and a change count `rev`; `rev` stands for
all the other fields that the save copies (`paid_count`, `current_start`, ...), so a stale or a mixed
save is visible. The save replaces the status and the copied counters as a whole; fields that fall back
to the previous record (`trialStart`, `cancelledAt`) are left out. The customer of an organization is
taken to exist. `cancelAtCycleEnd` changes nothing at once; the status moves later by `RazorpayStep`. A
purged row keeps its id, so that an UPDATE by that id is silently without effect, as in SQL.

`create` spreads the `notes` of its body over its own, so that a client may put any
`organizationId` there, and the webhook trusts it. `BodyNotes` is what a body may give: other
organizations, an empty string (`None`), an id of nobody; `CallCreate` takes the caller's
organization or any of these. So a notification may put a subscription of one organization into the
record of another, where the notes name it. That is the only way organizations meet in a record, and
what `RecordsAreOwnSnapshots` says.

`SubscriptionLedger` is what the rest of the system may rely on: a state is issued with the
organization that made its subscription and the one its notes name, and what is shown of an
organization is nothing or a state issued with its name. The refinement mapping takes `issued` from
`sent`, `owner` and `noted`, and `shown` from the one live row.

### Runs

| Run | Instance | Question |
| --- | --- | --- |
| `subscription_races` | 2 organizations, 2 subscriptions, 2 rows, 2 handlers (create, delete, webhook, restore, purge), notes that give any organization, an empty string or nobody, any order of notifications, `MaxRev` 1, symmetric | Do interleaved handlers ever mix organizations other than through the notes, revive a deleted record or break the ledger? No. |
| `subscription_serial` | 1 organization, 2 subscriptions, 2 rows, 1 handler, notifications in order, `MaxRev` 2, fairness | With failures and lost acknowledgements, does the table catch up, does every notification get through? Yes. |
| `subscription_restore` | 1 handler, create/delete/remove/restore | Can a deleted company always be restored? **No.** |
| `subscription_charges` | 1 handler | Is an organization charged for one subscription at most? **No.** |
| `subscription_overlap` | 2 handlers, notifications in order | Is the record of a paid subscription safe from `create`? **No.** |
| `subscription_late` | 1 handler, any order of notifications | Does the table catch up when notifications are reordered? **No.** |

Bounds. Two organizations are needed to mix records, two subscriptions to replace one, two rows so
that a deleted record and its successor coexist, two handlers to interleave. `MaxRev` 1 lets a
status change under a handler; 2 lets two notifications of one subscription race. The `Rows` and
`Subs` bound only the number of inserts and of subscriptions created. `RzSteps` keeps one way into a
paid status and one into a terminal status. `subscription_races` leaves out cancel, sync, pause and
resume, whose save is that of create and of the webhook, and the company's removal, which deletes
records as delete does; `subscription_serial` has them all, with one handler, and the theorems hold
for any number of handlers and all operations. Deadlock is not checked: when every company is purged,
or the ids are used up, the system may stop.

Fairness (`FairSpec`). Razorpay repeats a notification until it is answered with 200, hence strong
fairness of `WebhookBegin` or `WebhookIgnore` for each subscription; a handler's steps are the event
loop's, and a database that is back accepts the write: strong fairness of `Reread` and of the
acknowledged save, weak fairness of `Fail`, which also ends a handler whose write is refused. Nothing is
assumed of users, of the customer or of the calls they make.

### What the violations show

* `RestoreIsPossible`. `restoreCompanyById` un-deletes every row of the company, whenever it was
  deleted. After create, cancel, delete and create again, removing the company leaves two deleted
  rows, and the restore violates the unique index on the organization. The route's summary promises
  the restore of the company "with related soft-deleted records".
* `OnePaidSubscription`. A create whose handler ends after Razorpay made the subscription and before
  it is saved leaves a payable subscription that no record names; it becomes active, and the next
  create, which finds no record, makes a second one. Nothing cancels the first at Razorpay.
* `PaidRecordNotReplaced`. `create` checks that the record is unpaid, waits for Razorpay, and saves
  by the record's id. When the notification of a payment is saved in between, the paid record is
  overwritten by a new, unpaid subscription; the comment over the guard says it blocks "if the
  subscription has already been authorized/paid". `delete` has the same gap.
* `SyncedWhenQuiet` with reordered notifications. An older notification overwrites a newer status.

## 4. `Meeting`

State. `meeting` is the table; a date column is a Boolean (set or null) except `scheduledAt`, whose
value goes to Google. `events` are the calendar events ever created, each with its meeting, the user
in whose primary calendar it lives, and the time it shows. `pc` and `job` are the handlers. `claimed`
is a history variable: the event ids that clients wrote into meetings.

| Code | Actions |
| --- | --- |
| `create` | `Create` |
| `resolveScopedMeeting`, `getMeetingLifecycleError` | `Begin`, guarded by `Allowed` |
| `schedule`, `confirm`, `start`, `complete`, `cancel`, `reject`, `publishMom`, `update`, `remove`: the UPDATE | `Schedule`, `Confirm`, `StartMeeting`, `Complete`, `Cancel`, `Reject`, `PublishMom`, `Update`, `Remove` |
| `syncMeetingWithGoogle` (after `schedule`, or by `googleSync`) | `Reread`, then `CreateEvent` (POST) or `PatchEvent` (PATCH), then `RecordEvent` |
| an error or a crash | `Fail` |

A handler reads and checks in `Begin` and writes in a later step: the reference check in between is
an await, and the kernel and company services are two processes over one table. No UPDATE repeats
the condition. `Schedule` commits before Google is asked, so a failed sync leaves a scheduled meeting
and an error response.

The bodies of `create` and `update` may hold a `googleCalendarEventId`, as the schemas leave it in: an
event of another meeting, an id that Google does not know, or null. `Claims` are the ids that a run
lets clients write (`MainClaims`: into one meeting any, into the other none). A PATCH of an event that
is not in the caller's calendar, or nowhere, fails. `EventIsOwn` therefore excepts the ids that a client
once wrote into this very meeting; a meeting whose event no client chose never gets another's, whatever
clients write elsewhere.

Abstracted or left out: texts and attendees, the Meet space (created before the event, recorded with
it), the organization and user scope (it decides whether a row is found; any call may be refused
anyway, as nothing forces it). The schedule's reply does
not tell a meeting deleted meanwhile from an error: both are `Fail`.

| Run | Instance | Question |
| --- | --- | --- |
| `meeting_races` | 2 meetings (one with every operation, one that is only scheduled and synced), 2 events, 2 users, 1 date, 2 handlers | Do overlapping handlers leave a row that contradicts itself, publish minutes of a meeting that was never completed, or link an event of another meeting that no client named? No. |
| `meeting_overlap` | 1 meeting, 2 handlers | Does a cancelled, rejected or completed meeting stay so? **No**: a schedule checked before the cancellation and written after it brings the meeting back, in six steps. |

Bounds. Two handlers are enough for one to write between another's check and write; two events so
that two syncs of one meeting can each create one; two meetings so that an event could be linked to
the wrong one; two users so that a PATCH can be refused. One date, as no property compares dates.
Nothing has to happen in this component, so that there is no fairness. The system may stop once the
meetings are created and terminal.

## 5. `AuthCache`

The requests of one caller, in any number of service processes that share Redis. State. `session`
and `role` are the two memory caches of each process, at the caller's and at the role's key; `redis`
has the shared copies and the SETs under way, which nobody awaits. `inflight` is the map of promises,
`resolving` the resolutions that run, which is more than the map holds once an invalidation has
cleared it. `circuit` is the circuit of each process, `edit` the role mutation under way. `pc` and
`job` are the requests.

| Code | Actions |
| --- | --- |
| middleware: memory, Redis, circuit | `Request`, `GetSession`, `CopySession`, `Refuse` |
| `getOrCreateAuthContextResolution` | `Join` or `StartResolution`; `finally` and the waking of those who wait are `Settle` |
| middleware after the await | `ResumeResolved`, `ResumeUnavailable` (`markAuthUpstreamAvailable`, `...Unavailable`) |
| the request is handed on | `Done` |
| `fetchAuthSessionPayloadWithRetry`, `resolveOrganizationContext` | `Fetch` |
| `resolveAuthorizationContext` | `RoleAtHand`, `GetRole`, `CopyRole`, `ReadRole` |
| `setCached...InRedis` reaching Redis | `SetSession`, `SetRole` |
| pruning of the maps by other callers' entries | `Evict` |
| a role handler's commit, `invalidateAuthMiddlewareCache` | `EditRole`, `Invalidate`, `Purge` |
| time | `Tick` |

Time is discrete and relative: an entry holds how much time it has left (`expiresAt` minus now) and
the age of its permissions since the database gave them; `Tick` ages everything at once. That keeps
the state finite, and makes "older than" a statement about one state. `served` is the instant a
request is handed on. The clocks of the processes agree; what a context says besides its permissions
is left out, since it is copied with them. A role without permissions (`NoRole`) is the empty map,
which denies and has no age. The retries of a fetch are one step, since no state changes between
them. Redis may be unready at any command; a lost SET is one that never arrives. The DEL of an
expired entry may also remove the entry that replaced it: that is the loss of an entry, which a lost
SET gives too.

| Run | Instance | Question |
| --- | --- | --- |
| `auth_shared` | 1 process, 2 requests, 2 resolutions, one route with a time to live of 2, the role's of 1, circuit after 2 failures, one SET of a kind under way | Is what is served never older than the four copies allow; is only a current resolution joined; does every request end? Yes. |
| `auth_edits` | 2 processes, 1 request, routes with times to live 1 and 6 | Does a route with a short time to live forget old permissions within it after an edit? **No.** |

Bounds. Two requests are needed to share a resolution, two resolutions so that an invalidation lets
a second one start while the first runs. In one process a permission can go through all four copies
already (the bound of `FreshEnough` is reached: with one unit less it is violated); other processes
are further readers of the same Redis entries, and the theorems hold for any number of them.
`MaxSets` 1 keeps the order of SETs and of an invalidation open.

Fairness. A request and a resolution that can go on do: every call has a timeout and the event loop
goes round. Nobody has to call, edit or write to Redis.

`EditsTakeEffect` is what `rbac.ts` says of its one second. The cache key has no time to live in it,
and the notification service guards its template routes with the same entity scope and sixty
seconds: its other routes then read sixty-second copies. An edit in the kernel clears the kernel's
memory and Redis only.

## 6. `Platform`: the components around them

`Platform` takes nine modules together. `busy` says which of them a behaviour is of; the others stay
in one initial state. This is a union of their behaviours and not a product: no handler writes rows of
two components in one transaction, and a component that reads or loses another's rows has that other
one's effect as a step of its own (the purge of a company in `Roles`, of a property or a user in
`MeetingParties`, of a user in `Notifications`, a membership in `Properties`). Within a component, a
*scope* (a constant) is a handful of endpoints with the callers, bodies and keys they may use; TLC
takes the component's scopes one after another, and together they call every endpoint. A property
that a particular call makes inapplicable says so by its scope.

There is no fairness and so no liveness: nobody has to call, and a handler may die at every await.
`CHECK_DEADLOCK FALSE`: behaviours end once a scope's keys are used up. The two handlers are
symmetric (`MCSymmetry`); keys of rows that serve as numbers are not permuted but taken in order.

The instance has two handlers, enough for one to write between another's read and write; two or
three rows of a table, so that a row and its deleted predecessor, or a row and a rival, coexist; four
members, so that two handlers that both counted pass a limit of two; two calendar events and two
Meet spaces, so that two first syncs each make one; three sockets, so that a user reconnects twice;
three messages of each side of the proxy; close codes that come from a frame (1000, 1011, 3000) and
that do not (1005, 1006).

## 7. `Tenancy` and `OrgLimits`

State: `company`, `user`, `member`, `request` are the tables (a user with account, ban and sessions is
one row), `customer` is Razorpay's; `stage` and `task` are where a handler stands and what it keeps.

| Code | Actions |
| --- | --- |
| company requests: create, remove, restore, purge | `CreateRequestBegin`, `CreateRequest`, `RequestBegin`, `RemoveRequest`, `RestoreRequest`, `PurgeRequest` |
| `create`, `addNew` (approval), next number, insert of company and owner | `CreateCompanyBegin` / `AddNewBegin`, `...Read`, `CreateCompany` / `AddNew` |
| `syncCompanyRazorpayCustomer`, after the reply | `FindCustomer`, `CreateCustomer`, `SaveCustomer` |
| `ensureOrganizationWithCustomer` (auth service), when a subscription is made | `SubscribeBegin`, `EnsureCustomer`, then `CreateCustomer`, `SaveCustomer` |
| update, remove, restore, restore only, purge, credentials of the owner | `CompanyBegin`, `PurgeBegin`, `ResendToOwnerBegin` and an action each |
| members, company service | `CreateMemberBegin`, `MemberBegin`, and an action for each write |
| members, kernel service | `KernelCreateMemberBegin`, `KernelMemberBegin`, and an action for each write |
| sign-in, choice of a password (auth service) | `SignIn`, `ChoosePassword` |

`OrgLimits` is `limits.ts` as operators, including -1, a missing feature, an organization without a
plan, and bought properties. Properties: `OwnerIsFounder` (no overlap of edits makes an owner of
anybody else), `BoundedOvershoot` (a limit is passed by handlers that counted at the same moment and
by no more), `CustomerIsOwn` (the customer a company is billed as was made for it, or found by its
founder's address or tax number).

Two services write the organization's customer. The kernel looks for one by the founder's address and
the tax number before it makes one; the auth service makes one of the company's own address (`email`),
or else of the caller's, who is a member of any standing or one of Proptryx's people (`Staffers`).
Either may save after the other. A customer's notes name the organization it was made for (`madeFor`).
As the auth service uses the caller's address, the address alone says nothing about whose customer it
is: a customer may be made for one company and found by another whose founder has that address. The
property leaves out company numbers that were somebody else's before and tax numbers that were edited.

Left out: names, postal addresses, documents, the mails that are sent (the first password is what
resending says again).

## 8. `Properties`

State: `prop` with the tables that hang on it: `terms` (owners), `details` (which of the four
extension tables has a row), `mandate`, and whether a publication was `announced`. `position` and
`liveOrgs` are what it reads of members and organizations, `editing` the handlers, `tx` the
transactions of updates that are under way, `aside` (history) the properties that two updates wrote
side by side. Each endpoint of both services has a Begin (with the caller's scope, the owner checks, the
limit) and a write with everything its transaction does.

The row lock of the first UPDATE orders transactions on a property, if that UPDATE finds the row. The
company service's is by id and organization: when the property was moved to another organization after
it was read, it matches nothing, locks nothing, and the owners, media and details are written all the
same. `LockRow` is this first statement, the write the rest of the transaction; `RowFree` makes another
one wait for the lock. What others committed in between (`unseen`) the DELETEs may see or miss, as
statements at read committed do. Where no property is moved every UPDATE finds its row, the
second transaction waits for the first, and one step stands for the whole; so `LockRow` is taken only
in scopes with `moveProperty`, one of which has both services' updates.

`OneKindOfDetails`: updates that each read a kind before the other's write leave rows in two tables only
of a property in `aside`, that is, where one of the two had locked nothing. `BoundedProperties`: as for
members; it speaks of the scopes in which no property is moved, no membership changes and nobody's body
names an owner without the organization (`OwnersWithOrg`): a kernel user who writes a member as the
owner of a property of no organization gives that member's organization one more, and no limit is looked
at. `PublishedIsAnnounced`: two updates that both find a property unpublished do not leave the
announcement to each other; it speaks of the scopes in which no property changes its organization
(`NeverMoved`) or is unpublished (`NeverWithdrawn`).

Left out: media but the e-mandate, prices, descriptions and addresses.

## 9. `Notifications`

State: `notice`, `pushToken`, `preference`, `template` are tables, `conn`, `registry` and `group` the
connections and the Map of Sets of one process, `sending` the handlers with the push jobs they leave,
`cron` the clean-up. A send is queued, inserted, published, counted and pushed in separate steps; a
registration of a token has two statements; a preference is created when it is first read; listings
seed the templates.

`QuietIsSubscribed`: as long as no socket reports an error, the one Set of a user is found by every
publication. `OneTokenPerDevice`: registrations that overlap never leave two active tokens of a device,
but where one was cut off between its statements. `SystemTemplateKept`: no edit, rename or deletion
that crosses a seeding changes the seeded system template.

The instance `realtime_reconnect` checks what the comment at the registry promises without that
proviso, `OpenIsSubscribed`, and TLC refutes it: a socket that reports an error is unsubscribed by
`onError` and again by `onClose`; if its user has connected in between, the second call finds the
old, empty Set and deletes the entry of the new one. The new connection stays open and gets nothing.

Left out: titles, texts and links; Firebase is the two answers it gives for a token.

## 10. `MeetingParties`

State: `meet`, with the property and the users a meeting names, its status as far as an endpoint asks,
its event and its link; `estate` and `party` (whether they exist and whose they are); `calendar` and
`spaces` at Google; `holding`, the handlers. A sync is `ReadForSync`, `MeetSpace`,
`UpsertCalendarEvent`, `RecordSync`, each after an await. `RecordedLinkIsInvited`: the event a meeting
records invites to the link it records, whichever syncs overlapped, as long as none was forced
(`forced`) and no client wrote the fields: `byHand` remembers the meetings in whose row a body put one,
`claimed` the events whose id a body named. The latter matters to the meeting that the event really is
of: a second meeting that was given its id by a client patches the event with its own link. The eighth
scope of the instance has two meetings and such a body. `Meeting` has the lifecycle with times; the two
are not composed, as neither's properties speak of the other's columns.

## 11. `Roles`

State: `role` with its permissions, `owning` (companies), `doing` (handlers). The three routers
(`Company...`, `Kernel...`, `Proptryx...`) have an action each for role and permission, with what each
of them alone refuses; seeding is `SeedRoles`, `SeedPermissions`, `SeedCommit`. `overlapped` remembers
which slugs two handlers had both checked. `TwinsOverlapped`: two roles share a slug only then.
`OwnerRoleGuarded`: nobody but an owner writes a role that was an owner's when it was read.
`EveryRoleIsManaged`: no crossing of seeding and editing takes from a role the account, session and
user permissions that every role is to have.

## 12. `Plans`, `Zones`, `Staff`

`Plans` has the plans and, of each organization, whether it has a subscription and which plan that
links to, which may be none. The webhook is here too: a notification may be of the subscription in
the organization's row or of one that no row names, which then takes that row over or is inserted;
Razorpay's plan of a subscription may be any (`FindPlan`), so that the row is linked to the plan that
has that Razorpay plan now, or stays on its own, or has none. `SavePlan` looks for the
organization's row a second time when it has none, and then writes. `beside`
remembers the organizations whose subscription was being saved while a plan was being deleted:
`DeletedPlansAreUnused` says that only those can be on a deleted plan.

`Zones` has regions and zones, with checks among live rows and unique indexes over all rows. `crossed`
remembers regions that were being removed while a zone was being written in them: `LiveZonesHaveRegions`
says that a live zone is in a deleted region only there.

`Staff` has the users of the kernel's panel, edited by two routers of which one takes only brokers and
one does not check phone numbers. `PhonesDiffer`: two users have one number only if it was given
without a check or was `raced`. `BrokersOnly`: the brokers' router writes a user who is no broker
only if that user stopped being one after it was read.

`beside`, `crossed`, `raced`, `promoted` (and `overlapped` of `Roles`, `aside` of `Properties`,
`claimed` of `Meeting`) are history variables: no guard reads them. Each is set where handlers cross, so
that the property says exactly how much harm the missing lock does: these crossings happen in the
checked instances, and without the allowance each of the properties is violated.

## 13. `SocketProxy`

One connection: `ready` and `silent` of the two sockets, what each side has sent, what is buffered, what
has been forwarded. The events' handlers run one at a time in any order. `ForwardedInOrder`: what a side
receives is a prefix of what the other sent, across the opening of the service's socket.
`ClosedTogether`: once one socket is closed, the other closes too. `ClosesWithValidCodes`: `close()` is
never given a code for which it throws. The buffer is unbounded in the code; here the messages are.

## 14. Runs

| Run | Expected | Question |
| --- | --- | --- |
| `subscription_races`, `_serial` | pass | section 3 |
| `subscription_restore`, `_charges`, `_overlap`, `_late` | violation | section 3 |
| `meeting_races` / `meeting_overlap` | pass / violation | section 4 |
| `auth_shared` / `auth_edits` | pass / violation | section 5 |
| `platform` | pass | sections 6 to 13: in every scope, two handlers of the endpoints against each other, about 1,090,000 states |
| `realtime_reconnect` | violation | section 9 |

Every property of a passing run has a mutant in `PROJECT.json`: a change of one definition, as a
plausible bug would be (a check dropped, a statement of a transaction lost, a condition turned round),
under which TLC finds the property violated in the same instance.

What the code does and no property states, as it is wrong to some reader and right to another, and
nothing in the repository promises otherwise: two approvals of one request that both found it open
create two companies; a company number is used again when its last holder was purged; a restore
passes by the limits and the tax number's uniqueness; removing a member with the user also ends that
user's memberships elsewhere; seeding brings customised permissions of default roles back to their
presets; a plan that is mapped to another plan at Razorpay takes the organizations synchronised later
along; the name of a deleted region can never be used again; the first preference of a user, read
twice at once, is inserted twice and one request fails; one recipient who is purged makes the
INSERT of a whole batch fail.

## 15. Proofs

The modules of proofs prove, for every value of the constants (any number of organizations, rows,
meetings, handlers, processes, sockets' messages, any times to live):

| Theorem | Statement |
| --- | --- |
| `SubscriptionProofs!TypeCorrect` | `Spec => []TypeOK` |
| `SubscriptionProofs!RecordsAreOwn` | `Spec => []RecordsAreOwnSnapshots` |
| `SubscriptionProofs!OnlyRestore` | `Spec => OnlyRestoreRevives` |
| `SubscriptionProofs!Refinement` | `Spec => ImplementsLedger` |
| `MeetingProofs!TypeCorrect` | `Spec => []TypeOK` |
| `MeetingProofs!StatusBacked` | `Spec => []StatusIsBacked` |
| `MeetingProofs!MinutesAfterCompletion` | `Spec => []MinutesFollowCompletion` |
| `MeetingProofs!EventsAreOwn` | `Spec => []EventIsOwn` |
| `AuthCacheProofs!AuthTypes` | `Spec => []TypeOK` |
| `AuthCacheProofs!AuthJoinsCurrent` | `Spec => []OnlyCurrentJoined` |
| `AuthCacheProofs!AuthFreshEnough` | `Spec => []FreshEnough` |
| `TenancyProofs!OwnersAreFounders` | `TenancySpec => []OwnerIsFounder` |
| `TenancyProofs!CustomersAreOwn` | `TenancySpec => []CustomerIsOwn` |
| `TenancyProofs!OvershootBounded` | `TenancySpec => []BoundedOvershoot` |
| `TenancyProofs!TenancyInvariant` | `TenancySpec => []TenancyInv` |
| `TenancyProofs!TenancyTypes` | `TenancySpec => []TenancyTypeOK` |
| `PropertyProofs!OneKind` | `PropertiesSpec => []OneKindOfDetails` |
| `PropertyProofs!BoundedByHandlers` | `PropertiesSpec => []BoundedProperties` |
| `PropertyProofs!Announced` | `PropertiesSpec => []PublishedIsAnnounced` |
| `PropertyProofs!PropertiesInvariant` | `PropertiesSpec => []PropertiesInv` |
| `PropertyProofs!PropertiesTypes` | `PropertiesSpec => []PropertiesTypeOK` |
| `PropertyProofs!RecordedLink` | `MeetingPartiesSpec => []RecordedLinkIsInvited` |
| `PropertyProofs!PartiesInvariant` | `MeetingPartiesSpec => []PartiesInv` |
| `PropertyProofs!PartiesTypes` | `MeetingPartiesSpec => []MeetingPartiesTypeOK` |
| `AccessProofs!RoleTwins` | `RolesSpec => []TwinsOverlapped` |
| `AccessProofs!RolesManaged` | `RolesSpec => []EveryRoleIsManaged` |
| `AccessProofs!OwnersGuarded` | `RolesSpec => OwnerRoleGuarded` |
| `AccessProofs!RolesInvariant` | `RolesSpec => []RolesInv` |
| `AccessProofs!RolesTypes` | `RolesSpec => []RolesTypeOK` |
| `AccessProofs!PhonesAreUnique` | `StaffSpec => []PhonesDiffer` |
| `AccessProofs!BrokersRouterWritesBrokers` | `StaffSpec => BrokersOnly` |
| `AccessProofs!StaffInvariant` | `StaffSpec => []StaffInv` |
| `AccessProofs!StaffTypes` | `StaffSpec => []StaffTypeOK` |
| `RealtimeProofs!QuietSubscription` | `NotificationsSpec => []QuietIsSubscribed` |
| `RealtimeProofs!OneToken` | `NotificationsSpec => []OneTokenPerDevice` |
| `RealtimeProofs!SystemTemplate` | `NotificationsSpec => SystemTemplateKept` |
| `RealtimeProofs!NotificationsInvariant` | `NotificationsSpec => []NotificationsInv` |
| `RealtimeProofs!NotificationsTypes` | `NotificationsSpec => []NotificationsTypeOK` |
| `RealtimeProofs!ProxyForwardsInOrder` | `SocketProxySpec => []ForwardedInOrder` |
| `RealtimeProofs!ProxyClosesTogether` | `SocketProxySpec => []ClosedTogether` |
| `RealtimeProofs!ProxyClosesWithValidCodes` | `SocketProxySpec => []ClosesWithValidCodes` |
| `RealtimeProofs!ProxyTypes` | `SocketProxySpec => []SocketProxyTypeOK` |
| `PlatformProofs!DeletedPlansHaveNoSubscribers` | `PlansSpec => []DeletedPlansAreUnused` |
| `PlatformProofs!PlansTypes` | `PlansSpec => []PlansTypeOK` |
| `PlatformProofs!LiveZonesAreInRegions` | `ZonesSpec => []LiveZonesHaveRegions` |
| `PlatformProofs!ZonesTypes` | `ZonesSpec => []ZonesTypeOK` |
| `PlatformProofs!Composition` | `PlatformSpec` implies the specification of each of the nine components |
| `PlatformProofs!PlatformTypes` | `PlatformSpec => []PlatformTypeOK` |
| `PlatformProofs!PlatformPromises` | `PlatformSpec => []` of the conjunction of the 17 invariants of the run `platform` |
| `PlatformProofs!PlatformSteadies` | `PlatformSpec => SystemTemplateKept /\ OwnerRoleGuarded /\ BrokersOnly` |

Assumptions. Only those on the constants: `ConstantsAssumption` (bounds are numbers, calls are
operations that exist, times to live are positive, null is no id), and that null is no record
(`NullAssumption`, `NoneAssumption`, and a conjunct of the assumptions of the other modules); the
fields of a request's body have their types, as the routes' schemas enforce. Where a theorem counts
rows or handlers, they are finitely many (`IsFiniteSet` of `Workers`, `Members`, `Props`). TLC
evaluates them.

*Subscription.* `RecordsAreOwnSnapshots` is not inductive: a handler that is about to write must hold an
own snapshot too. `IInv` adds, for each handler, that what it remembers is consistent with where it
stands: the row it will write belongs to its organization (rows never change theirs), and the snapshot
it will save was reported by Razorpay of a subscription which that organization made or which names it
(`JobInv`; both facts are never undone, which is why a stale handler is harmless here). `SentInv` says
that what Razorpay sent is of subscriptions that have an owner, and `IndexesHold(rows)` carries the
unique indexes from one write to the next. `Refinement` then shows that every step is a step of
`SubscriptionLedger`: a save or a company transaction changes what is shown of one organization to one
issued state (`Show`) or to nothing (`Clear`), a change at Razorpay is an `Issue`, and every other step
leaves the ledger as it is. `IndexesHold` is what makes "the one live row" well defined.

*Meeting.* The checks of a handler are stale when it writes, so that the invariant may only carry
what no other handler takes back: `JobInv` says that a handler about to confirm, start or complete
finds a date in the row, and one about to publish minutes finds a completion, though perhaps no
longer the status it checked; that holds because dates and completions are never cleared (`Keeps`).
An event that
a handler is about to record exists and was made for its meeting, or a client wrote it there: events
stay and `claimed` only grows, so that neither goes stale. `RowWritten` is the lemma that each write of
a row reduces to.

*AuthCache.* `OnlyCurrentJoined` is inductive given the types: the map is written only where a
resolution starts, settles or is outdated. `FreshEnough` is not; `AgesInv` bounds, for each kind of
copy, age plus time left, which time does not change and which only a copy raises, by the new time
to live less the one unit its source must have had left (`CopyWithin`). A served context is at the
end of the chain.

*Tenancy.* A handler decides on a role, a company or a customer and writes when other handlers may have
changed it, so that neither `OwnerIsFounder` nor `CustomerIsOwn` is inductive. `TenancyInv` carries, for
each handler, what nobody takes back: that the member it is to write was inserted (`TenancyRefers`),
that a kernel edit to `owner` is of the founder, or of a member that is gone (`Promotes`), and that the
company it looks for a customer for is still the one it founded, with the tax number it had, where
companies are neither purged nor edited, and that the customer found matches or was made for the company
(`Bills`). Every step is shown to be `TenancySteady` (members keep company and user, companies their
founder, customers stay), and `StepKeepsInv` says once that steady steps keep the invariant. The foreign
keys (`Keyed`) are what a purge's cascade must not break: `DeleteKeepsInv`.

`BoundedOvershoot` counts. Of each company, `Held` are the members that are live or that a handler which
has passed the limit is about to restore, `Creating` the handlers that have passed it and are to insert
one; together they stay below the plan's seats and one for each handler (`MembersCounted`). A handler
that passes the limit has found less than that and enters with one; one that writes turns what was
counted for it into what is there; two handlers that restore one member are counted once, which is why
members and not handlers are counted there. The statement makes no use of an induction: the bound of a
step is that of the step before, one up or one down. Restoring a whole company looks at no limit, and
the property leaves out the scopes that do it.

*Properties.* `OneKindOfDetails` needs `Transactions`: of the updates of one property that are under way
at most one holds the lock (`OneLock`), and a transaction that may have missed rows ran beside another
of which one had no lock, so that the property is in `aside` (`TransactionSound`). A write that missed
nothing leaves one table. `BoundedProperties` needs, as above, that handlers that have passed the limit
are counted with what is there (`Entering`, `EnteringCounted`), and that nobody's property becomes an
organization's unseen (`UnownedOutside`). `PublishedIsAnnounced` needs that a property that is published
and not announced has a handler that is about to announce it (`AnnouncedOrDue`). `SoundEdit` is what a
handler's stale copy and the row still agree on.

*MeetingParties.* An event and a link go together wherever they are kept: in a meeting's row, with a
handler that read them there, with one that is to record them (`Pairs`). `EventsOwned` says that all of
them are of one meeting, and that the event in the calendar invites to that link, for every event whose
id no client has written: it is proved of all places at once, since a sync takes a pair from one to
another. The proof needs the exception for `claimed` events; without it the invariant is not kept by a
sync of the meeting that was given the event.

*Roles.* `SlugsChecked` carries the slug that a handler has found free and not yet written (`Writes`):
it is no live role's and no other handler's, or `overlapped` has it. `Guarded` says of a handler
that its caller was allowed to manage the role it read, which is all that is left when another one
changes the role. `EveryRoleIsManaged` is inductive with the types: seeding merges presets into what is
there, and editing may not reach the managed resources.

*Notifications.* `Subscriptions` puts a connection into the Set it made or found, and that Set into the
Map, unless some unsubscription failed or ran twice (`Quiet`). `TwinsExplained`: of two active tokens of
a device, one has a handler that is about to switch the other off, or is in `halfDone`. `TemplateRows`
keeps the seeded row as it was seeded.

*Plans, Zones, Staff.* Plans that a handler has found or read of a row are rows of the table
(`PlanRefers`), as rows stay. Each invariant says of every handler that what it has read still holds, or
that it has been crossed and the history variable says so: `StaleSeen` and `CrossingSeen` of a
handler that is writing a zone, `EmptySeen` of one that has found a region empty; `BesideSeen`,
`StaleSeen`, `CountedNone` of plans likewise; `ReadBroker` and `ReadPhone` of staff, with `Accounts`
for the cascade.

*SocketProxy.* `Counted` relates what was sent, buffered and forwarded; `UpToDate` says that the buffer
is empty once the service's socket is open, without which a message could overtake the buffered ones.

*Platform.* A step of the platform is one of the busy component and leaves the others' variables
(`PlatformSteps`), so that a behaviour of it is one of each component (`Composition`), and every
theorem about a component is one about `Platform`.

What stays with TLC: the liveness properties `NotificationsDrain` and `RequestsEnd`, as TLAPS does not
prove liveness under fairness, and `SyncedWhenQuiet`, which holds only with the ordered notifications
and the one handler of `subscription_serial` (`subscription_late` shows the first is needed; with a
second handler a create that still holds the unpaid state is saved after the notification of the
payment) and is not claimed of the code in general. Every other property of a passing run is a theorem.
The violations are TLC's counterexamples.

## 16. Not modelled, and why

* Reading endpoints (list, get, current, limits, billing) change no state. List queries parse filters
  and build SQL: strings, without a step that could interleave.
* HTTP gateway: a stateless table of routes and a fetch.
* Auth service: Better Auth, a library, does the work. What it does to rows that are modelled is a
  step of the environment (`SignIn`, `ChoosePassword`, `StaffSignIn`, `ChangePassword`).
* Evaluation of a permission for a request changes nothing; the copies it reads are `AuthCache`'s.
* FAQs and testimonials: independent rows, one statement each.
* Rate limiting: a library over a store in Redis, without a promise of exactness.
* Mail templates, logger, scripts, migration, database set-up: formatting, or I/O run by hand.
