------------------------------ MODULE MCPlatform ------------------------------
(***************************************************************************)
(* Small instances of the components of Platform.  A scope is a few endpoints    *)
(* that run against each other, with the rows they may use; the scopes of a       *)
(* component together call each of its endpoints.                                 *)
(***************************************************************************)
EXTENDS Platform, TLC

CONSTANTS w1, w2,      \* handlers
          u1, u2, u3,  \* users
          o1, o2,      \* organizations
          p1, p2,      \* properties of meetings
          k1, k2, d1,  \* tokens and a device of push notifications
          i0, i1, systemKey, retiredKey,  \* notification templates
          c1, c2, z1, z2,                 \* codes of plans, and plans at Razorpay
          a1, a2,      \* names of regions and zones
          e1, e2, n1   \* addresses and a telephone number

MCSymmetry == Permutations({w1, w2})

-----------------------------------------------------------------------------
(* Tenancy *)

MCPlan == [n \in {1, 2} |-> [configured |-> TRUE, maxUsers |-> 2, maxProperties |-> 1, additional |-> 0]]

\* Companies may give an address as their own where that matters.
MCTenancyScope(calls, numbers, n) ==
  [calls |-> calls, numbers |-> numbers, users |-> 1 .. n, members |-> 1 .. n,
   emails |-> IF "subscribe" \in calls THEN {None, 2} ELSE {None}]

MCScopes ==
  {MCTenancyScope({"createCompany", "createRequest", "addNew", "restoreRequest", "removeRequest",
                   "purgeRequest", "razorpay"}, {1, 2}, 2),
   MCTenancyScope({"createCompany", "subscribe", "razorpay"}, {1, 2}, 2),
   MCTenancyScope({"createCompany", "createMember", "kernelUpdateMember", "softDeleteMember"}, {1}, 3),
   MCTenancyScope({"createCompany", "createMember", "kernelCreateMember", "restoreMember",
                   "softDeleteMember"}, {1}, 4),
   MCTenancyScope({"createCompany", "createMember", "removeCompany", "restoreCompany", "restoreOnly",
                   "purgeCompany", "updateCompany"}, {1, 2}, 2),
   MCTenancyScope({"createCompany", "banMember", "kernelCreateMember", "revokeSession",
                   "revokeAllSessions", "resendToMember", "resendToOwner"}, {1}, 2),
   MCTenancyScope({"createCompany", "createMember", "kernelBanMember", "removeWithUser",
                   "kernelRevokeSession", "kernelRevokeAllSessions", "kernelResendToMember"}, {1}, 2),
   MCTenancyScope({"createCompany", "createMember", "updateMember", "removeMember", "kernelRemoveMember",
                   "kernelSoftDeleteMember", "kernelRemoveWithUser"}, {1}, 2)}

-----------------------------------------------------------------------------
(* Properties *)

ofStaff == [user |-> u3, broker |-> FALSE, org |-> None, ownOnly |-> FALSE,
            may |-> {"update", "publish", "verify"}]
ofBroker == [user |-> u2, broker |-> TRUE, org |-> None, ownOnly |-> TRUE, may |-> {"update"}]
ofCompany == [user |-> u1, broker |-> FALSE, org |-> o1, ownOnly |-> TRUE, may |-> {"publish"}]

noField == [kind |-> None, details |-> None, org |-> None, superOwner |-> None, coOwners |-> None,
            terms |-> None, certificate |-> None, dated |-> FALSE, published |-> None,
            verified |-> None, mandate |-> None]
retail == [noField EXCEPT !.kind = "RETAIL", !.details = {"RETAIL"}, !.org = o1, !.mandate = TRUE,
                          !.superOwner = u1, !.certificate = "PENDING"]
office == [noField EXCEPT !.kind = "OFFICE", !.details = {"OFFICE"}]
onlyDetails == [noField EXCEPT !.details = {"RETAIL"}, !.certificate = "RECEIVED"]
area == [noField EXCEPT !.terms = [u \in {u1, u2, u3} |-> IF u = u1 THEN "area" ELSE "none"]]
publish == [noField EXCEPT !.published = TRUE]
away == [noField EXCEPT !.org = o2]

MCCallers == {ofStaff, ofBroker, ofCompany}
MCBodies == {retail, office, onlyDetails, area, publish, away}
MCPropertyPlan ==
  [o \in {o1, o2} |-> [configured |-> TRUE, maxUsers |-> 2, maxProperties |-> 1, additional |-> 0]]

MCPropertyScope(calls, callers, bodies, props) ==
  [calls |-> calls, callers |-> callers, bodies |-> bodies, props |-> props]

MCPropertyScopes ==
  {MCPropertyScope({"createProperty", "updateProperty", "kernelUpdateProperty"},
                   {ofStaff, ofCompany}, {retail, office, onlyDetails}, {1}),
   MCPropertyScope({"createProperty", "updateProperty", "kernelUpdateProperty"},
                   {ofStaff, ofCompany}, {retail, area, publish}, {1}),
   MCPropertyScope({"createProperty", "kernelCreateProperty", "removeProperty", "restoreProperty"},
                   {ofStaff, ofCompany}, {retail}, {1, 2, 3}),
   MCPropertyScope({"kernelCreateProperty", "kernelRemoveProperty", "restoreProperty", "purgeProperty",
                    "organization", "person", "updateProperty"}, {ofStaff, ofCompany}, {retail}, {1}),
   MCPropertyScope({"kernelCreateProperty", "kernelUpdateProperty", "moveProperty", "removeProperty"},
                   MCCallers, {retail, away}, {1}),
   MCPropertyScope({"kernelCreateProperty", "kernelUpdateProperty", "moveProperty", "updateProperty"},
                   {ofStaff, ofCompany}, {retail, office, away}, {1}),
   MCPropertyScope({"createProperty", "membership"}, {ofCompany}, {retail}, {1})}

-----------------------------------------------------------------------------
(* Notifications *)

MCNoticeBody(members, to, key, channel) ==
  [members |-> members, to |-> to, audience |-> {u1, u2}, key |-> key, channel |-> channel]

MCNoticeBodies == {MCNoticeBody(None, {}, None, "BOTH"), MCNoticeBody({u1}, {u2}, retiredKey, "DASHBOARD"),
                   MCNoticeBody(None, {u1}, None, "PUSH")}

MCNoticeScope(calls, users, batches, tokens, sockets) ==
  [calls |-> calls, users |-> users, batches |-> batches, tokens |-> tokens, sockets |-> sockets]

\* Two users, one of whom may reconnect.
MCReconnecting == MCNoticeScope({"socket", "stream", "socketError"}, {u1, u2}, {}, {}, {1, 2, 3})

MCNoticeScopes ==
  {MCNoticeScope({"send", "socket"}, {u1, u2}, {1, 2}, {}, {1, 2}),
   MCNoticeScope({"send", "read", "cron", "purgeUser"}, {u1}, {1}, {}, {}),
   MCNoticeScope({"send", "cron", "purgeUser"}, {u1, u2}, {1}, {}, {}),
   MCNoticeScope({"register", "send", "crash"}, {u1}, {}, {k1, k2}, {}),
   MCNoticeScope({"updatePreference", "getPreference", "property", "purgeUser"}, {u1}, {1}, {}, {}),
   MCNoticeScope({"seed", "createTemplate", "updateTemplate", "deleteTemplate", "send"}, {}, {}, {}, {}),
   MCNoticeScope({"register", "test", "crash", "cron", "purgeUser", "unregister"}, {u1}, {}, {k1}, {}),
   MCReconnecting}

-----------------------------------------------------------------------------
(* MeetingParties *)

ofKernel == [user |-> u1, org |-> None, ownOnly |-> FALSE]
ofOwner == [user |-> u2, org |-> o1, ownOnly |-> TRUE]
MCMeetingCallers == {ofKernel, ofOwner}

nothing == [f \in {} |-> None]
onEstate == [f \in {"estate"} |-> p1]
meetOccupier == [f \in {"occupier"} |-> u2]
unlink == [f \in {"link"} |-> None]
takeEvent == [f \in {"estate", "event"} |-> IF f = "estate" THEN p1 ELSE 1]
MCMeetingBodies == {onEstate, nothing, meetOccupier, unlink, takeEvent}

MCMeetingScope(calls, callers, bodies) ==
  [calls |-> calls, callers |-> callers, bodies |-> bodies, meetings |-> IF takeEvent \in bodies THEN {1, 2} ELSE {1}]

MCMeetingScopes ==
  {MCMeetingScope({"createMeeting", "schedule", "googleSync"}, MCMeetingCallers, {onEstate}),
   MCMeetingScope({"createMeeting", "updateMeeting", "removeMeeting", "property", "user"},
                  MCMeetingCallers, {onEstate, meetOccupier, nothing}),
   MCMeetingScope({"createMeeting", "schedule", "confirm", "start"}, {ofKernel}, {onEstate, nothing}),
   MCMeetingScope({"createMeeting", "schedule", "start", "complete", "publishMom"}, {ofKernel}, {onEstate}),
   MCMeetingScope({"createMeeting", "schedule", "cancel", "reject"}, {ofKernel}, {onEstate, nothing}),
   MCMeetingScope({"createMeeting", "schedule", "user"}, {ofOwner}, {onEstate}),
   MCMeetingScope({"createMeeting", "updateMeeting", "schedule", "forceSync"}, {ofKernel}, {onEstate, unlink}),
   MCMeetingScope({"createMeeting", "schedule"}, {ofKernel}, {onEstate, takeEvent})}

-----------------------------------------------------------------------------
(* Roles *)

ownerRole == [panel |-> "company", org |-> o1, slug |-> "owner"]
adminRole == [panel |-> "company", org |-> o1, slug |-> "admin"]
kernelOfCompanies == [panel |-> "company", org |-> None, slug |-> "admin"]
kernelOfStaff == [panel |-> "proptryx", org |-> None, slug |-> "admin"]
MCRoleCallers == {ownerRole, adminRole, kernelOfCompanies, kernelOfStaff}

MCFirstRoles == <<[panel |-> "proptryx", org |-> None, slug |-> "admin"],
                  [panel |-> "company", org |-> o1, slug |-> "owner"],
                  [panel |-> "company", org |-> o1, slug |-> "admin"]>>
MCRoleSlugs == DefaultRoleSlugs \cup {"OWNER", "clerk"}
MCResources == {"account", "rbac_role", "rbac_role_permission", "property", "*"}

MCRoleBody(slug, res, level, actions) == [slug |-> slug, resource |-> res, level |-> level, actions |-> actions]
clerk == MCRoleBody("clerk", "property", None, {"get"})
ownerSlug == MCRoleBody("owner", None, None, None)
ownerCapitals == MCRoleBody("OWNER", None, None, None)
adminSlug == MCRoleBody("admin", None, None, None)
onProperty == MCRoleBody(None, "property", "all", None)
onAccount == MCRoleBody(None, "account", "all", {})
onAll == MCRoleBody(None, "*", None, {"*"})
onPermission == MCRoleBody(None, "rbac_role_permission", None, {"create"})
MCRoleBodies == {clerk, ownerSlug, ownerCapitals, adminSlug, onProperty, onAccount, onAll, onPermission}

MCRoleScope(calls, callers, bodies) == [calls |-> calls, callers |-> callers, bodies |-> bodies]

MCRoleScopes ==
  {MCRoleScope({"createRole", "updateRole"}, {adminRole, kernelOfCompanies}, {clerk, adminSlug}),
   MCRoleScope({"createRole", "updateRole", "removeRole"}, {ownerRole, adminRole}, {ownerSlug, ownerCapitals}),
   MCRoleScope({"createRole", "updateRole", "removeRole"}, {kernelOfStaff}, {clerk, adminSlug}),
   MCRoleScope({"createPermission", "updatePermission", "removePermission", "removeRole"},
               {adminRole, kernelOfCompanies}, {onProperty, onAccount}),
   MCRoleScope({"createPermission", "updatePermission", "removePermission"}, {kernelOfStaff}, {onProperty, onAccount}),
   MCRoleScope({"seedRoles", "removeRole", "createRole", "createPermission"}, {kernelOfCompanies},
               {adminSlug, onProperty, onAll}),
   MCRoleScope({"seedRoles", "removePermission", "company"}, {kernelOfCompanies}, {onProperty, onAccount}),
   MCRoleScope({"seedRoles", "updatePermission"}, {kernelOfStaff}, {onPermission})}

-----------------------------------------------------------------------------
(* Plans *)

basic == [code |-> c1, razorpay |-> z1, recommended |-> TRUE]
offer == [code |-> c2, razorpay |-> z2, recommended |-> FALSE, deadline |-> "ahead"]
remap == [razorpay |-> z2, recommended |-> FALSE]
renew == [active |-> TRUE, recommended |-> TRUE]
MCPlanBodies == {basic, offer, remap, renew}

MCPlanScope(calls, bodies) == [calls |-> calls, bodies |-> bodies]

MCPlanScopes ==
  {MCPlanScope({"createPlan", "updatePlan", "deletePlan"}, MCPlanBodies),
   MCPlanScope({"createPlan", "deletePlan", "subscribe", "sync", "webhook"}, {basic}),
   MCPlanScope({"createPlan", "updatePlan", "deletePlan", "webhook", "pause"}, {basic, remap, offer}),
   MCPlanScope({"createPlan", "updatePlan", "discountExpiry", "deadline", "deletePlan"}, {offer, renew})}

-----------------------------------------------------------------------------
(* Zones *)

MCZoneScopes ==
  {[calls |-> ZoneCalls, names |-> {a1}],
   [calls |-> {"createRegion", "removeRegion", "createZone"}, names |-> {a1, a2}]}

-----------------------------------------------------------------------------
(* Staff *)

plainPhone == [number |-> n1, code |-> FALSE]
codedPhone == [number |-> n1, code |-> TRUE]
broker1 == [email |-> e1, phone |-> plainPhone]
broker2 == [email |-> e2, phone |-> plainPhone]
applicant == [email |-> e1, phone |-> codedPhone]
staff1 == [email |-> e1, role |-> "admin"]
staff2 == [email |-> e2, phone |-> plainPhone, role |-> "admin"]
toPhone == [phone |-> plainPhone]
toEmail1 == [email |-> e1]
toEmail2 == [email |-> e2]
promote == [role |-> "admin"]
demote == [role |-> "broker"]
MCStaffBodies == {broker1, broker2, applicant, staff1, staff2, toPhone, toEmail1, toEmail2, promote, demote}

MCStaffScope(calls, bodies) == [calls |-> calls, bodies |-> bodies]

MCStaffScopes ==
  {MCStaffScope({"createBroker", "updateBroker", "create", "removeBroker"}, {broker1, broker2, toEmail2, toPhone, staff2}),
   MCStaffScope({"createBroker", "submit", "removeRequest", "restoreRequest", "purgeRequest"}, {broker1, applicant}),
   MCStaffScope({"createBroker", "update", "updateBroker", "removeBroker", "purgeBroker"}, {toEmail1, promote}),
   MCStaffScope({"create", "remove", "purge", "resend", "resendBroker", "revoke", "revokeAll", "signIn",
                 "changePassword", "update"}, {staff1, demote})}

=============================================================================
