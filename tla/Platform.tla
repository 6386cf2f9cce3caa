-------------------------------- MODULE Platform --------------------------------
(***************************************************************************)
(* The components around subscriptions and meetings, side by side: a            *)
(* behaviour is one of a component.  Each has tables of its own here, also of     *)
(* what another one writes, as far as it reads it; no two of them write a row      *)
(* of the same table in one transaction, so that a product of their behaviours     *)
(* would add nothing that any of their properties speaks of.                       *)
(***************************************************************************)
EXTENDS Tenancy, Properties, Notifications, MeetingParties, Roles, Plans, Zones, Staff, SocketProxy

Components == {"tenancy", "properties", "notifications", "meetings", "roles", "plans", "zones",
               "staff", "socketProxy"}

VARIABLE busy  \* the component whose behaviour this is

platformVars ==
  <<tenancyVars, propertiesVars, notificationsVars, meetingPartiesVars, rolesVars, plansVars,
    zonesVars, staffVars, proxyVars, busy>>

Still(c, vars) == IF busy = c THEN TRUE ELSE UNCHANGED vars

\* Where a component is not busy, one initial state stands for all.
Settled(c, one) == busy # c => one

PlatformInit ==
  /\ busy \in Components
  /\ TenancyInit /\ Settled("tenancy", scope = CHOOSE s \in Scopes : TRUE)
  /\ PropertiesInit /\ Settled("properties", within = CHOOSE s \in PropertyScopes : TRUE)
  /\ NotificationsInit /\ Settled("notifications", noticeScope = CHOOSE s \in NoticeScopes : TRUE)
  /\ MeetingPartiesInit
  /\ Settled("meetings", /\ meetingScope = CHOOSE s \in MeetingScopes : TRUE
                         /\ estate = CHOOSE e \in [Estates -> EstatesAtFirst] : TRUE)
  /\ RolesInit /\ Settled("roles", roleScope = CHOOSE s \in RoleScopes : TRUE)
  /\ PlansInit /\ Settled("plans", planScope = CHOOSE s \in PlanScopes : TRUE)
  /\ ZonesInit /\ Settled("zones", zoneScope = CHOOSE s \in ZoneScopes : TRUE)
  /\ StaffInit /\ Settled("staff", staffScope = CHOOSE s \in StaffScopes : TRUE)
  /\ SocketProxyInit

PlatformNext ==
  /\ UNCHANGED busy
  /\ Still("tenancy", tenancyVars) /\ Still("properties", propertiesVars)
  /\ Still("notifications", notificationsVars) /\ Still("meetings", meetingPartiesVars)
  /\ Still("roles", rolesVars) /\ Still("plans", plansVars) /\ Still("zones", zonesVars)
  /\ Still("staff", staffVars) /\ Still("socketProxy", proxyVars)
  /\ \/ busy = "tenancy" /\ TenancyNext
     \/ busy = "properties" /\ PropertiesNext
     \/ busy = "notifications" /\ NotificationsNext
     \/ busy = "meetings" /\ MeetingPartiesNext
     \/ busy = "roles" /\ RolesNext
     \/ busy = "plans" /\ PlansNext
     \/ busy = "zones" /\ ZonesNext
     \/ busy = "staff" /\ StaffNext
     \/ busy = "socketProxy" /\ SocketProxyNext

PlatformSpec == PlatformInit /\ [][PlatformNext]_platformVars

\* The tables of every component have their types, with the keys that refer to rows
\* and the cascades of their foreign keys: see the TypeOK of each module.
PlatformTypeOK ==
  /\ TenancyTypeOK /\ PropertiesTypeOK /\ NotificationsTypeOK /\ MeetingPartiesTypeOK
  /\ RolesTypeOK /\ PlansTypeOK /\ ZonesTypeOK /\ StaffTypeOK /\ SocketProxyTypeOK

=============================================================================
