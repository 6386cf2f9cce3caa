SPECIFICATION PlatformSpec
CONSTANTS
  None = None  Missing = Missing
  w1 = w1  w2 = w2  u1 = u1  u2 = u2  u3 = u3  o1 = o1  o2 = o2  p1 = p1  p2 = p2
  k1 = k1  k2 = k2  d1 = d1  i0 = i0  i1 = i1  systemKey = systemKey  retiredKey = retiredKey
  c1 = c1  c2 = c2  z1 = z1  z2 = z2  a1 = a1  a2 = a2  e1 = e1  e2 = e2  n1 = n1
  Workers = {w1, w2}
  Numbers = {1, 2}  Users = {1, 2, 3, 4, 5}  Staffers = {5}  Members = {1, 2, 3, 4}  Requests = {1}  Gsts = {1}
  Customers = {1, 2}  Tokens = {1}
  Plan <- MCPlan  Scopes <- MCScopes
  Orgs = {o1, o2}  People = {u1, u2, u3}  Props = {1, 2, 3}
  Callers <- MCCallers  Bodies <- MCBodies  PropertyPlan <- MCPropertyPlan  PropertyScopes <- MCPropertyScopes
  Recipients = {u1, u2}  Batches = {1, 2}  PushTokens = {k1, k2}  Devices = {d1}  Sockets = {1, 2, 3}
  TemplateIds = {i0, i1}  SeedId = i0  TemplateKeys = {systemKey, retiredKey}
  SystemKey = systemKey  RetiredKey = retiredKey
  NoticeBodies <- MCNoticeBodies  NoticeScopes <- MCNoticeScopes
  MeetingIds = {1, 2}  CalendarEvents = {1, 2}  MeetSpaces = {1, 2}  Parties = {u1, u2}  Estates = {p1}
  MeetingOrgs = {o1, o2}
  MeetingCallers <- MCMeetingCallers  MeetingBodies <- MCMeetingBodies  MeetingScopes <- MCMeetingScopes
  RoleIds = {1, 2, 3, 4}  MaxStatements = 3  RoleOrgs = {o1}  Presets = {"owner", "admin"}
  RoleSlugs <- MCRoleSlugs  Resources <- MCResources  FirstRoles <- MCFirstRoles
  RoleCallers <- MCRoleCallers  RoleBodies <- MCRoleBodies  RoleScopes <- MCRoleScopes
  PlanIds = {1, 2}  PlanCodes = {c1, c2}  RazorpayPlans = {z1, z2}  Subscribers = {o1}
  PlanBodies <- MCPlanBodies  PlanScopes <- MCPlanScopes
  RegionIds = {1, 2}  ZoneIds = {1, 2}  PlaceNames = {a1, a2}  ZoneScopes <- MCZoneScopes
  PersonIds = {1, 2}  BrokerRequests = {1, 2}  Emails = {e1, e2}  PhoneNumbers = {n1}  StaffTokens = {1}
  StaffBodies <- MCStaffBodies  StaffScopes <- MCStaffScopes
  MaxMessages = 3  CloseCodes = {1000, 1005, 1006, 1011, 3000}  ProxyOn = {TRUE}
SYMMETRY MCSymmetry
INVARIANTS
  PlatformTypeOK
  OwnerIsFounder BoundedOvershoot CustomerIsOwn
  OneKindOfDetails BoundedProperties PublishedIsAnnounced
  QuietIsSubscribed OneTokenPerDevice
  RecordedLinkIsInvited
  TwinsOverlapped EveryRoleIsManaged
  DeletedPlansAreUnused
  LiveZonesHaveRegions
  PhonesDiffer
  ForwardedInOrder ClosedTogether ClosesWithValidCodes
PROPERTIES SystemTemplateKept OwnerRoleGuarded BrokersOnly
CHECK_DEADLOCK FALSE
