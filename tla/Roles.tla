--------------------------------- MODULE Roles ---------------------------------
(***************************************************************************)
(* Roles and what they permit.  Three routers edit the same two tables: a      *)
(* company edits its own roles, the kernel service those of every company and  *)
(* those of its own panel.  A slug is unique by a check before the insert, by   *)
(* no index; the default roles of a company are brought back to their presets   *)
(* whenever the kernel service creates or edits one of its members.            *)
(***************************************************************************)
EXTENDS Tables, Naturals, FiniteSets

CONSTANTS
  RoleIds,      \* primary keys (bounds the inserts)
  MaxStatements,  \* INSERTs of permissions
  RoleOrgs,     \* companies
  RoleSlugs,    \* slugs of roles
  Resources,    \* tables a permission may name
  Presets,      \* the default roles of a company, of DefaultRoleSlugs
  FirstRoles,   \* the roles there are at the start, some of RoleIds
  RoleCallers,  \* who calls
  RoleBodies,   \* what is sent
  RoleScopes    \* a behaviour takes calls, callers and bodies from one of these

Panels == {"company", "proptryx"}
AccessLevels == {"company", "user", "all"}
DefaultRoleSlugs == {"owner", "admin", "executive", "property_owner"}

\* getAll, publish and the like do as "get" does here.
FullActions == {"get", "create", "update", "delete"}

ManagedResources == Resources \cap {"account", "session", "user"}

RoleCalls == {"createRole", "updateRole", "removeRole", "createPermission", "updatePermission",
              "removePermission", "seedRoles", "company"}

\* org: None for the kernel service, which edits the roles of one panel; slug: the caller's role.
RoleCaller == [panel : Panels, org : RoleOrgs \cup {None}, slug : RoleSlugs]

\* The rows one statement inserts share its number, which with role and
\* resource stands for the row's id.
Permission == [level : AccessLevels, actions : SUBSET (FullActions \cup {"*"}), id : 0 .. MaxStatements]

\* A permission that is not in a body has no resource there.
RoleBody == [slug : RoleSlugs \cup {None}, resource : Resources \cup {None},
             level : AccessLevels \cup {None}, actions : {None} \cup SUBSET (FullActions \cup {"*"})]

IsPermissions(p) ==
  /\ DOMAIN p \subseteq Resources
  /\ \A r \in DOMAIN p : p[r] \in Permission

RoleRow == [panel : Panels, org : RoleOrgs \cup {None}, slug : RoleSlugs,
            permissions : UNION {[S -> Permission] : S \in SUBSET Resources}, life : {"live", "gone"}]

ASSUME RolesAssumption ==
  /\ RoleIds \subseteq Nat /\ MaxStatements \in Nat
  /\ Presets \subseteq DefaultRoleSlugs /\ DefaultRoleSlugs \subseteq RoleSlugs
  /\ None \notin RoleOrgs /\ None \notin RoleSlugs /\ None \notin Resources
  /\ None \notin RoleIds /\ None \notin RoleRow
  /\ DOMAIN FirstRoles \subseteq RoleIds
  /\ \A r \in DOMAIN FirstRoles :
       /\ FirstRoles[r] \in [panel : Panels, org : RoleOrgs \cup {None}, slug : RoleSlugs]
       /\ FirstRoles[r].panel = "company" => FirstRoles[r].slug \in Presets
       /\ \A q \in DOMAIN FirstRoles : q # r => FirstRoles[q] # FirstRoles[r]
  /\ RoleCallers \subseteq RoleCaller
  /\ \A c \in RoleCallers : c.org # None => c.panel = "company"
  /\ RoleBodies \subseteq RoleBody
  /\ RoleScopes \subseteq [calls : SUBSET RoleCalls, callers : SUBSET RoleCallers, bodies : SUBSET RoleBodies]

VARIABLES
  role,        \* tables rbac_role and rbac_role_permission
  owning,      \* companies whose row exists
  doing,       \* what each handler keeps across its awaits
  overlapped,  \* panel, company and slug that two handlers checked before either wrote
  statements,  \* INSERTs of permissions so far
  roleScope    \* the scope of this behaviour

rolesVars == <<role, owning, doing, overlapped, statements, roleScope>>

-----------------------------------------------------------------------------
(* Reading *)

LiveRoles == {r \in RoleIds : IsLive(role[r])}

\* findRoleById: the kernel service finds a role of its panel, a company one of its own.
FindsRole(c, r) ==
  /\ IsLive(role[r])
  /\ role[r].panel = c.panel
  /\ c.org # None => role[r].org = c.org
  /\ c.panel = "proptryx" => role[r].org = None

\* findRoleSlugConflict
SlugConflict(panel, org, slug, except) ==
  \E r \in LiveRoles \ {except} : role[r].panel = panel /\ role[r].org = org /\ role[r].slug = slug

\* isOwnerRoleSlug ignores case, a slug does not.
IsOwnerSlug(slug) == slug \in {"owner", "OWNER"}

\* canManageRole
CanManage(c, slug) == IsOwnerSlug(slug) => IsOwnerSlug(c.slug)

\* getCandidateResources, and the wildcard
CandidateResources(resource) ==
  {resource, "*"} \cup CASE resource = "client_request"  -> {"company_request"}
                         [] resource = "company_request" -> {"client_request"}
                         [] OTHER                        -> {}

\* resolvePermission
HasPermission(permissions, resource, action) ==
  \E r \in CandidateResources(resource) \cap DOMAIN permissions :
    permissions[r].actions \cap {action, "*"} # {}

\* createResourceRbacGuards: the caller's role is the first that has its slug.
May(c, guard) ==
  \E r \in LiveRoles :
    /\ role[r].slug = c.slug /\ role[r].org = c.org
    /\ role[r].panel = IF c.org = None THEN "proptryx" ELSE "company"
    /\ HasPermission(role[r].permissions, guard.resource, guard.action)

-----------------------------------------------------------------------------
(* Permissions *)

\* buildManagedRolePermission
ManagedPermission == [level |-> "user", actions |-> FullActions]

\* normalizePermissionValues, createPermissionValues
PermissionValues(b) ==
  [level |-> IF b.level = None THEN "all" ELSE b.level,
   actions |-> IF b.actions = None THEN {} ELSE b.actions]

\* normalizeManagedRolePermission
NormalizedPermission(b) ==
  IF b.resource \in ManagedResources THEN ManagedPermission ELSE PermissionValues(b)

\* mergeManagedRolePermissions: what a new role is given.
MergedPermissions(b) ==
  [r \in ManagedResources \cup ({b.resource} \ {None}) |->
     IF r \in ManagedResources THEN ManagedPermission ELSE PermissionValues(b)]

\* DEFAULT_ROLE_PERMISSION_PRESETS
PresetPermissions(slug) ==
  CASE slug \in {"owner", "admin"} ->
         [r \in Resources \ {"*"} |->
            IF r \in ManagedResources THEN ManagedPermission
            ELSE [level |-> "company", actions |-> FullActions]]
    [] slug = "executive" ->
         [r \in ManagedResources \cup (Resources \cap {"property"}) |-> ManagedPermission]
    [] slug = "property_owner" ->
         [r \in ManagedResources \cup (Resources \cap {"member", "property"}) |->
            IF r = "property" THEN [level |-> "user", actions |-> {"get"}] ELSE ManagedPermission]

\* Rows with the id of the statement that inserts them.
Inserted(permissions, id) ==
  [r \in DOMAIN permissions |->
     [level |-> permissions[r].level, actions |-> permissions[r].actions, id |-> id]]

NewRole(panel, org, slug, permissions, id) ==
  [panel |-> panel, org |-> org, slug |-> slug, permissions |-> Inserted(permissions, id), life |-> "live"]

\* The first n keys that are not used.
FreshRoles(n) ==
  {r \in RoleIds : role[r] = None /\ Cardinality({s \in RoleIds : role[s] = None /\ s < r}) < n}

-----------------------------------------------------------------------------
(* The steps of a handler *)

NewJob(op, c) ==
  [op |-> op, step |-> "write", by |-> c, id |-> None, org |-> None, body |-> None, old |-> None,
   oldSlug |-> None, missing |-> {}, seen |-> [r \in {} |-> None]]

Take(w, job) ==
  /\ doing[w] = None
  /\ doing' = [doing EXCEPT ![w] = job]
  /\ UNCHANGED <<role, owning, statements, roleScope>>

RoleDone(w) ==
  /\ doing' = [doing EXCEPT ![w] = None]
  /\ UNCHANGED <<owning, overlapped, roleScope>>

\* The slugs a handler that is under way has checked and will write.
Writes(job) ==
  IF job = None THEN {}
  ELSE CASE job.op = "seedRoles" -> {<<"company", job.org, slug>> : slug \in job.missing}
         [] job.op \in {"createRole", "updateRole"} /\ job.body.slug # None ->
              {<<job.by.panel, job.org, job.body.slug>>}
         [] OTHER -> {}

\* Take a job whose check of a slug is worth nothing if another one's is under way.
TakeWithSlug(w, job) ==
  /\ Take(w, job)
  /\ overlapped' = overlapped \cup (Writes(job) \cap UNION {Writes(doing[v]) : v \in Workers})

TakeOnly(w, job) == Take(w, job) /\ UNCHANGED overlapped

Reached(w, op) == doing[w] # None /\ doing[w].op = op /\ doing[w].step = "write"

\* INSERT of the role and its permissions, in one transaction.
InsertRole(w) ==
  LET job == doing[w]
  IN  /\ job.org # None => job.org \in owning
      /\ statements < MaxStatements /\ statements' = statements + 1
      /\ \E r \in FreshRoles(1) :
           role' = [role EXCEPT ![r] = NewRole(job.by.panel, job.org, job.body.slug,
                                               MergedPermissions(job.body), statements')]
      /\ RoleDone(w)

\* UPDATE by id, of a role that may have gone since.
WriteRole(w) ==
  LET job == doing[w]
  IN  /\ role' = IF job.body.slug # None /\ IsLive(role[job.id])
                 THEN [role EXCEPT ![job.id].slug = job.body.slug] ELSE role
      /\ RoleDone(w) /\ UNCHANGED statements

\* ON DELETE CASCADE
Removed(row) == [row EXCEPT !.life = "gone", !.permissions = [r \in {} |-> None]]

DeleteRole(w) ==
  LET r == doing[w].id
  IN  /\ role' = IF IsLive(role[r]) THEN [role EXCEPT ![r] = Removed(@)] ELSE role
      /\ RoleDone(w) /\ UNCHANGED statements

\* The role must be there, and have no permission for the resource (the unique index).
InsertPermission(w) ==
  LET job == doing[w]
      r == job.id
      row == [f \in {job.body.resource} |-> NormalizedPermission(job.body)]
  IN  /\ IsLive(role[r]) /\ job.body.resource \notin DOMAIN role[r].permissions
      /\ statements < MaxStatements /\ statements' = statements + 1
      /\ role' = [role EXCEPT ![r].permissions =
                    [f \in DOMAIN @ \cup DOMAIN row |->
                       IF f \in DOMAIN @ THEN @[f] ELSE Inserted(row, statements')[f]]]
      /\ RoleDone(w)

\* The row that was read is still there: a row inserted anew has another id.
HasPermissionRow(job) ==
  /\ IsLive(role[job.id]) /\ job.body.resource \in DOMAIN role[job.id].permissions
  /\ role[job.id].permissions[job.body.resource].id = job.old.id

\* What the body leaves out is written back as it was read.
SetPermission(w) ==
  LET job == doing[w]
      row == NormalizedPermission([job.body EXCEPT
               !.level = IF @ = None THEN job.old.level ELSE @,
               !.actions = IF @ = None THEN job.old.actions ELSE @])
  IN  /\ role' = IF HasPermissionRow(job)
                 THEN [role EXCEPT ![job.id].permissions[job.body.resource] =
                         [level |-> row.level, actions |-> row.actions, id |-> @.id]]
                 ELSE role
      /\ RoleDone(w) /\ UNCHANGED statements

DeletePermission(w) ==
  LET job == doing[w]
  IN  /\ role' = IF HasPermissionRow(job)
                 THEN [role EXCEPT ![job.id].permissions =
                         [f \in DOMAIN @ \ {job.body.resource} |-> @[f]]]
                 ELSE role
      /\ RoleDone(w) /\ UNCHANGED statements

\* A statement fails, or the process dies.
AbandonRoles(w) ==
  /\ doing[w] # None
  /\ RoleDone(w) /\ UNCHANGED <<role, statements>>

-----------------------------------------------------------------------------
(* The routers: what each checks before it writes *)

\* What the guard of a route asks of the caller's role.
GuardOf(op) ==
  CASE op = "createRole"       -> [resource |-> "rbac_role", action |-> "create"]
    [] op = "updateRole"       -> [resource |-> "rbac_role", action |-> "update"]
    [] op = "removeRole"       -> [resource |-> "rbac_role", action |-> "delete"]
    [] op = "createPermission" -> [resource |-> "rbac_role_permission", action |-> "create"]
    [] op = "updatePermission" -> [resource |-> "rbac_role_permission", action |-> "update"]
    [] op = "removePermission" -> [resource |-> "rbac_role_permission", action |-> "delete"]

Admitted(w, op) ==
  {c \in roleScope.callers : doing[w] = None /\ op \in roleScope.calls /\ May(c, GuardOf(op))}

CompanyCalls(w, op) == {c \in Admitted(w, op) : c.org # None}
KernelCalls(w, panel, op) == {c \in Admitted(w, op) : c.org = None /\ c.panel = panel}

ByCompany(w, op) == Reached(w, op) /\ doing[w].by.org # None
ByKernel(w, panel, op) == Reached(w, op) /\ doing[w].by.org = None /\ doing[w].by.panel = panel

\* create of the company service
CompanyCreateRole(w) ==
  \/ \E c \in CompanyCalls(w, "createRole"), b \in roleScope.bodies :
       /\ b.slug # None /\ CanManage(c, b.slug)
       /\ ~ SlugConflict("company", c.org, b.slug, None)
       /\ TakeWithSlug(w, [NewJob("createRole", c) EXCEPT !.org = c.org, !.body = b])
  \/ ByCompany(w, "createRole") /\ InsertRole(w)

CompanyUpdateRole_NoConflict(w) ==
  \/ \E c \in CompanyCalls(w, "updateRole"), b \in roleScope.bodies, r \in RoleIds :
       /\ FindsRole(c, r) /\ CanManage(c, role[r].slug)
       /\ b.slug # None => CanManage(c, b.slug)
       /\ TakeWithSlug(w, [NewJob("updateRole", c) EXCEPT !.id = r, !.org = c.org, !.body = b,
                                                          !.oldSlug = role[r].slug])
  \/ ByCompany(w, "updateRole") /\ WriteRole(w)

\* update of the company service
CompanyUpdateRole(w) ==
  \/ \E c \in CompanyCalls(w, "updateRole"), b \in roleScope.bodies, r \in RoleIds :
       /\ FindsRole(c, r) /\ CanManage(c, role[r].slug)
       /\ b.slug # None => CanManage(c, b.slug) /\ ~ SlugConflict("company", c.org, b.slug, r)
       /\ TakeWithSlug(w, [NewJob("updateRole", c) EXCEPT !.id = r, !.org = c.org, !.body = b,
                                                          !.oldSlug = role[r].slug])
  \/ ByCompany(w, "updateRole") /\ WriteRole(w)

CompanyRemoveRole_AnyRole(w) ==
  \/ \E c \in CompanyCalls(w, "removeRole"), r \in RoleIds :
       /\ FindsRole(c, r)
       /\ TakeOnly(w, [NewJob("removeRole", c) EXCEPT !.id = r, !.oldSlug = role[r].slug])
  \/ ByCompany(w, "removeRole") /\ DeleteRole(w)

\* remove of the company service
CompanyRemoveRole(w) ==
  \/ \E c \in CompanyCalls(w, "removeRole"), r \in RoleIds :
       /\ FindsRole(c, r) /\ CanManage(c, role[r].slug)
       /\ TakeOnly(w, [NewJob("removeRole", c) EXCEPT !.id = r, !.oldSlug = role[r].slug])
  \/ ByCompany(w, "removeRole") /\ DeleteRole(w)

\* create_permission of the company service: a managed permission is left as it is.
CompanyCreatePermission(w) ==
  \/ \E c \in CompanyCalls(w, "createPermission"), b \in roleScope.bodies, r \in RoleIds :
       /\ FindsRole(c, r) /\ CanManage(c, role[r].slug)
       /\ b.resource # None
       /\ b.resource \in ManagedResources => b.resource \notin DOMAIN role[r].permissions
       /\ TakeOnly(w, [NewJob("createPermission", c) EXCEPT !.id = r, !.body = b, !.oldSlug = role[r].slug])
  \/ ByCompany(w, "createPermission") /\ InsertPermission(w)

\* findPermissionById
PermissionOf(r, b) ==
  IF b.resource \in DOMAIN role[r].permissions THEN role[r].permissions[b.resource] ELSE None

\* update_permission of the company service: which row, and its resource, the id says.
CompanyUpdatePermission(w) ==
  \/ \E c \in CompanyCalls(w, "updatePermission"), b \in roleScope.bodies, r \in RoleIds :
       /\ FindsRole(c, r) /\ CanManage(c, role[r].slug)
       /\ PermissionOf(r, b) # None
       /\ TakeOnly(w, [NewJob("updatePermission", c) EXCEPT !.id = r, !.body = b, !.oldSlug = role[r].slug,
                                                            !.old = PermissionOf(r, b)])
  \/ ByCompany(w, "updatePermission") /\ SetPermission(w)

CompanyRemovePermission_AnyResource(w) ==
  \/ \E c \in CompanyCalls(w, "removePermission"), b \in roleScope.bodies, r \in RoleIds :
       /\ FindsRole(c, r) /\ CanManage(c, role[r].slug)
       /\ PermissionOf(r, b) # None
       /\ TakeOnly(w, [NewJob("removePermission", c) EXCEPT !.id = r, !.body = b, !.oldSlug = role[r].slug,
                                                            !.old = PermissionOf(r, b)])
  \/ ByCompany(w, "removePermission") /\ DeletePermission(w)

\* remove_permission of the company service
CompanyRemovePermission(w) ==
  \/ \E c \in CompanyCalls(w, "removePermission"), b \in roleScope.bodies, r \in RoleIds :
       /\ FindsRole(c, r) /\ CanManage(c, role[r].slug)
       /\ PermissionOf(r, b) # None /\ b.resource \notin ManagedResources
       /\ TakeOnly(w, [NewJob("removePermission", c) EXCEPT !.id = r, !.body = b, !.oldSlug = role[r].slug,
                                                            !.old = PermissionOf(r, b)])
  \/ ByCompany(w, "removePermission") /\ DeletePermission(w)

\* create of the kernel service, for the companies
KernelCreateRole(w) ==
  \/ \E c \in KernelCalls(w, "company", "createRole"), b \in roleScope.bodies, org \in owning :
       /\ b.slug # None /\ ~ SlugConflict("company", org, b.slug, None)
       /\ TakeWithSlug(w, [NewJob("createRole", c) EXCEPT !.org = org, !.body = b])
  \/ ByKernel(w, "company", "createRole") /\ InsertRole(w)

\* update of the kernel service, for the companies
KernelUpdateRole(w) ==
  \/ \E c \in KernelCalls(w, "company", "updateRole"), b \in roleScope.bodies, r \in RoleIds :
       /\ FindsRole(c, r)
       /\ b.slug # None => ~ SlugConflict("company", role[r].org, b.slug, r)
       /\ TakeWithSlug(w, [NewJob("updateRole", c) EXCEPT !.id = r, !.org = role[r].org, !.body = b])
  \/ ByKernel(w, "company", "updateRole") /\ WriteRole(w)

\* remove of the kernel service, for the companies
KernelRemoveRole(w) ==
  \/ \E c \in KernelCalls(w, "company", "removeRole"), r \in RoleIds :
       /\ FindsRole(c, r)
       /\ TakeOnly(w, [NewJob("removeRole", c) EXCEPT !.id = r])
  \/ ByKernel(w, "company", "removeRole") /\ DeleteRole(w)

\* create_permission of the kernel service, for the companies.
KernelCreatePermission(w) ==
  \/ \E c \in KernelCalls(w, "company", "createPermission"), b \in roleScope.bodies, r \in RoleIds :
       /\ FindsRole(c, r) /\ b.resource # None
       /\ b.resource \in ManagedResources => b.resource \notin DOMAIN role[r].permissions
       /\ TakeOnly(w, [NewJob("createPermission", c) EXCEPT !.id = r, !.body = b])
  \/ ByKernel(w, "company", "createPermission") /\ InsertPermission(w)

\* update_permission of the kernel service, for the companies.
KernelUpdatePermission(w) ==
  \/ \E c \in KernelCalls(w, "company", "updatePermission"), b \in roleScope.bodies, r \in RoleIds :
       /\ FindsRole(c, r) /\ PermissionOf(r, b) # None
       /\ TakeOnly(w, [NewJob("updatePermission", c) EXCEPT !.id = r, !.body = b, !.old = PermissionOf(r, b)])
  \/ ByKernel(w, "company", "updatePermission") /\ SetPermission(w)

\* remove_permission of the kernel service, for the companies.
KernelRemovePermission(w) ==
  \/ \E c \in KernelCalls(w, "company", "removePermission"), b \in roleScope.bodies, r \in RoleIds :
       /\ FindsRole(c, r) /\ PermissionOf(r, b) # None
       /\ b.resource \notin ManagedResources
       /\ TakeOnly(w, [NewJob("removePermission", c) EXCEPT !.id = r, !.body = b, !.old = PermissionOf(r, b)])
  \/ ByKernel(w, "company", "removePermission") /\ DeletePermission(w)

\* create of the kernel service, for its panel
ProptryxCreateRole(w) ==
  \/ \E c \in KernelCalls(w, "proptryx", "createRole"), b \in roleScope.bodies :
       /\ b.slug # None /\ ~ SlugConflict("proptryx", None, b.slug, None)
       /\ TakeWithSlug(w, [NewJob("createRole", c) EXCEPT !.body = b])
  \/ ByKernel(w, "proptryx", "createRole") /\ InsertRole(w)

\* update of the kernel service, for its panel
ProptryxUpdateRole(w) ==
  \/ \E c \in KernelCalls(w, "proptryx", "updateRole"), b \in roleScope.bodies, r \in RoleIds :
       /\ FindsRole(c, r)
       /\ b.slug # None => ~ SlugConflict("proptryx", role[r].org, b.slug, r)
       /\ TakeWithSlug(w, [NewJob("updateRole", c) EXCEPT !.id = r, !.org = role[r].org, !.body = b])
  \/ ByKernel(w, "proptryx", "updateRole") /\ WriteRole(w)

\* remove of the kernel service, for its panel
ProptryxRemoveRole(w) ==
  \/ \E c \in KernelCalls(w, "proptryx", "removeRole"), r \in RoleIds :
       /\ FindsRole(c, r)
       /\ TakeOnly(w, [NewJob("removeRole", c) EXCEPT !.id = r])
  \/ ByKernel(w, "proptryx", "removeRole") /\ DeleteRole(w)

\* create_permission of the kernel service, for its panel, where any managed
\* permission is enough to leave the role as it is.
ProptryxCreatePermission(w) ==
  \/ \E c \in KernelCalls(w, "proptryx", "createPermission"), b \in roleScope.bodies, r \in RoleIds :
       /\ FindsRole(c, r) /\ b.resource # None
       /\ b.resource \in ManagedResources => ManagedResources \cap DOMAIN role[r].permissions = {}
       /\ TakeOnly(w, [NewJob("createPermission", c) EXCEPT !.id = r, !.body = b])
  \/ ByKernel(w, "proptryx", "createPermission") /\ InsertPermission(w)

\* update_permission of the kernel service, for its panel, which does not
\* look at the panel of the role.
ProptryxUpdatePermission(w) ==
  \/ \E c \in KernelCalls(w, "proptryx", "updatePermission"), b \in roleScope.bodies, r \in RoleIds :
       /\ IsLive(role[r]) /\ PermissionOf(r, b) # None
       /\ TakeOnly(w, [NewJob("updatePermission", c) EXCEPT !.id = r, !.body = b, !.old = PermissionOf(r, b)])
  \/ ByKernel(w, "proptryx", "updatePermission") /\ SetPermission(w)

\* remove_permission of the kernel service, for its panel, which does not
\* look at the panel of the role.
ProptryxRemovePermission(w) ==
  \/ \E c \in KernelCalls(w, "proptryx", "removePermission"), b \in roleScope.bodies, r \in RoleIds :
       /\ IsLive(role[r]) /\ PermissionOf(r, b) # None
       /\ b.resource \notin ManagedResources
       /\ TakeOnly(w, [NewJob("removePermission", c) EXCEPT !.id = r, !.body = b, !.old = PermissionOf(r, b)])
  \/ ByKernel(w, "proptryx", "removePermission") /\ DeletePermission(w)

-----------------------------------------------------------------------------
(* ensureDefaultOrganizationRoles: within the transaction of a member *)

Defaults(org) ==
  {r \in LiveRoles : role[r].panel = "company" /\ role[r].org = org /\ role[r].slug \in Presets}

\* Which default roles there are.
SeedRoles(w) ==
  \E org \in owning :
    /\ "seedRoles" \in roleScope.calls
    /\ TakeWithSlug(w, [NewJob("seedRoles", None) EXCEPT
                          !.step = "permissions", !.org = org,
                          !.missing = Presets \ {role[r].slug : r \in Defaults(org)},
                          !.seen = [r \in Defaults(org) |-> [slug |-> role[r].slug, permissions |-> None]]])

\* The slugs were read before, the permissions now.
SeedPermissions(w) ==
  LET job == doing[w]
  IN  /\ job # None /\ job.step = "permissions"
      /\ doing' = [doing EXCEPT ![w].step = "commit",
                                ![w].seen = [r \in DOMAIN job.seen |->
                                  [slug |-> job.seen[r].slug, permissions |-> role[r].permissions]]]
      /\ UNCHANGED <<role, owning, overlapped, statements, roleScope>>

Unchanged(row, preset) == row.level = preset.level /\ row.actions = preset.actions

\* seedDefaultPermissionsForRoles: what it inserts, updates and deletes of a
\* role's permissions (now) was decided by those it read (seen).
SeededRoles(now, seen, preset, id) ==
  LET same(f) == f \in DOMAIN seen /\ f \in DOMAIN now /\ seen[f].id = now[f].id
      deleted == {f \in DOMAIN now : same(f) /\ f \notin DOMAIN preset}
      updated == {f \in DOMAIN now : same(f) /\ f \in DOMAIN preset /\ ~ Unchanged(seen[f], preset[f])}
      inserted == DOMAIN preset \ DOMAIN seen
  IN  [f \in (DOMAIN now \ deleted) \cup inserted |->
         IF f \in inserted THEN Inserted(preset, id)[f]
         ELSE IF f \in updated THEN Inserted(preset, now[f].id)[f] ELSE now[f]]

\* A role or a permission that another transaction removed or inserted meanwhile
\* fails the statement, and the whole transaction.
SeedCommit(w) ==
  LET job == doing[w]
      PresetOf(r) == PresetPermissions(job.seen[r].slug)
      Adds(r) == DOMAIN PresetOf(r) \ DOMAIN job.seen[r].permissions
      R == FreshRoles(Cardinality(job.missing))
  IN  /\ job # None /\ job.step = "commit"
      /\ job.missing # {} => job.org \in owning
      /\ \A r \in DOMAIN job.seen :
           Adds(r) # {} => IsLive(role[r]) /\ Adds(r) \cap DOMAIN role[r].permissions = {}
      /\ statements < MaxStatements /\ statements' = statements + 1
      /\ Cardinality(R) = Cardinality(job.missing)
      /\ LET slugOf == CHOOSE f \in [R -> job.missing] : \A slug \in job.missing : \E r \in R : f[r] = slug
         IN  role' = [r \in RoleIds |->
                  IF r \in R
                  THEN NewRole("company", job.org, slugOf[r], PresetPermissions(slugOf[r]), statements')
                  ELSE IF r \in DOMAIN job.seen /\ IsLive(role[r])
                  THEN [role[r] EXCEPT !.permissions =
                          SeededRoles(@, job.seen[r].permissions, PresetOf(r), statements')]
                  ELSE role[r]]
      /\ RoleDone(w)

\* The company is deleted for good, with its roles.
CompanyPurged(org) ==
  /\ "company" \in roleScope.calls /\ org \in owning
  /\ owning' = owning \ {org}
  /\ role' = [r \in RoleIds |-> IF IsLive(role[r]) /\ role[r].org = org THEN Removed(role[r]) ELSE role[r]]
  /\ UNCHANGED <<doing, overlapped, statements, roleScope>>

-----------------------------------------------------------------------------
\* The companies have the roles they were created with, the kernel service those
\* it was installed with.
RolesInit ==
  /\ role = [r \in RoleIds |->
       IF r \notin DOMAIN FirstRoles THEN None
       ELSE LET new == FirstRoles[r]
            IN  NewRole(new.panel, new.org, new.slug,
                        PresetPermissions(IF new.panel = "company" THEN new.slug ELSE "owner"), 0)]
  /\ owning = RoleOrgs
  /\ doing = [w \in Workers |-> None]
  /\ overlapped = {}
  /\ statements = 0
  /\ roleScope \in RoleScopes

RolesNext ==
  \/ \E w \in Workers :
       \/ CompanyCreateRole(w) \/ CompanyUpdateRole(w) \/ CompanyRemoveRole(w)
       \/ CompanyCreatePermission(w) \/ CompanyUpdatePermission(w) \/ CompanyRemovePermission(w)
       \/ KernelCreateRole(w) \/ KernelUpdateRole(w) \/ KernelRemoveRole(w)
       \/ KernelCreatePermission(w) \/ KernelUpdatePermission(w) \/ KernelRemovePermission(w)
       \/ ProptryxCreateRole(w) \/ ProptryxUpdateRole(w) \/ ProptryxRemoveRole(w)
       \/ ProptryxCreatePermission(w) \/ ProptryxUpdatePermission(w) \/ ProptryxRemovePermission(w)
       \/ SeedRoles(w) \/ SeedPermissions(w) \/ SeedCommit(w)
       \/ AbandonRoles(w)
  \/ \E org \in RoleOrgs : CompanyPurged(org)

RolesSpec == RolesInit /\ [][RolesNext]_rolesVars

-----------------------------------------------------------------------------
(* Properties *)

\* The tables and the handlers have their types; a role that is gone took its
\* permissions along.
RolesTypeOK ==
  /\ \A r \in RoleIds : role[r] # None =>
       /\ role[r].panel \in Panels /\ role[r].org \in RoleOrgs \cup {None} /\ role[r].slug \in RoleSlugs
       /\ role[r].life \in {"live", "gone"}
       /\ IsPermissions(role[r].permissions)
       /\ role[r].life = "gone" => DOMAIN role[r].permissions = {}
  /\ owning \subseteq RoleOrgs /\ statements \in 0 .. MaxStatements
  /\ \A w \in Workers : doing[w] # None =>
       doing[w].op \in RoleCalls /\ doing[w].by \in RoleCallers \cup {None}

\* remove_permission refuses the account, session and user permissions of a role
\* as "managed automatically for every role": whatever the three routers and the
\* seeding of a company's roles do to one another, every role has them, as the
\* code manages them.
EveryRoleIsManaged ==
  \A r \in LiveRoles, f \in ManagedResources :
    f \in DOMAIN role[r].permissions /\ Unchanged(role[r].permissions[f], ManagedPermission)

\* Two roles of a company, or of the panel, share a slug only if two handlers
\* had checked that slug before either wrote it. The role of a member is found by
\* its slug, and twins let either one's permissions apply.
TwinsOverlapped ==
  \A q, r \in LiveRoles :
    q # r /\ role[q].panel = role[r].panel /\ role[q].org = role[r].org /\ role[q].slug = role[r].slug
    => <<role[q].panel, role[q].org, role[q].slug>> \in overlapped

Outsider(job) == job # None /\ job.by # None /\ job.by.org # None /\ ~ IsOwnerSlug(job.by.slug)

\* "Only organization owners can manage owner role permissions": a member of
\* another role neither changes an owner role nor makes one, unless the role was
\* not yet an owner's when its handler read it.
OwnerRoleGuarded ==
  [][\A w \in Workers, r \in RoleIds :
       Outsider(doing[w]) /\ doing'[w] = None /\ role'[r] # role[r]
       => \/ ~ IsOwnerSlug(role'[r].slug)
          \/ doing[w].oldSlug # None /\ ~ IsOwnerSlug(doing[w].oldSlug) /\ role'[r].slug = role[r].slug
    ]_rolesVars

=============================================================================
