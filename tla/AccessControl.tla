----------------------------- MODULE AccessControl -----------------------------
(***************************************************************************)
(* Users, groups, streams and science filters of gw-api (src/access.rs,    *)
(* src/access_api.rs, the science filters of src/api.rs, and the           *)
(* collections of src/archive.rs behind them).                             *)
(*                                                                         *)
(* A request provisions its user, loads the user's rights, and is handled  *)
(* by a sequence of MongoDB operations.  Each of these is atomic and the   *)
(* sequence is not: between two of them other requests go on, and the      *)
(* request may end there (a database error, a crash, a client that hangs   *)
(* up).  Streams and roles are never deleted, so their catalogs are        *)
(* constants.  Names and descriptions are left out, and so are requests    *)
(* that only read and logins: what they change, the user who is            *)
(* provisioned, a request that is refused changes as well.                 *)
(***************************************************************************)
EXTENDS Naturals, FiniteSets

CONSTANTS
  User,         \* principals, by their `sub`
  Group,        \* the UUIDs groups are given
  Stream,       \* the catalog of streams
  Filter,       \* the UUIDs science filters are given
  NoGroup,      \* the group_id of a private filter
  Worker,       \* requests that may be in progress at once
  Request,      \* what may be asked for
  Seed,         \* the configurations and databases to start from
  MaxRequests,  \* bound: requests received
  MaxFailures   \* bound: database operations that fail, requests cut short

ASSUME NoGroupAssumption == NoGroup \notin Group

\* A database to start from holds no filter that could not have been stored, nobody is
\* a member of a group that is gone, and the users, if any, have a super admin.
ASSUME SeedAssumption ==
  \A d \in Seed :
    /\ \A f \in DOMAIN d.filters : \A s \in d.filters[f].streams :
         <<d.filters[f].group, s>> \in d.groupStreams
    /\ DOMAIN d.member \subseteq d.groups \X User
    /\ d.site_admins = {} /\ DOMAIN d.users # {} =>
         \E u \in DOMAIN d.users : "super_admin" \in d.users[u]

\* A group is deleted, joined and left by its UUID; members are principals.
ASSUME RequestAssumption ==
  \A r \in Request :
    /\ r.kind \in {"delete_group", "add_member", "remove_member"} =>
         "group" \in DOMAIN r /\ r.group \in Group
    /\ r.kind = "add_member" => r.user \in User

ASSUME BoundAssumption == MaxRequests \in Nat /\ MaxFailures \in Nat

VARIABLES
  site_admins,   \* auth.site_admins of the configuration, never changed
  users,         \* sub -> role ids
  groups,        \* the groups there are
  member,        \* <<group, sub>> -> the row's `admin` flag
  groupStreams,  \* <<group, stream>> rows
  streamUsers,   \* <<stream, sub>> rows
  filters,       \* filter -> its document
  born,          \* the UUIDs given out
  job,           \* worker -> its request and how far it is
  received,      \* requests received (bounds the model)
  failures,      \* failures so far (bounds the model)
  revoked,       \* history: <<group, stream>> rows deleted
  raced          \* history: the kinds of requests that were in progress together

stored == <<site_admins, users, groups, member, groupStreams, streamUsers, filters, born,
            revoked>>
bounds == <<received, failures, raced>>
vars == <<stored, job, bounds>>

Idle == [at |-> "idle"]

Init ==
  /\ \E d \in Seed :
       /\ site_admins = d.site_admins
       /\ users = d.users /\ groups = d.groups /\ member = d.member
       /\ groupStreams = d.groupStreams /\ streamUsers = d.streamUsers
       /\ filters = d.filters
       /\ born = d.groups \cup DOMAIN d.filters
  /\ job = [w \in Worker |-> Idle]
  /\ received = 0 /\ failures = 0
  /\ revoked = {} /\ raced = {}

-------------------------------------------------------------------------------
(* Helpers *)

Insert(f, k, v) == [x \in DOMAIN f \cup {k} |-> IF x = k THEN v ELSE f[x]]
Without(f, K) == [x \in DOMAIN f \ K |-> f[x]]

At(w, label) == job[w].at = label
Go(w, label, read, ctx) ==
  job' = [job EXCEPT ![w] = [at |-> label, request |-> @.request, read |-> read, ctx |-> ctx]]
Move(w, label) == Go(w, label, job[w].read, job[w].ctx)
Finish(w) == job' = [job EXCEPT ![w] = Idle]

\* A read found v: go on with it at label.
Found(w, label, v) == Go(w, label, v, job[w].ctx)

\* The ACLs of the default roles that gate these handlers; "system_admin" is the
\* wildcard.
Acls(role) ==
  CASE role = "super_admin" -> {"system_admin"}
    [] role = "group_admin" -> {"manage_groups", "manage_filters"}
    [] role = "full_user" -> {"manage_filters"}
    [] OTHER -> {}

\* The AccessContext a handler is given.
HasAcl(ctx, acl) == {acl, "system_admin"} \cap ctx.acls # {}
IsGroupAdmin(ctx, g) == g \in ctx.group_admin \/ "system_admin" \in ctx.acls
CanManage(ctx, g) == IsGroupAdmin(ctx, g) \/ HasAcl(ctx, "manage_groups")

Supers == {u \in DOMAIN users : "super_admin" \in users[u]}
Admins(g) == {u \in User : <<g, u>> \in DOMAIN member /\ member[<<g, u>>]}
StreamsOf(g) == {s \in Stream : <<g, s>> \in groupStreams}

\* What a request may do is decided on the context before it touches anything; the
\* filter requests on an existing filter look at it first.
Allowed(ctx, r) ==
  CASE r.kind = "patch_user" -> HasAcl(ctx, "manage_users")
    [] r.kind = "create_group" -> HasAcl(ctx, "manage_groups")
    [] r.kind \in {"delete_group", "add_member", "remove_member"} -> CanManage(ctx, r.group)
    [] r.kind \in {"add_stream", "remove_stream"} ->
         CanManage(ctx, r.group) \/ HasAcl(ctx, "manage_streams")
    [] r.kind = "grant_stream" -> HasAcl(ctx, "manage_streams")
    [] r.kind = "create_filter" ->
         r.group \in ctx.group_member \cup {NoGroup} \/ HasAcl(ctx, "manage_filters")
    [] r.kind \in {"patch_filter", "delete_filter"} -> TRUE

\* The first database operation of the handler.
FirstOf(r) ==
  CASE r.kind = "patch_user" ->
         IF "super_admin" \in r.roles THEN "set_roles" ELSE "find_target"
    [] r.kind = "create_group" -> "insert_group"
    [] r.kind = "delete_group" -> "delete_group"
    [] r.kind = "add_member" -> "find_group"
    [] r.kind = "remove_member" -> "find_member"
    [] r.kind \in {"add_stream", "grant_stream"} -> "find_stream"
    [] r.kind = "remove_stream" -> "unlink"
    [] r.kind = "create_filter" -> "validate"
    [] OTHER -> "find_filter"   \* patch_filter, delete_filter

\* filter_editable_by
Editable(ctx, doc) ==
  \/ doc.owner = ctx.sub
  \/ doc.group # NoGroup /\ IsGroupAdmin(ctx, doc.group)
  \/ HasAcl(ctx, "manage_filters")

-------------------------------------------------------------------------------
(* access_ctx: provision_user and AccessContext::load *)

\* The UUIDs a request names: nobody can name one before it is given out.
Named(r) == {r[k] : k \in DOMAIN r \cap {"group", "filter"}} \ {NoGroup}

\* A request is accepted.  For the bootstrap the users are counted.
Receive(w, u, r) ==
  /\ job[w] = Idle /\ received < MaxRequests
  /\ Named(r) \subseteq born
  /\ received' = received + 1
  /\ job' = [job EXCEPT ![w] =
       [ at |-> "provision", request |-> r, read |-> DOMAIN users = {},
         ctx |-> [sub |-> u, acls |-> {}, group_member |-> {}, group_admin |-> {}] ]]
  /\ raced' = raced \cup {{r.kind, job[v].request.kind} : v \in {x \in Worker : job[x] # Idle}}
  /\ UNCHANGED <<stored, failures>>

\* upsert_user: a new user gets its first role, a known one keeps what it has.
\* (The row is read again at once; nothing deletes it.)
Provision(w) ==
  LET u == job[w].ctx.sub
      bootstrap == u \in site_admins \/ (site_admins = {} /\ job[w].read)
      initial == IF bootstrap THEN {"super_admin"} ELSE {"full_user"}
  IN  /\ At(w, "provision")
      /\ users' = Insert(users, u, IF u \in DOMAIN users THEN users[u] ELSE initial)
      /\ Move(w, IF u \in site_admins /\ "super_admin" \notin users'[u] THEN "upgrade" ELSE "roles")
      /\ UNCHANGED <<site_admins, groups, member, groupStreams, streamUsers, filters, born, revoked, bounds>>

\* add_user_role for a site admin who lacks it.
Upgrade(w) ==
  /\ At(w, "upgrade")
  /\ users' = [users EXCEPT ![job[w].ctx.sub] = @ \cup {"super_admin"}]
  /\ Move(w, "roles")
  /\ UNCHANGED <<site_admins, groups, member, groupStreams, streamUsers, filters, born, revoked, bounds>>

LoadRoles(w) ==
  LET u == job[w].ctx.sub
      ctx == [ sub |-> u, acls |-> UNION {Acls(r) : r \in users[u]},
               group_member |-> {}, group_admin |-> {} ]
  IN  /\ At(w, "roles")
      /\ Go(w, "memberships", job[w].read, ctx)
      /\ UNCHANGED <<stored, bounds>>

\* The memberships, and the gate of the handler.
LoadMemberships(w) ==
  LET u == job[w].ctx.sub
      r == job[w].request
      ctx == [ sub |-> u, acls |-> job[w].ctx.acls,
               group_member |-> {g \in Group : <<g, u>> \in DOMAIN member},
               group_admin |-> {g \in Group : u \in Admins(g)} ]
      doc == IF r.kind = "create_filter"
               THEN [owner |-> u, group |-> r.group, streams |-> r.streams] ELSE {}
  IN  /\ At(w, "memberships")
      /\ IF Allowed(ctx, r)
           THEN Go(w, FirstOf(r), doc, ctx)
           ELSE Finish(w)
      /\ UNCHANGED <<stored, bounds>>

-------------------------------------------------------------------------------
(* patch_user *)

\* Does the target hold the role that is to be taken away?  A failed read counts
\* as a no.
FindTarget(w) ==
  LET u == job[w].request.user
  IN  /\ At(w, "find_target")
      /\ \/ Move(w, IF u \in Supers THEN "count_supers" ELSE "set_roles")
            /\ UNCHANGED bounds
         \/ /\ failures < MaxFailures /\ failures' = failures + 1
            /\ Move(w, "set_roles")
            /\ UNCHANGED <<received, raced>>
      /\ UNCHANGED stored

\* Variant: the count is off by one.
CountSupersLoose(w) ==
  /\ At(w, "count_supers")
  /\ IF Cardinality(Supers) < 1 THEN Finish(w) ELSE Move(w, "set_roles")
  /\ UNCHANGED <<stored, bounds>>

\* The last super admin is not stripped.
CountSupers(w) ==
  /\ At(w, "count_supers")
  /\ IF Cardinality(Supers) <= 1 THEN Finish(w) ELSE Move(w, "set_roles")
  /\ UNCHANGED <<stored, bounds>>

\* set_user_roles; an unknown user is left unknown.
SetRoles(w) ==
  LET r == job[w].request
  IN  /\ At(w, "set_roles")
      /\ users' = [u \in DOMAIN users |-> IF u = r.user THEN r.roles ELSE users[u]]
      /\ Finish(w)
      /\ UNCHANGED <<site_admins, groups, member, groupStreams, streamUsers, filters, born, revoked, bounds>>

-------------------------------------------------------------------------------
(* create_group, delete_group *)

\* (A name that is taken is a failure: see Abandon.)
InsertGroup(w) ==
  /\ At(w, "insert_group")
  /\ \E g \in Group \ born :
       /\ groups' = groups \cup {g} /\ born' = born \cup {g}
       /\ Found(w, "first_admin", g)
  /\ UNCHANGED <<site_admins, users, member, groupStreams, streamUsers, filters, revoked, bounds>>

\* The creator becomes the group's first admin: by an insert, which fails if
\* somebody has made them a member meanwhile.
FirstAdmin(w) ==
  LET row == <<job[w].read, job[w].ctx.sub>>
  IN  /\ At(w, "first_admin")
      /\ member' = IF row \in DOMAIN member THEN member ELSE Insert(member, row, TRUE)
      /\ Finish(w)
      /\ UNCHANGED <<site_admins, users, groups, groupStreams, streamUsers, filters, born, revoked, bounds>>

\* delete_group_cascade: the group, then its members, then its streams.
DeleteGroup(w) ==
  /\ At(w, "delete_group")
  /\ groups' = groups \ {job[w].request.group}
  /\ Move(w, "delete_members")
  /\ UNCHANGED <<site_admins, users, member, groupStreams, streamUsers, filters, born, revoked, bounds>>

\* Variant: only the members who are not admins are removed.
DeletePlainMembers(w) ==
  LET g == job[w].request.group
  IN  /\ At(w, "delete_members")
      /\ member' = Without(member, {g} \X (User \ Admins(g)))
      /\ Move(w, "delete_links")
      /\ UNCHANGED <<site_admins, users, groups, groupStreams, streamUsers, filters, born, revoked, bounds>>

DeleteMembers(w) ==
  /\ At(w, "delete_members")
  /\ member' = Without(member, {job[w].request.group} \X User)
  /\ Move(w, "delete_links")
  /\ UNCHANGED <<site_admins, users, groups, groupStreams, streamUsers, filters, born, revoked, bounds>>

DeleteLinks(w) ==
  LET rows == groupStreams \cap ({job[w].request.group} \X Stream)
  IN  /\ At(w, "delete_links")
      /\ groupStreams' = groupStreams \ rows /\ revoked' = revoked \cup rows
      /\ Finish(w)
      /\ UNCHANGED <<site_admins, users, groups, member, streamUsers, filters, born, bounds>>

-------------------------------------------------------------------------------
(* add_group_member, remove_group_member *)

FindGroup(w) ==
  /\ At(w, "find_group")
  /\ IF job[w].request.group \in groups THEN Move(w, "join") ELSE Finish(w)
  /\ UNCHANGED <<stored, bounds>>

\* The row is upserted: a member's `admin` flag is replaced.
JoinGroup(w) ==
  LET r == job[w].request
  IN  /\ At(w, "join")
      /\ member' = Insert(member, <<r.group, r.user>>, r.admin)
      /\ Move(w, "group_streams")
      /\ UNCHANGED <<site_admins, users, groups, groupStreams, streamUsers, filters, born, revoked, bounds>>

\* The group's streams are granted to the member, one upsert each.
ReadStreams(w) ==
  LET todo == StreamsOf(job[w].request.group)
  IN  /\ At(w, "group_streams")
      /\ IF todo = {} THEN Finish(w) ELSE Found(w, "grant", todo)
      /\ UNCHANGED <<stored, bounds>>

Grant(w) ==
  /\ At(w, "grant")
  /\ \E s \in job[w].read :
       /\ streamUsers' = streamUsers \cup {<<s, job[w].request.user>>}
       /\ IF job[w].read = {s} THEN Finish(w) ELSE Found(w, "grant", job[w].read \ {s})
  /\ UNCHANGED <<site_admins, users, groups, member, groupStreams, filters, born, revoked, bounds>>

\* Is the one to be removed an admin?  A failed read counts as a no.
FindMember(w) ==
  LET r == job[w].request
  IN  /\ At(w, "find_member")
      /\ \/ Move(w, IF r.user \in Admins(r.group) THEN "count_admins" ELSE "leave")
            /\ UNCHANGED bounds
         \/ /\ failures < MaxFailures /\ failures' = failures + 1
            /\ Move(w, "leave")
            /\ UNCHANGED <<received, raced>>
      /\ UNCHANGED stored

\* Variant: all members are counted.
CountMembers(w) ==
  LET g == job[w].request.group
  IN  /\ At(w, "count_admins")
      /\ IF Cardinality({u \in User : <<g, u>> \in DOMAIN member}) <= 1
           THEN Finish(w) ELSE Move(w, "leave")
      /\ UNCHANGED <<stored, bounds>>

\* The group's last admin is not removed.
CountAdmins(w) ==
  /\ At(w, "count_admins")
  /\ IF Cardinality(Admins(job[w].request.group)) <= 1 THEN Finish(w) ELSE Move(w, "leave")
  /\ UNCHANGED <<stored, bounds>>

Leave(w) ==
  LET r == job[w].request
  IN  /\ At(w, "leave")
      /\ member' = Without(member, {<<r.group, r.user>>})
      /\ Finish(w)
      /\ UNCHANGED <<site_admins, users, groups, groupStreams, streamUsers, filters, born, revoked, bounds>>

-------------------------------------------------------------------------------
(* add_group_stream, remove_group_stream, grant_stream_user *)

FindStream(w) ==
  LET r == job[w].request
  IN  /\ At(w, "find_stream")
      /\ Found(w, IF r.kind = "add_stream" THEN "link" ELSE "grant", {r.stream})
      /\ UNCHANGED <<stored, bounds>>

\* Whether the group exists is not looked at.
Link(w) ==
  LET r == job[w].request
  IN  /\ At(w, "link")
      /\ groupStreams' = groupStreams \cup {<<r.group, r.stream>>}
      /\ Finish(w)
      /\ UNCHANGED <<site_admins, users, groups, member, streamUsers, filters, born, revoked, bounds>>

Unlink(w) ==
  LET r == job[w].request
      rows == groupStreams \cap {<<r.group, r.stream>>}
  IN  /\ At(w, "unlink")
      /\ groupStreams' = groupStreams \ rows /\ revoked' = revoked \cup rows
      /\ Finish(w)
      /\ UNCHANGED <<site_admins, users, groups, member, streamUsers, filters, born, bounds>>

-------------------------------------------------------------------------------
(* Science filters *)

\* patch_science_filter reads the document, checks who asks, and overwrites the
\* fields the request names; delete_science_filter only reads and checks.
FindFilter(w) ==
  LET r == job[w].request
      patched == [k \in DOMAIN filters[r.filter] |->
                    IF k \in DOMAIN r.change THEN r.change[k] ELSE filters[r.filter][k]]
  IN  /\ At(w, "find_filter")
      /\ IF r.filter \notin DOMAIN filters \/ ~ Editable(job[w].ctx, filters[r.filter])
           THEN Finish(w)
           ELSE IF r.kind = "patch_filter" THEN Found(w, "validate", patched)
           ELSE Move(w, "drop_filter")
      /\ UNCHANGED <<stored, bounds>>

\* Where a valid document goes.
Validated(w) ==
  IF job[w].request.kind = "create_filter" THEN "insert_filter" ELSE "replace_filter"

\* validate_filter_streams, on the document as it is going to be.
Validate(w) ==
  LET doc == job[w].read
  IN  /\ At(w, "validate")
      /\ IF doc.streams = {} \/ (doc.group # NoGroup /\ doc.streams \subseteq StreamsOf(doc.group))
           THEN Move(w, Validated(w)) ELSE Finish(w)
      /\ UNCHANGED <<stored, bounds>>

InsertFilter(w) ==
  /\ At(w, "insert_filter")
  /\ \E f \in Filter \ born :
       /\ filters' = Insert(filters, f, job[w].read) /\ born' = born \cup {f}
  /\ Finish(w)
  /\ UNCHANGED <<site_admins, users, groups, member, groupStreams, streamUsers, revoked, bounds>>

\* Variant: only the fields the request names are set.
SetNamedFields(w) ==
  LET r == job[w].request
  IN  /\ At(w, "replace_filter")
      /\ filters' = [f \in DOMAIN filters |->
           IF f = r.filter THEN [k \in DOMAIN filters[f] |->
             IF k \in DOMAIN r.change THEN r.change[k] ELSE filters[f][k]] ELSE filters[f]]
      /\ Finish(w)
      /\ UNCHANGED <<site_admins, users, groups, member, groupStreams, streamUsers, born, revoked, bounds>>

\* replace_one: the whole document, if it is still there.
ReplaceFilter(w) ==
  /\ At(w, "replace_filter")
  /\ filters' = [f \in DOMAIN filters |->
                   IF f = job[w].request.filter THEN job[w].read ELSE filters[f]]
  /\ Finish(w)
  /\ UNCHANGED <<site_admins, users, groups, member, groupStreams, streamUsers, born, revoked, bounds>>

DropFilter(w) ==
  /\ At(w, "drop_filter")
  /\ filters' = Without(filters, {job[w].request.filter})
  /\ Finish(w)
  /\ UNCHANGED <<site_admins, users, groups, member, groupStreams, streamUsers, born, revoked, bounds>>

-------------------------------------------------------------------------------
\* Any operation may fail, and any request be dropped between two of them.
Abandon(w) ==
  /\ job[w] # Idle /\ failures < MaxFailures
  /\ failures' = failures + 1
  /\ Finish(w)
  /\ UNCHANGED <<stored, received, raced>>

Handle(w) ==
  \/ Provision(w) \/ Upgrade(w) \/ LoadRoles(w) \/ LoadMemberships(w)
  \/ FindTarget(w) \/ CountSupers(w) \/ SetRoles(w)
  \/ InsertGroup(w) \/ FirstAdmin(w) \/ DeleteGroup(w) \/ DeleteMembers(w) \/ DeleteLinks(w)
  \/ FindGroup(w) \/ JoinGroup(w) \/ ReadStreams(w) \/ Grant(w)
  \/ FindMember(w) \/ CountAdmins(w) \/ Leave(w)
  \/ FindStream(w) \/ Link(w) \/ Unlink(w)
  \/ FindFilter(w) \/ Validate(w) \/ InsertFilter(w) \/ ReplaceFilter(w) \/ DropFilter(w)

Next ==
  \E w \in Worker :
    \/ \E u \in User, r \in Request : Receive(w, u, r)
    \/ Handle(w) \/ Abandon(w)

Spec == Init /\ [][Next]_vars

-------------------------------------------------------------------------------
\* Requests of these two kinds were never in progress together.
NoRace(a, b) == {a, b} \notin raced

\* A deployment is never without a super admin once it has users: the first user
\* of a fresh one gets the role, also if several come at once, and whatever
\* role changes follow, one at a time, the last one stays.
SomeSuperAdmin ==
  /\ site_admins = {} /\ DOMAIN users # {}
  /\ failures = 0 /\ NoRace("patch_user", "patch_user")
  => Supers # {}

\* A group loses its last admin only with the group itself, or by a request that
\* takes the flag away by name: a removal never does, if no other request was
\* changing the members of a group meanwhile.
LastAdminStays ==
  [][ /\ failures' = 0
      /\ NoRace("remove_member", "remove_member") /\ NoRace("remove_member", "add_member")
      /\ NoRace("remove_member", "create_group")
      =>
        \A g \in groups' :
          Admins(g) # {} /\ Admins(g)' = {} =>
            \E w \in Worker : JoinGroup(w) /\ ~ job[w].request.admin ]_vars

\* When all is quiet there are no memberships of a group that is gone, unless
\* its deletion met a request that was adding one.
NoStrayMembers ==
  (\A w \in Worker : job[w] = Idle) /\ failures = 0
    /\ NoRace("delete_group", "add_member") /\ NoRace("delete_group", "create_group")
  => \A row \in DOMAIN member : row[1] \in groups

\* A filter's streams are streams of its group, except those the group has lost
\* since -- however its requests and the group's were interleaved or cut short.
FilterStreamsAllowed ==
  \A f \in DOMAIN filters :
    \A s \in filters[f].streams : <<filters[f].group, s>> \in groupStreams \cup revoked

===============================================================================
