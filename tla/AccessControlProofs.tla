-------------------------- MODULE AccessControlProofs --------------------------
(***************************************************************************)
(* Proofs about AccessControl, for any users, groups, streams, filters,    *)
(* requests and number of requests at once.                                *)
(***************************************************************************)
EXTENDS AccessControl, FiniteSetTheorems, TLAPS

-------------------------------------------------------------------------------
(* What a step does to the request it works on *)

\* A worker is idle, or has a request with these fields.
JobShape ==
  /\ job = [w \in Worker |-> job[w]]
  /\ \A w \in Worker :
       \/ job[w] = Idle
       \/ job[w] = [at |-> job[w].at, request |-> job[w].request,
                    read |-> job[w].read, ctx |-> job[w].ctx]

\* The other workers are where they were.
OthersStay(w) == \A v \in Worker \ {w} : job'[v] = job[v]

\* Going on changes one worker: its label, its read and its context.
LEMMA GoFacts ==
  ASSUME JobShape, NEW w \in Worker, NEW label, NEW read, NEW ctx, Go(w, label, read, ctx)
  PROVE  /\ JobShape' /\ OthersStay(w)
         /\ job'[w].at = label /\ job'[w].read = read
         /\ job'[w].request = job[w].request /\ job'[w].ctx = ctx
  BY DEF JobShape, Go, OthersStay, Idle

\* A worker that is done is idle.
LEMMA FinishFacts ==
  ASSUME JobShape, NEW w \in Worker, Finish(w)
  PROVE  JobShape' /\ OthersStay(w) /\ job'[w] = Idle /\ job'[w].at = "idle"
  BY DEF JobShape, Finish, OthersStay, Idle

-------------------------------------------------------------------------------
(* FilterStreamsAllowed *)

\* The streams of document d are, or were, streams of its group.
Rows == groupStreams \cup revoked
Covered(d, rows) == \A s \in d.streams : <<d.group, s>> \in rows

\* A document about to be stored has been validated; since then its group may only
\* have lost streams.
Checked ==
  \A w \in Worker :
    job[w].at \in {"insert_filter", "replace_filter"} => Covered(job[w].read, Rows)

FInv == JobShape /\ Checked /\ FilterStreamsAllowed

\* What is a row, or was one, stays so.
LEMMA RowsKept ==
  ASSUME [Next]_vars
  PROVE  Rows \subseteq Rows'
<1> SUFFICES ASSUME Next
             PROVE  Rows \subseteq Rows'
  BY DEF Rows, vars, stored
<1> PICK w \in Worker : \/ \E u \in User, r \in Request : Receive(w, u, r)
                       \/ Handle(w) \/ Abandon(w)
  BY DEF Next
<1>1. CASE Link(w)
  BY <1>1 DEF Rows, Link
<1>2. CASE Unlink(w)
  BY <1>2 DEF Rows, Unlink
<1>3. CASE DeleteLinks(w)
  BY <1>3 DEF Rows, DeleteLinks
<1>4. CASE groupStreams' = groupStreams /\ revoked' = revoked
  BY <1>4 DEF Rows
<1>5. CASE \E u \in User, r \in Request : Receive(w, u, r)
  BY <1>4, <1>5 DEF Rows, Receive, stored
<1>6. CASE Abandon(w)
  BY <1>4, <1>6 DEF Rows, Abandon, stored
<1>7. CASE Provision(w) \/ Upgrade(w) \/ SetRoles(w)
  BY <1>4, <1>7 DEF Rows, Provision, Upgrade, SetRoles
<1>8. CASE LoadRoles(w) \/ LoadMemberships(w) \/ FindTarget(w) \/ CountSupers(w)
  BY <1>4, <1>8 DEF Rows, LoadRoles, LoadMemberships, FindTarget, CountSupers, stored
<1>9. CASE InsertGroup(w) \/ FirstAdmin(w) \/ DeleteGroup(w) \/ DeleteMembers(w) \/ JoinGroup(w)
  BY <1>4, <1>9 DEF Rows, InsertGroup, FirstAdmin, DeleteGroup, DeleteMembers, JoinGroup
<1>10. CASE FindGroup(w) \/ ReadStreams(w) \/ FindMember(w) \/ CountAdmins(w) \/ FindStream(w)
  BY <1>4, <1>10 DEF Rows, FindGroup, ReadStreams, FindMember, CountAdmins, FindStream, stored
<1>11. CASE Grant(w) \/ Leave(w) \/ InsertFilter(w) \/ ReplaceFilter(w) \/ DropFilter(w)
  BY <1>4, <1>11 DEF Rows, Grant, Leave, InsertFilter, ReplaceFilter, DropFilter
<1>12. CASE FindFilter(w) \/ Validate(w)
  BY <1>4, <1>12 DEF Rows, FindFilter, Validate, stored
<1> QED
  BY <1>1, <1>2, <1>3, <1>5, <1>6, <1>7, <1>8, <1>9, <1>10, <1>11, <1>12 DEF Rows, Handle

\* A step works on one request, and only Validate brings one to where its document
\* is stored.
OneRequest(w) ==
  /\ JobShape' /\ OthersStay(w)
  /\ job'[w].at \in {"insert_filter", "replace_filter"} => Validate(w)

LEMMA GoOne ==
  ASSUME JobShape, NEW w \in Worker, NEW label, NEW read, NEW ctx, Go(w, label, read, ctx),
         label \notin {"insert_filter", "replace_filter"}
  PROVE  OneRequest(w)
<1>1. JobShape' /\ OthersStay(w) /\ job'[w].at = label
  BY GoFacts
<1> QED
  BY <1>1 DEF OneRequest

LEMMA FinishOne ==
  ASSUME JobShape, NEW w \in Worker, Finish(w)
  PROVE  OneRequest(w)
<1>1. JobShape' /\ OthersStay(w) /\ job'[w].at = "idle"
  BY FinishFacts
<1> QED
  BY <1>1 DEF OneRequest

LEMMA ReceiveOne ==
  ASSUME JobShape, NEW w \in Worker, NEW u \in User, NEW r \in Request, Receive(w, u, r)
  PROVE  OneRequest(w)
<1> DEFINE j == [ at |-> "provision", request |-> r, read |-> DOMAIN users = {},
                  ctx |-> [sub |-> u, acls |-> {}, group_member |-> {}, group_admin |-> {}] ]
<1>1. job' = [job EXCEPT ![w] = j]
  BY DEF Receive
<1>2. j.at = "provision" /\ j = [at |-> j.at, request |-> j.request, read |-> j.read, ctx |-> j.ctx]
  OBVIOUS
<1> HIDE DEF j
<1>3. job'[w] = j /\ OthersStay(w) /\ job' = [x \in Worker |-> job'[x]]
  BY <1>1 DEF JobShape, OthersStay
<1> QED
  BY <1>2, <1>3 DEF OneRequest, JobShape, OthersStay

LEMMA HandleOne ==
  ASSUME JobShape, NEW w \in Worker, Handle(w)
  PROVE  OneRequest(w)
<1>1. CASE Validate(w)
  <2>1. CASE Move(w, Validated(w))
    BY <1>1, <2>1, GoFacts DEF Move, OneRequest
  <2>2. CASE Finish(w)
    BY <2>2, FinishOne
  <2> QED
    BY <1>1, <2>1, <2>2 DEF Validate
<1>2. CASE Provision(w)
  <2>1. PICK label \in {"upgrade", "roles"} : Move(w, label)
    BY <1>2 DEF Provision
  <2> QED
    BY <2>1, GoOne DEF Move
<1>3. CASE LoadMemberships(w)
  <2>1. FirstOf(job[w].request) \notin {"insert_filter", "replace_filter"}
    BY DEF FirstOf
  <2>2. CASE Finish(w)
    BY <2>2, FinishOne
  <2>3. CASE \E read, ctx : Go(w, FirstOf(job[w].request), read, ctx)
    BY <2>1, <2>3, GoOne
  <2> QED
    BY <1>3, <2>2, <2>3 DEF LoadMemberships
<1>4. CASE \/ Upgrade(w) \/ FindTarget(w) \/ CountSupers(w) \/ DeleteGroup(w) \/ DeleteMembers(w)
           \/ FindGroup(w) \/ JoinGroup(w) \/ FindMember(w) \/ CountAdmins(w)
  <2>1. \/ Finish(w)
        \/ \E label \in {"roles", "count_supers", "set_roles", "delete_members", "delete_links",
                         "join", "group_streams", "count_admins", "leave"} : Move(w, label)
    BY <1>4 DEF Upgrade, FindTarget, CountSupers, DeleteGroup, DeleteMembers, FindGroup,
                JoinGroup, FindMember, CountAdmins
  <2> QED
    BY <2>1, GoOne, FinishOne DEF Move
<1>5. CASE LoadRoles(w) \/ InsertGroup(w) \/ ReadStreams(w) \/ Grant(w) \/ FindStream(w)
  <2>1. \/ Finish(w)
        \/ \E label \in {"memberships", "first_admin", "grant", "link"} :
             \E v, ctx : Go(w, label, v, ctx)
    BY <1>5 DEF LoadRoles, InsertGroup, ReadStreams, Grant, FindStream, Found
  <2> QED
    BY <2>1, GoOne, FinishOne
<1>6. CASE \/ SetRoles(w) \/ FirstAdmin(w) \/ DeleteLinks(w) \/ Leave(w) \/ Link(w) \/ Unlink(w)
           \/ InsertFilter(w) \/ ReplaceFilter(w) \/ DropFilter(w)
  <2>1. Finish(w)
    BY <1>6 DEF SetRoles, FirstAdmin, DeleteLinks, Leave, Link, Unlink, InsertFilter,
                ReplaceFilter, DropFilter
  <2> QED
    BY <2>1, FinishOne
<1>7. CASE FindFilter(w)
  <2>1. Finish(w) \/ (\E v : Found(w, "validate", v)) \/ Move(w, "drop_filter")
    BY <1>7 DEF FindFilter
  <2> QED
    BY <2>1, GoOne, FinishOne DEF Found, Move
<1> QED
  BY <1>1, <1>2, <1>3, <1>4, <1>5, <1>6, <1>7 DEF Handle

\* Validate lets a document pass only when it is covered.
LEMMA ValidateCovers ==
  ASSUME JobShape, NEW w \in Worker, Validate(w), job'[w].at \in {"insert_filter", "replace_filter"}
  PROVE  Covered(job'[w].read, Rows')
<1>1. ~ Finish(w)
  BY FinishFacts
<1>2. Move(w, Validated(w)) /\ Covered(job[w].read, Rows)
  BY <1>1 DEF Validate, Covered, StreamsOf, Rows
<1>3. job'[w].read = job[w].read
  BY <1>2, GoFacts DEF Move
<1>4. UNCHANGED <<groupStreams, revoked>>
  BY DEF Validate, stored
<1> QED
  BY <1>2, <1>3, <1>4 DEF Rows

\* Which documents a step of a request leaves in the collection.
LEMMA FilterSteps ==
  ASSUME NEW w \in Worker, Handle(w)
  PROVE  \/ \A f \in DOMAIN filters' : f \in DOMAIN filters /\ filters'[f] = filters[f]
         \/ /\ job[w].at \in {"insert_filter", "replace_filter"}
            /\ \A f \in DOMAIN filters' :
                 filters'[f] = job[w].read \/ (f \in DOMAIN filters /\ filters'[f] = filters[f])
<1>1. CASE InsertFilter(w)
  <2>1. PICK g : filters' = [x \in DOMAIN filters \cup {g} |->
                              IF x = g THEN job[w].read ELSE filters[x]]
    BY <1>1 DEF InsertFilter, Insert
  <2> QED
    BY <1>1, <2>1 DEF InsertFilter, At
<1>2. CASE ReplaceFilter(w)
  <2>1. filters' = [f \in DOMAIN filters |->
                      IF f = job[w].request.filter THEN job[w].read ELSE filters[f]]
    BY <1>2 DEF ReplaceFilter
  <2> QED
    BY <1>2, <2>1 DEF ReplaceFilter, At
<1>3. CASE DropFilter(w)
  BY <1>3 DEF DropFilter, Without
<1>4. CASE UNCHANGED filters
  BY <1>4
<1>5. CASE \/ LoadRoles(w) \/ LoadMemberships(w) \/ FindTarget(w) \/ CountSupers(w) \/ FindGroup(w)
           \/ ReadStreams(w) \/ FindMember(w) \/ CountAdmins(w) \/ FindStream(w) \/ FindFilter(w)
           \/ Validate(w)
  BY <1>4, <1>5 DEF LoadRoles, LoadMemberships, FindTarget, CountSupers, FindGroup, ReadStreams,
     FindMember, CountAdmins, FindStream, FindFilter, Validate, stored
<1>6. CASE \/ Provision(w) \/ Upgrade(w) \/ SetRoles(w) \/ InsertGroup(w) \/ FirstAdmin(w)
           \/ DeleteGroup(w) \/ DeleteMembers(w) \/ DeleteLinks(w) \/ JoinGroup(w) \/ Grant(w)
           \/ Leave(w) \/ Link(w) \/ Unlink(w)
  BY <1>4, <1>6 DEF Provision, Upgrade, SetRoles, InsertGroup, FirstAdmin, DeleteGroup,
     DeleteMembers, DeleteLinks, JoinGroup, Grant, Leave, Link, Unlink
<1> QED
  BY <1>1, <1>2, <1>3, <1>5, <1>6 DEF Handle

LEMMA FInvInit == Init => FInv
<1> SUFFICES ASSUME Init
             PROVE  FInv
  OBVIOUS
<1>1. job = [w \in Worker |-> Idle] /\ Idle.at = "idle"
  BY DEF Init, Idle
<1>2. FilterStreamsAllowed
  BY SeedAssumption DEF Init, FilterStreamsAllowed
<1> QED
  BY <1>1, <1>2 DEF FInv, JobShape, Checked

LEMMA FInvNext == FInv /\ [Next]_vars => FInv'
<1> SUFFICES ASSUME FInv, [Next]_vars
             PROVE  FInv'
  OBVIOUS
<1>1. CASE UNCHANGED vars
  BY <1>1 DEF vars, stored, FInv, JobShape, Checked, Covered, Rows, FilterStreamsAllowed
<1>2. CASE Next
  <2> PICK w \in Worker : \/ \E u \in User, r \in Request : Receive(w, u, r)
                         \/ Handle(w) \/ Abandon(w)
    BY <1>2 DEF Next
  <2>1. OneRequest(w)
    BY ReceiveOne, HandleOne, FinishOne DEF FInv, Abandon
  <2>2. Checked'
    <3> SUFFICES ASSUME NEW v \in Worker, job'[v].at \in {"insert_filter", "replace_filter"}
                 PROVE  Covered(job'[v].read, Rows')
      BY DEF Checked
    <3>1. CASE v = w
      BY <2>1, <3>1, ValidateCovers DEF OneRequest, FInv
    <3>2. CASE v # w
      <4>1. job'[v] = job[v] /\ Covered(job[v].read, Rows)
        BY <2>1, <3>2 DEF OneRequest, OthersStay, FInv, Checked
      <4> QED
        BY <4>1, RowsKept DEF Covered
    <3> QED
      BY <3>1, <3>2
  <2>3. FilterStreamsAllowed'
    <3> SUFFICES ASSUME NEW f \in DOMAIN filters'
                 PROVE  Covered(filters'[f], Rows')
      BY DEF FilterStreamsAllowed, Covered, Rows
    <3>1. ASSUME f \in DOMAIN filters, filters'[f] = filters[f]
          PROVE  Covered(filters'[f], Rows')
      <4>1. Covered(filters[f], Rows)
        BY <3>1 DEF FInv, FilterStreamsAllowed, Covered, Rows
      <4> QED
        BY <3>1, <4>1, RowsKept DEF Covered
    <3>2. CASE Handle(w)
      <4>1. ASSUME job[w].at \in {"insert_filter", "replace_filter"}, filters'[f] = job[w].read
            PROVE  Covered(filters'[f], Rows')
        <5>1. Covered(job[w].read, Rows)
          BY <4>1 DEF FInv, Checked
        <5> QED
          BY <4>1, <5>1, RowsKept DEF Covered
      <4> QED
        BY <3>1, <3>2, <4>1, FilterSteps
    <3>3. CASE (\E u \in User, r \in Request : Receive(w, u, r)) \/ Abandon(w)
      BY <3>1, <3>3 DEF Receive, Abandon, stored
    <3> QED
      BY <3>2, <3>3
  <2> QED
    BY <2>1, <2>2, <2>3 DEF FInv, OneRequest
<1> QED
  BY <1>1, <1>2

\* No interleaving of requests, and no request cut short, stores a filter with a
\* stream its group never had: validate_filter_streams, though it reads the group's
\* streams before the document is written, misses only streams revoked since.
THEOREM FilterStreamsSafe == Spec => []FilterStreamsAllowed
<1>1. FInv => FilterStreamsAllowed
  BY DEF FInv
<1> QED
  BY FInvInit, FInvNext, <1>1, PTL DEF Spec

-------------------------------------------------------------------------------
(* Which request is where *)

\* A request goes through the handler of its kind: from one label to the next.
Moves ==
  { <<"provision", "upgrade">>, <<"provision", "roles">>, <<"upgrade", "roles">>,
    <<"roles", "memberships">>, <<"find_target", "count_supers">>, <<"find_target", "set_roles">>,
    <<"count_supers", "set_roles">>, <<"insert_group", "first_admin">>,
    <<"delete_group", "delete_members">>, <<"delete_members", "delete_links">>,
    <<"find_group", "join">>, <<"join", "group_streams">>, <<"group_streams", "grant">>,
    <<"grant", "grant">>, <<"find_member", "count_admins">>, <<"find_member", "leave">>,
    <<"count_admins", "leave">>, <<"find_stream", "link">>, <<"find_stream", "grant">>,
    <<"find_filter", "validate">>, <<"find_filter", "drop_filter">>,
    <<"validate", "insert_filter">>, <<"validate", "replace_filter">> }

\* Only requests of one kind get to these labels.
Places ==
  \A w \in Worker :
    LET at == job[w].at
        kind == job[w].request.kind
    IN  /\ at \in {"find_target", "count_supers", "set_roles"} => kind = "patch_user"
        /\ at \in {"insert_group", "first_admin"} => kind = "create_group"
        /\ at \in {"delete_group", "delete_members"} => kind = "delete_group"
        /\ at \in {"find_group", "join"} => kind = "add_member"
        /\ at \in {"find_member", "count_admins", "leave"} => kind = "remove_member"

\* Two requests in progress are known to have met.
Met ==
  \A v, w \in Worker :
    v # w /\ job[v] # Idle /\ job[w] # Idle =>
      {job[v].request.kind, job[w].request.kind} \in raced

\* Beyond its provisioning a request's user is there; groups have been given out.
Known ==
  /\ failures \in Nat
  /\ \A w \in Worker :
       /\ job[w].at \notin {"idle", "provision"} => DOMAIN users # {}
       /\ job[w].at = "provision" /\ ~ job[w].read => DOMAIN users # {}
       /\ job[w] # Idle => job[w].ctx.sub \in User /\ job[w].request \in Request
       /\ job[w] # Idle => Named(job[w].request) \subseteq born
       /\ job[w].at = "delete_members" => job[w].request.group \notin groups
       /\ job[w].at = "first_admin" => job[w].read \in born
  /\ groups \subseteq born /\ DOMAIN member \subseteq born \X User

RInv == JobShape /\ Places /\ Met /\ Known

\* What a step of a request does to its job.
Advances(w) ==
  /\ JobShape' /\ OthersStay(w)
  /\ \/ job'[w] = Idle
     \/ /\ job'[w].request = job[w].request /\ job'[w].ctx.sub = job[w].ctx.sub
        /\ \/ job[w].at = "memberships" /\ job'[w].at = FirstOf(job[w].request)
           \/ <<job[w].at, job'[w].at>> \in Moves

LEMMA FinishAdvances ==
  ASSUME JobShape, NEW w \in Worker, Finish(w)
  PROVE  Advances(w)
  BY FinishFacts DEF Advances

LEMMA GoAdvances ==
  ASSUME JobShape, NEW w \in Worker, NEW label, NEW read, NEW ctx, Go(w, label, read, ctx),
         ctx.sub = job[w].ctx.sub,
         \/ At(w, "memberships") /\ label = FirstOf(job[w].request)
         \/ <<job[w].at, label>> \in Moves
  PROVE  Advances(w)
<1>1. JobShape' /\ OthersStay(w) /\ job'[w].at = label /\ job'[w].request = job[w].request
      /\ job'[w].ctx = ctx
  BY GoFacts
<1> QED
  BY <1>1 DEF Advances, At

LEMMA MoveAdvances ==
  ASSUME JobShape, NEW w \in Worker, NEW label, NEW read, Go(w, label, read, job[w].ctx),
         <<job[w].at, label>> \in Moves
  PROVE  Advances(w)
  BY GoAdvances

LEMMA HandleAdvances ==
  ASSUME JobShape, NEW w \in Worker, Handle(w)
  PROVE  Advances(w)
<1>1. CASE \/ SetRoles(w) \/ FirstAdmin(w) \/ DeleteLinks(w) \/ Leave(w) \/ Link(w) \/ Unlink(w)
           \/ InsertFilter(w) \/ ReplaceFilter(w) \/ DropFilter(w)
  <2>1. Finish(w)
    BY <1>1 DEF SetRoles, FirstAdmin, DeleteLinks, Leave, Link, Unlink, InsertFilter,
                ReplaceFilter, DropFilter
  <2> QED
    BY <2>1, FinishAdvances
<1>2. CASE \/ Provision(w) \/ Upgrade(w) \/ FindTarget(w) \/ CountSupers(w) \/ DeleteGroup(w)
           \/ DeleteMembers(w) \/ FindGroup(w) \/ JoinGroup(w) \/ FindMember(w) \/ CountAdmins(w)
  <2>1. Finish(w) \/ \E label : Move(w, label) /\ <<job[w].at, label>> \in Moves
    BY <1>2 DEF Provision, Upgrade, FindTarget, CountSupers, DeleteGroup, DeleteMembers, FindGroup,
                JoinGroup, FindMember, CountAdmins, At, Moves
  <2> QED
    BY <2>1, FinishAdvances, MoveAdvances DEF Move
<1>3. CASE InsertGroup(w) \/ ReadStreams(w) \/ Grant(w) \/ FindStream(w) \/ Validate(w)
  <2>1. Finish(w) \/ \E label, read : Found(w, label, read) /\ <<job[w].at, label>> \in Moves
    BY <1>3 DEF InsertGroup, ReadStreams, Grant, FindStream, Validate, Validated, Found, Move, At,
                Moves
  <2> QED
    BY <2>1, FinishAdvances, MoveAdvances DEF Found
<1>4. CASE FindFilter(w)
  <2>1. /\ At(w, "find_filter")
        /\ Finish(w) \/ (\E v : Found(w, "validate", v)) \/ Move(w, "drop_filter")
    BY <1>4 DEF FindFilter
  <2>2. <<job[w].at, "validate">> \in Moves /\ <<job[w].at, "drop_filter">> \in Moves
    BY <2>1 DEF At, Moves
  <2> QED
    BY <2>1, <2>2, FinishAdvances, MoveAdvances DEF Found, Move
<1>5. CASE LoadRoles(w)
  <2>1. \E ctx : Go(w, "memberships", job[w].read, ctx) /\ ctx.sub = job[w].ctx.sub
    BY <1>5 DEF LoadRoles
  <2>2. <<job[w].at, "memberships">> \in Moves
    BY <1>5 DEF LoadRoles, At, Moves
  <2> QED
    BY <2>1, <2>2, GoAdvances
<1>6. CASE LoadMemberships(w)
  <2>1. At(w, "memberships")
    BY <1>6 DEF LoadMemberships
  <2>2. \/ Finish(w)
        \/ \E doc, ctx : Go(w, FirstOf(job[w].request), doc, ctx) /\ ctx.sub = job[w].ctx.sub
    BY <1>6 DEF LoadMemberships
  <2> QED
    BY <2>1, <2>2, FinishAdvances, GoAdvances
<1> QED
  BY <1>1, <1>2, <1>3, <1>4, <1>5, <1>6 DEF Handle

\* Which step of a request changes what.
LEMMA Frames ==
  ASSUME NEW w \in Worker, Handle(w)
  PROVE  /\ site_admins' = site_admins /\ raced' = raced
         /\ failures' = failures \/ failures' = failures + 1
         /\ users' = users \/ Provision(w) \/ Upgrade(w) \/ SetRoles(w)
         /\ member' = member \/ FirstAdmin(w) \/ DeleteMembers(w) \/ JoinGroup(w) \/ Leave(w)
         /\ groups' = groups \/ InsertGroup(w) \/ DeleteGroup(w)
         /\ born' = born \/ InsertGroup(w) \/ InsertFilter(w)
<1>1. CASE \/ LoadRoles(w) \/ LoadMemberships(w) \/ FindTarget(w) \/ CountSupers(w) \/ FindGroup(w)
           \/ ReadStreams(w) \/ FindMember(w) \/ CountAdmins(w) \/ FindStream(w) \/ FindFilter(w)
           \/ Validate(w)
  BY <1>1 DEF LoadRoles, LoadMemberships, FindTarget, CountSupers, FindGroup, ReadStreams,
     FindMember, CountAdmins, FindStream, FindFilter, Validate, stored, bounds
<1>2. CASE \/ Provision(w) \/ Upgrade(w) \/ SetRoles(w) \/ InsertGroup(w) \/ FirstAdmin(w)
           \/ DeleteGroup(w) \/ DeleteMembers(w) \/ DeleteLinks(w) \/ JoinGroup(w) \/ Grant(w)
  BY <1>2 DEF Provision, Upgrade, SetRoles, InsertGroup, FirstAdmin, DeleteGroup,
     DeleteMembers, DeleteLinks, JoinGroup, Grant, bounds
<1>3. CASE \/ Leave(w) \/ Link(w) \/ Unlink(w) \/ InsertFilter(w) \/ ReplaceFilter(w) \/ DropFilter(w)
  BY <1>3 DEF Leave, Link, Unlink, InsertFilter, ReplaceFilter, DropFilter, bounds
<1> QED
  BY <1>1, <1>2, <1>3 DEF Handle

\* At its label a request takes the step of that label.
LEMMA ByLabel ==
  ASSUME NEW w \in Worker, Handle(w)
  PROVE  /\ At(w, "provision") => Provision(w)
         /\ At(w, "find_target") => FindTarget(w)
         /\ At(w, "count_supers") => CountSupers(w)
         /\ At(w, "insert_group") => InsertGroup(w)
         /\ At(w, "delete_group") => DeleteGroup(w)
         /\ At(w, "find_group") => FindGroup(w)
         /\ At(w, "find_member") => FindMember(w)
         /\ At(w, "count_admins") => CountAdmins(w)
         /\ At(w, "delete_members") => DeleteMembers(w)
  BY DEF Handle, At, Provision, Upgrade, LoadRoles, LoadMemberships, FindTarget, CountSupers,
         SetRoles, InsertGroup, FirstAdmin, DeleteGroup, DeleteMembers, DeleteLinks, FindGroup,
         JoinGroup, ReadStreams, Grant, FindMember, CountAdmins, Leave, FindStream, Link, Unlink,
         FindFilter, Validate, InsertFilter, ReplaceFilter, DropFilter

\* A request that takes a step is in progress.
LEMMA Busy ==
  ASSUME NEW w \in Worker, Handle(w)
  PROVE  job[w] # Idle /\ job[w].at # "idle"
<1>1. job[w].at # "idle"
  BY DEF Handle, At, Provision, Upgrade, LoadRoles, LoadMemberships, FindTarget, CountSupers,
         SetRoles, InsertGroup, FirstAdmin, DeleteGroup, DeleteMembers, DeleteLinks, FindGroup,
         JoinGroup, ReadStreams, Grant, FindMember, CountAdmins, Leave, FindStream, Link, Unlink,
         FindFilter, Validate, InsertFilter, ReplaceFilter, DropFilter
<1> QED
  BY <1>1 DEF Idle

\* No row of users is ever deleted, no UUID forgotten; members are in groups given out.
LEMMA StoreGrows ==
  ASSUME RInv, NEW w \in Worker, Handle(w)
  PROVE  /\ DOMAIN users \subseteq DOMAIN users'
         /\ At(w, "provision") => DOMAIN users' # {}
         /\ born \subseteq born' /\ groups' \subseteq born'
         /\ DOMAIN member' \subseteq born' \X User
         /\ \A g \in born \ groups : g \notin groups'
<1>1. DOMAIN users \subseteq DOMAIN users'
  <2>1. CASE Provision(w)
    BY <2>1 DEF Provision, Insert
  <2>2. CASE Upgrade(w)
    BY <2>2 DEF Upgrade
  <2>3. CASE SetRoles(w)
    BY <2>3 DEF SetRoles
  <2> QED
    BY <2>1, <2>2, <2>3, Frames
<1>2. At(w, "provision") => DOMAIN users' # {}
  <2>1. At(w, "provision") => Provision(w)
    BY ByLabel
  <2>2. Provision(w) => job[w].ctx.sub \in DOMAIN users'
    BY DEF Provision, Insert
  <2> QED
    BY <2>1, <2>2
<1>3. /\ born \subseteq born' /\ groups' \subseteq born'
      /\ \A g \in born \ groups : g \notin groups'
  <2>1. groups \subseteq born
    BY DEF RInv, Known
  <2>2. CASE InsertGroup(w)
    BY <2>1, <2>2 DEF InsertGroup
  <2>3. CASE InsertFilter(w)
    BY <2>1, <2>3 DEF InsertFilter
  <2>4. CASE DeleteGroup(w)
    BY <2>1, <2>4 DEF DeleteGroup
  <2> QED
    BY <2>1, <2>2, <2>3, <2>4, Frames
<1>4. DOMAIN member' \subseteq born' \X User
  <2>1. DOMAIN member \subseteq born \X User
    BY DEF RInv, Known
  <2>2. CASE FirstAdmin(w)
    <3>1. <<job[w].read, job[w].ctx.sub>> \in born \X User
      BY <2>2 DEF RInv, Known, FirstAdmin, At, Idle
    <3>2. DOMAIN member' \subseteq DOMAIN member \cup {<<job[w].read, job[w].ctx.sub>>}
      BY <2>2 DEF FirstAdmin, Insert
    <3> QED
      BY <2>1, <3>1, <3>2, <1>3
  <2>3. CASE DeleteMembers(w)
    <3>1. DOMAIN member' \subseteq DOMAIN member
      BY <2>3 DEF DeleteMembers, Without
    <3> QED
      BY <2>1, <3>1, <1>3
  <2>4. CASE JoinGroup(w)
    <3> DEFINE r == job[w].request
    <3>1. r \in Request /\ Named(r) \subseteq born /\ r.kind = "add_member"
      BY <2>4 DEF RInv, Known, Places, JoinGroup, At, Idle
    <3>2. r.group \in born /\ r.user \in User
      BY <3>1, RequestAssumption, NoGroupAssumption DEF Named
    <3>3. DOMAIN member' \subseteq DOMAIN member \cup {<<r.group, r.user>>}
      BY <2>4 DEF JoinGroup, Insert
    <3> HIDE DEF r
    <3> QED
      BY <2>1, <3>2, <3>3, <1>3
  <2>5. CASE Leave(w)
    <3>1. DOMAIN member' \subseteq DOMAIN member
      BY <2>5 DEF Leave, Without
    <3> QED
      BY <2>1, <3>1, <1>3
  <2> QED
    BY <2>1, <2>2, <2>3, <2>4, <2>5, <1>3, Frames
<1> QED
  BY <1>1, <1>2, <1>3, <1>4

LEMMA RInvInit == Init => RInv
<1> SUFFICES ASSUME Init
             PROVE  RInv
  OBVIOUS
<1>1. job = [w \in Worker |-> Idle] /\ Idle.at = "idle"
  BY DEF Init, Idle
<1>2. groups \subseteq born /\ DOMAIN member \subseteq born \X User
  BY SeedAssumption DEF Init
<1>3. failures \in Nat
  BY DEF Init
<1> QED
  BY <1>1, <1>2, <1>3 DEF RInv, JobShape, Places, Met, Known

\* A request has the kind of the handler it is in.
LEMMA PlacesAdvance ==
  ASSUME RInv, NEW w \in Worker, Advances(w)
  PROVE  Places'
<1> SUFFICES ASSUME NEW v \in Worker
             PROVE  LET at == job'[v].at
                        kind == job'[v].request.kind
                    IN  /\ at \in {"find_target", "count_supers", "set_roles"} => kind = "patch_user"
                        /\ at \in {"insert_group", "first_admin"} => kind = "create_group"
                        /\ at \in {"delete_group", "delete_members"} => kind = "delete_group"
                        /\ at \in {"find_group", "join"} => kind = "add_member"
                        /\ at \in {"find_member", "count_admins", "leave"} => kind = "remove_member"
  BY DEF Places
<1>1. CASE v # w
  BY <1>1 DEF Advances, OthersStay, RInv, Places
<1>2. CASE v = w /\ job'[w] = Idle
  BY <1>2 DEF Idle
<1>3. CASE v = w /\ job[w].at = "memberships" /\ job'[w].at = FirstOf(job[w].request)
           /\ job'[w].request = job[w].request
  BY <1>3 DEF FirstOf
<1>4. CASE v = w /\ <<job[w].at, job'[w].at>> \in Moves /\ job'[w].request = job[w].request
  BY <1>4 DEF Moves, RInv, Places
<1> QED
  BY <1>1, <1>2, <1>3, <1>4 DEF Advances

\* The group a request deletes, joins or leaves has been given out.
LEMMA NamedGroup ==
  ASSUME RInv, NEW w \in Worker,
         job[w].at \in {"delete_group", "delete_members", "find_group", "join", "find_member",
                        "count_admins", "leave"}
  PROVE  job[w].request.group \in born
<1> DEFINE r == job[w].request
<1>1. /\ r \in Request /\ Named(r) \subseteq born
      /\ r.kind \in {"delete_group", "add_member", "remove_member"}
  BY DEF RInv, Known, Places, Idle
<1> HIDE DEF r
<1>2. r.group \in born
  BY <1>1, RequestAssumption, NoGroupAssumption DEF Named
<1> QED
  BY <1>2 DEF r

LEMMA KnownAdvances ==
  ASSUME RInv, NEW w \in Worker, Handle(w), Advances(w)
  PROVE  Known'
<1>1. /\ failures' \in Nat
      /\ groups' \subseteq born' /\ DOMAIN member' \subseteq born' \X User
  BY StoreGrows, Frames DEF RInv, Known
<1>2. ASSUME NEW v \in Worker \ {w}
      PROVE  /\ job'[v].at \notin {"idle", "provision"} => DOMAIN users' # {}
             /\ job'[v].at = "provision" /\ ~ job'[v].read => DOMAIN users' # {}
             /\ job'[v] # Idle => /\ job'[v].ctx.sub \in User /\ job'[v].request \in Request
                                  /\ Named(job'[v].request) \subseteq born'
             /\ job'[v].at = "delete_members" => job'[v].request.group \notin groups'
             /\ job'[v].at = "first_admin" => job'[v].read \in born'
  <2>1. job'[v] = job[v]
    BY DEF Advances, OthersStay
  <2>2. job[v].at = "delete_members" =>
          job[v].request.group \in born /\ job[v].request.group \notin groups
    BY NamedGroup DEF RInv, Known
  <2> QED
    BY <2>1, <2>2, StoreGrows DEF RInv, Known
<1>3. job[w] # Idle
  BY Busy
<1>4. CASE job'[w] = Idle
  BY <1>1, <1>2, <1>4 DEF Known, Idle
<1>5. CASE job'[w] # Idle
  <2>1. /\ job'[w].request = job[w].request /\ job'[w].ctx.sub = job[w].ctx.sub
        /\ \/ job[w].at = "memberships" /\ job'[w].at = FirstOf(job[w].request)
           \/ <<job[w].at, job'[w].at>> \in Moves
    BY <1>5 DEF Advances
  <2>2. /\ job'[w].ctx.sub \in User /\ job'[w].request \in Request
        /\ Named(job'[w].request) \subseteq born'
    BY <1>3, <2>1, StoreGrows DEF RInv, Known
  <2>3. DOMAIN users' # {}
    BY <1>3, StoreGrows, <2>1 DEF RInv, Known, At, Moves
  <2>4. job'[w].at = "delete_members" => job'[w].request.group \notin groups'
    <3>1. job'[w].at = "delete_members" => At(w, "delete_group")
      BY <2>1 DEF Moves, FirstOf, At
    <3>2. DeleteGroup(w) => job[w].request.group \notin groups'
      BY DEF DeleteGroup
    <3> QED
      BY <2>1, <3>1, <3>2, ByLabel
  <2>5. job'[w].at = "first_admin" => job'[w].read \in born'
    <3>1. job'[w].at = "first_admin" => At(w, "insert_group")
      BY <2>1 DEF Moves, FirstOf, At
    <3>2. ASSUME InsertGroup(w)
          PROVE  job'[w].read \in born'
      <4>1. PICK g \in Group \ born : born' = born \cup {g} /\ Found(w, "first_admin", g)
        BY <3>2 DEF InsertGroup
      <4>2. job'[w].read = g
        BY <4>1, GoFacts DEF Found, RInv
      <4> QED
        BY <4>1, <4>2
    <3> QED
      BY <3>1, <3>2, ByLabel
  <2>6. job'[w].at # "provision"
    BY <2>1 DEF Moves, FirstOf
  <2> QED
    BY <1>1, <1>2, <2>2, <2>3, <2>4, <2>5, <2>6 DEF Known
<1> QED
  BY <1>4, <1>5

LEMMA RInvHandle ==
  ASSUME RInv, NEW w \in Worker, Handle(w)
  PROVE  RInv' /\ Advances(w)
<1>1. Advances(w)
  BY HandleAdvances DEF RInv
<1>2. Met'
  <2>1. job[w] # Idle /\ raced' = raced
    BY Busy, Frames
  <2> QED
    BY <1>1, <2>1 DEF Advances, OthersStay, RInv, Met
<1> QED
  BY <1>1, <1>2, PlacesAdvance, KnownAdvances DEF RInv, Advances

LEMMA RInvReceive ==
  ASSUME RInv, NEW w \in Worker, NEW u \in User, NEW r \in Request, Receive(w, u, r)
  PROVE  RInv'
<1> DEFINE j == [ at |-> "provision", request |-> r, read |-> DOMAIN users = {},
                  ctx |-> [sub |-> u, acls |-> {}, group_member |-> {}, group_admin |-> {}] ]
<1>1. /\ job' = [job EXCEPT ![w] = j] /\ job[w] = Idle /\ Named(r) \subseteq born
      /\ raced' = raced \cup {{r.kind, job[v].request.kind} : v \in {x \in Worker : job[x] # Idle}}
      /\ UNCHANGED <<users, groups, member, born, failures>>
  BY DEF Receive, stored
<1>2. /\ j.at = "provision" /\ j.request = r /\ j.read = (DOMAIN users = {}) /\ j.ctx.sub = u
      /\ j # Idle
  BY DEF Idle
<1> HIDE DEF j
<1>3. job'[w] = j /\ \A v \in Worker \ {w} : job'[v] = job[v]
  BY <1>1 DEF RInv, JobShape
<1>4. JobShape'
  BY ReceiveOne DEF OneRequest, RInv
<1>5. Places'
  BY <1>2, <1>3 DEF RInv, Places
<1>6. Met'
  <2>1. ASSUME NEW v \in Worker \ {w}, job'[v] # Idle
        PROVE  {r.kind, job[v].request.kind} \in raced'
    BY <1>1, <1>3, <2>1
  <2>2. ASSUME NEW v \in Worker \ {w}, job'[v] # Idle
        PROVE  /\ {job'[v].request.kind, job'[w].request.kind} \in raced'
               /\ {job'[w].request.kind, job'[v].request.kind} \in raced'
    <3>1. {r.kind, job[v].request.kind} = {job[v].request.kind, r.kind}
      OBVIOUS
    <3> QED
      BY <1>2, <1>3, <2>1, <2>2, <3>1
  <2>3. ASSUME NEW v \in Worker \ {w}, NEW x \in Worker \ {w}, v # x, job'[v] # Idle, job'[x] # Idle
        PROVE  {job'[v].request.kind, job'[x].request.kind} \in raced'
    BY <1>1, <1>3, <2>3 DEF RInv, Met
  <2> QED
    BY <2>2, <2>3 DEF Met
<1>7. Known'
  <2> DEFINE KnownOf(v) ==
        /\ job[v].at \notin {"idle", "provision"} => DOMAIN users # {}
        /\ job[v].at = "provision" /\ ~ job[v].read => DOMAIN users # {}
        /\ job[v] # Idle => job[v].ctx.sub \in User /\ job[v].request \in Request
        /\ job[v] # Idle => Named(job[v].request) \subseteq born
        /\ job[v].at = "delete_members" => job[v].request.group \notin groups
        /\ job[v].at = "first_admin" => job[v].read \in born
  <2>1. ASSUME NEW v \in Worker \ {w}
        PROVE  KnownOf(v)'
    BY <1>1, <1>3 DEF RInv, Known
  <2>2. ~ j.read => DOMAIN users # {}
    BY <1>2
  <2>3. KnownOf(w)'
    BY <1>1, <1>2, <1>3, <2>2
  <2> QED
    BY <1>1, <2>1, <2>3 DEF RInv, Known
<1> QED
  BY <1>4, <1>5, <1>6, <1>7 DEF RInv

LEMMA RInvAbandon ==
  ASSUME RInv, NEW w \in Worker, Abandon(w)
  PROVE  RInv'
<1>1. JobShape' /\ OthersStay(w) /\ job'[w] = Idle /\ job'[w].at = "idle"
  BY FinishFacts DEF Abandon, RInv
<1>2. UNCHANGED <<users, groups, member, born, raced>> /\ failures' = failures + 1
  BY DEF Abandon, stored
<1>3. Places' /\ Met'
  BY <1>1, <1>2 DEF OthersStay, RInv, Places, Met
<1>4. Known'
  BY <1>1, <1>2 DEF OthersStay, RInv, Known
<1> QED
  BY <1>1, <1>3, <1>4 DEF RInv

LEMMA RInvNext ==
  ASSUME RInv, [Next]_vars
  PROVE  RInv'
<1>1. CASE UNCHANGED vars
  BY <1>1 DEF vars, stored, bounds, RInv, JobShape, Places, Met, Known
<1>2. CASE Next
  BY <1>2, RInvHandle, RInvReceive, RInvAbandon DEF Next
<1> QED
  BY <1>1, <1>2

-------------------------------------------------------------------------------
(* SomeSuperAdmin *)

\* What r leaves, or does not take, is a super admin's role of somebody.
LeavesOne(r) == "super_admin" \in r.roles \/ \E v \in Supers : v # r.user

\* The roles about to be set leave somebody a super admin.
SInv ==
  site_admins = {} /\ failures = 0 /\ NoRace("patch_user", "patch_user") =>
    /\ DOMAIN users # {} => Supers # {}
    /\ \A w \in Worker : job[w].at = "set_roles" => LeavesOne(job[w].request)

\* The configuration stays; failures and races are not forgotten.
LEMMA Remembered ==
  ASSUME RInv, [Next]_vars
  PROVE  /\ site_admins' = site_admins /\ raced \subseteq raced'
         /\ failures' = 0 => failures = 0
<1>1. CASE UNCHANGED vars
  BY <1>1 DEF vars, stored, bounds
<1>2. ASSUME NEW w \in Worker, Handle(w)
      PROVE  /\ site_admins' = site_admins /\ raced \subseteq raced'
             /\ failures' = 0 => failures = 0
  BY <1>2, Frames DEF RInv, Known
<1>3. ASSUME NEW w \in Worker, (\E u \in User, r \in Request : Receive(w, u, r)) \/ Abandon(w)
      PROVE  /\ site_admins' = site_admins /\ raced \subseteq raced'
             /\ failures' = 0 => failures = 0
  BY <1>3 DEF Receive, Abandon, stored, RInv, Known
<1> QED
  BY <1>1, <1>2, <1>3 DEF Next

\* Two requests of kinds that never met are one.
LEMMA Alone ==
  ASSUME RInv, NEW v \in Worker, NEW w \in Worker, job[v] # Idle, job[w] # Idle,
         NoRace(job[v].request.kind, job[w].request.kind)
  PROVE  v = w
  BY DEF RInv, Met, NoRace

\* Only these bring a request to where it sets roles; they have looked.
LEMMA Looked ==
  ASSUME RInv, NEW w \in Worker, Handle(w), failures' = 0, Supers # {},
         job'[w].at = "set_roles"
  PROVE  LeavesOne(job[w].request)
<1>1. /\ job'[w] # Idle
      /\ \/ job[w].at = "memberships" /\ job'[w].at = FirstOf(job[w].request)
         \/ At(w, "find_target") \/ At(w, "count_supers")
  BY HandleAdvances DEF RInv, Advances, Moves, At, Idle
<1>2. CASE job[w].at = "memberships" /\ job'[w].at = FirstOf(job[w].request)
  BY <1>2 DEF FirstOf, LeavesOne
<1>3. CASE At(w, "find_target")
  <2>1. job[w].request.user \notin Supers
    <3>1. CASE failures' = failures + 1
      BY <3>1 DEF RInv, Known
    <3>2. CASE Move(w, IF job[w].request.user \in Supers THEN "count_supers" ELSE "set_roles")
      BY <3>2, GoFacts DEF Move, RInv
    <3> QED
      BY <1>3, <3>1, <3>2, ByLabel DEF FindTarget
  <2> QED
    BY <2>1 DEF LeavesOne
<1>4. CASE At(w, "count_supers")
  <2>1. ~ (Cardinality(Supers) <= 1)
    <3>1. CASE Finish(w)
      BY <1>1, <3>1, FinishFacts DEF RInv
    <3> QED
      BY <1>4, <3>1, ByLabel DEF CountSupers
  <2> SUFFICES ASSUME \A v \in Supers : v = job[w].request.user
               PROVE  FALSE
    BY DEF LeavesOne
  <2>2. Supers = {job[w].request.user}
    OBVIOUS
  <2>3. Cardinality({job[w].request.user}) = 1
    BY FS_Singleton, Zenon
  <2> QED
    BY <2>1, <2>2, <2>3
<1> QED
  BY <1>1, <1>2, <1>3, <1>4

LEMMA SInvInit == Init => SInv
<1> SUFFICES ASSUME Init, site_admins = {}
             PROVE  SInv
  BY DEF SInv
<1>1. DOMAIN users # {} => Supers # {}
  BY SeedAssumption DEF Init, Supers
<1>2. \A w \in Worker : job[w].at # "set_roles"
  BY DEF Init, Idle
<1> QED
  BY <1>1, <1>2 DEF SInv

LEMMA SInvNext ==
  ASSUME RInv, SInv, [Next]_vars
  PROVE  SInv'
<1> SUFFICES ASSUME site_admins' = {}, failures' = 0, NoRace("patch_user", "patch_user")'
             PROVE  /\ DOMAIN users' # {} => Supers' # {}
                    /\ \A w \in Worker : job'[w].at = "set_roles" => LeavesOne(job[w].request)'
  BY DEF SInv
<1>1. /\ site_admins = {} /\ NoRace("patch_user", "patch_user")
      /\ DOMAIN users # {} => Supers # {}
      /\ \A w \in Worker : job[w].at = "set_roles" => LeavesOne(job[w].request)
  BY Remembered DEF SInv, NoRace, LeavesOne
<1>2. CASE UNCHANGED vars
  BY <1>1, <1>2 DEF vars, stored, Supers, LeavesOne
<1>3. ASSUME NEW w \in Worker, (\E u \in User, r \in Request : Receive(w, u, r)) \/ Abandon(w)
      PROVE  /\ DOMAIN users' # {} => Supers' # {}
             /\ \A v \in Worker : job'[v].at = "set_roles" => LeavesOne(job[v].request)'
  <2>1. users' = users
    BY <1>3 DEF Receive, Abandon, stored
  <2>2. ASSUME NEW v \in Worker, job'[v].at = "set_roles"
        PROVE  job'[v] = job[v]
    BY <1>3, <2>2 DEF RInv, JobShape, Receive, Abandon, Finish, Idle
  <2> QED
    BY <1>1, <2>1, <2>2 DEF Supers, LeavesOne
<1>4. ASSUME NEW w \in Worker, Handle(w)
      PROVE  /\ DOMAIN users' # {} => Supers' # {}
             /\ \A v \in Worker : job'[v].at = "set_roles" => LeavesOne(job[v].request)'
  <2>1. Advances(w) /\ job[w] # Idle /\ job[w].at # "idle"
    BY <1>4, HandleAdvances, Busy DEF RInv
  <2>2. ASSUME Supers \subseteq Supers', DOMAIN users # {} \/ Supers' # {}
        PROVE  /\ DOMAIN users' # {} => Supers' # {}
               /\ \A v \in Worker : job'[v].at = "set_roles" => LeavesOne(job[v].request)'
    <3>1. ASSUME NEW v \in Worker, job'[v].at = "set_roles"
          PROVE  LeavesOne(job[v].request)'
      <4>1. CASE v = w
        <5>1. job'[w].request = job[w].request /\ job[w].at # "provision"
          BY <2>1, <3>1, <4>1 DEF Advances, Moves, Idle
        <5>2. LeavesOne(job[w].request)
          BY <1>1, <1>4, <2>1, <3>1, <4>1, <5>1, Looked DEF RInv, Known
        <5> QED
          BY <2>2, <4>1, <5>1, <5>2 DEF LeavesOne
      <4>2. CASE v # w
        BY <1>1, <2>1, <2>2, <3>1, <4>2 DEF Advances, OthersStay, LeavesOne
      <4> QED
        BY <4>1, <4>2
    <3>2. Supers' # {}
      BY <1>1, <2>2
    <3> QED
      BY <3>1, <3>2
  <2>3. CASE users' = users
    <3>1. Supers' = Supers
      BY <2>3 DEF Supers
    <3>2. CASE DOMAIN users = {}
      <4>1. job[w].at = "provision"
        BY <2>1, <3>2 DEF RInv, Known
      <4> QED
        BY <1>4, <2>3, <3>2, <4>1, StoreGrows DEF At
    <3> QED
      BY <2>2, <3>1, <3>2
  <2>4. CASE Provision(w)
    <3> DEFINE u == job[w].ctx.sub
    <3>1. Supers \subseteq Supers'
      BY <2>4 DEF Supers, Provision, Insert
    <3>2. CASE DOMAIN users = {}
      <4>1. job[w].read
        BY <2>4, <3>2 DEF RInv, Known, Provision, At
      <4>2. u \in DOMAIN users' /\ users'[u] = {"super_admin"}
        BY <1>1, <2>4, <3>2, <4>1 DEF Provision, Insert
      <4> QED
        BY <2>2, <3>1, <4>2 DEF Supers
    <3> QED
      BY <2>2, <3>1, <3>2
  <2>5. CASE Upgrade(w)
    <3>1. Supers \subseteq Supers'
      BY <2>5 DEF Supers, Upgrade
    <3>2. DOMAIN users # {}
      BY <2>5 DEF RInv, Known, Upgrade, At
    <3> QED
      BY <2>2, <3>1, <3>2
  <2>6. CASE SetRoles(w)
    <3> DEFINE r == job[w].request
    <3>1. /\ users' = [u \in DOMAIN users |-> IF u = r.user THEN r.roles ELSE users[u]]
          /\ At(w, "set_roles")
      BY <2>6 DEF SetRoles
    <3>2. DOMAIN users # {} /\ LeavesOne(r) /\ r.kind = "patch_user" /\ Supers # {}
      BY <1>1, <3>1 DEF At, RInv, Known, Places
    <3>3. CASE "super_admin" \in r.roles
      <4>1. Supers \subseteq Supers'
        BY <3>1, <3>3 DEF Supers
      <4> QED
        BY <2>2, <3>2, <4>1
    <3>4. CASE "super_admin" \notin r.roles
      <4>1. PICK x \in Supers : x # r.user
        BY <3>2, <3>4 DEF LeavesOne
      <4>2. x \in Supers'
        BY <3>1, <4>1 DEF Supers
      <4>3. ASSUME NEW v \in Worker, job'[v].at = "set_roles"
            PROVE  FALSE
        <5>1. job'[w] = Idle /\ job'[w].at = "idle"
          BY <2>6, FinishFacts DEF SetRoles, RInv
        <5>2. v # w
          BY <4>3, <5>1
        <5>3. job[v].at = "set_roles" /\ job[v] # Idle /\ job[v].request.kind = "patch_user"
          BY <2>1, <4>3, <5>2 DEF Advances, OthersStay, RInv, Places, Idle
        <5> QED
          BY <1>1, <2>1, <3>2, <5>2, <5>3, Alone
      <4> QED
        BY <4>2, <4>3
    <3> QED
      BY <3>3, <3>4
  <2> QED
    BY <1>4, <2>3, <2>4, <2>5, <2>6, Frames
<1> QED
  BY <1>2, <1>3, <1>4 DEF Next

\* SomeSuperAdmin: the first of the users of a fresh deployment, however many come at
\* once, becomes a super admin (provision_user), and patch_user's count keeps the last
\* one as long as role changes come one at a time.
THEOREM SomeSuperAdminStays == Spec => []SomeSuperAdmin
<1>1. Init => RInv /\ SInv
  BY RInvInit, SInvInit
<1>2. RInv /\ SInv /\ [Next]_vars => RInv' /\ SInv'
  BY RInvNext, SInvNext
<1>3. SInv => SomeSuperAdmin
  BY DEF SInv, SomeSuperAdmin
<1> QED
  BY <1>1, <1>2, <1>3, PTL DEF Spec


-------------------------------------------------------------------------------
(* NoStrayMembers *)

\* A row is of a group that is there, or about to be removed with its group.
Placed(row) ==
  \/ row[1] \in groups
  \/ \E w \in Worker : At(w, "delete_members") /\ job[w].request.group = row[1]

\* Whoever is about to join, or to be the first admin, joins a group that is there.
Joins(w) ==
  /\ At(w, "join") => job[w].request.group \in groups
  /\ At(w, "first_admin") => job[w].read \in groups

MInv ==
  failures = 0 /\ NoRace("delete_group", "add_member") /\ NoRace("delete_group", "create_group") =>
    (\A row \in DOMAIN member : Placed(row)) /\ \A w \in Worker : Joins(w)

\* What no step of another request disturbs.
LEMMA OthersKept ==
  ASSUME RInv, NEW w \in Worker, Handle(w), NEW v \in Worker, v # w
  PROVE  job'[v] = job[v]
  BY HandleAdvances DEF RInv, Advances, OthersStay

LEMMA MInvInit == Init => MInv
<1> SUFFICES ASSUME Init
             PROVE  MInv
  OBVIOUS
<1>1. \A row \in DOMAIN member : row[1] \in groups
  BY SeedAssumption DEF Init
<1>2. \A w \in Worker : ~ At(w, "join") /\ ~ At(w, "first_admin")
  BY DEF Init, Idle, At
<1> QED
  BY <1>1, <1>2 DEF MInv, Placed, Joins

LEMMA JoinsStays ==
  ASSUME RInv, NEW w \in Worker, Handle(w), \A v \in Worker : Joins(v),
         NoRace("delete_group", "add_member"), NoRace("delete_group", "create_group")
  PROVE  \A v \in Worker : Joins(v)'
<1> SUFFICES ASSUME NEW v \in Worker
             PROVE  Joins(v)'
  OBVIOUS
<1>1. CASE v # w
  <2>1. job'[v] = job[v]
    BY <1>1, OthersKept
  <2>2. CASE DeleteGroup(w)
    <3>1. job[w].request.kind = "delete_group" /\ job[w] # Idle
      BY <2>2, Busy DEF RInv, Places, DeleteGroup, At
    <3>2. At(v, "join") \/ At(v, "first_admin") =>
            job[v] # Idle /\ job[v].request.kind \in {"add_member", "create_group"}
      BY DEF RInv, Places, At, Idle
    <3>3. ~ At(v, "join") /\ ~ At(v, "first_admin")
      BY <1>1, <3>1, <3>2, Alone
    <3> QED
      BY <2>1, <3>3 DEF Joins, At
  <2>3. CASE groups \subseteq groups'
    BY <2>1, <2>3 DEF Joins, At
  <2>4. CASE InsertGroup(w)
    BY <2>3, <2>4 DEF InsertGroup
  <2> QED
    BY <2>2, <2>3, <2>4, Frames
<1>2. CASE v = w
  <2>1. CASE At(w, "join")'
    <3>1. At(w, "find_group") /\ job'[w] # Idle /\ job'[w].request = job[w].request
      BY <2>1, HandleAdvances DEF RInv, Advances, Moves, At, Idle, FirstOf
    <3>2. job[w].request.group \in groups /\ groups' = groups
      <4>1. ~ Finish(w)
        BY <3>1, FinishFacts DEF RInv
      <4> QED
        BY <3>1, <4>1, ByLabel DEF FindGroup, stored
    <3> QED
      BY <1>2, <2>1, <3>1, <3>2 DEF Joins, At
  <2>2. CASE At(w, "first_admin")'
    <3>1. At(w, "insert_group")
      BY <2>2, HandleAdvances DEF RInv, Advances, Moves, At, Idle, FirstOf
    <3>2. PICK g : groups' = groups \cup {g} /\ Found(w, "first_admin", g)
      BY <3>1, ByLabel DEF InsertGroup
    <3>3. job'[w].read = g
      BY <3>2, GoFacts DEF Found, RInv
    <3> QED
      BY <1>2, <2>2, <3>2, <3>3 DEF Joins, At
  <2> QED
    BY <1>2, <2>1, <2>2 DEF Joins, At
<1> QED
  BY <1>1, <1>2

LEMMA PlacedStays ==
  ASSUME RInv, NEW w \in Worker, Handle(w), \A v \in Worker : Joins(v),
         \A row \in DOMAIN member : Placed(row)
  PROVE  \A row \in DOMAIN member' : Placed(row)'
<1>1. CASE DeleteGroup(w)
  <2>1. member' = member /\ groups' = groups \ {job[w].request.group}
    BY <1>1 DEF DeleteGroup
  <2>2. At(w, "delete_members")' /\ job'[w].request = job[w].request
    BY <1>1, GoFacts DEF DeleteGroup, Move, At, RInv
  <2>3. ASSUME NEW v \in Worker, At(v, "delete_members")
        PROVE  At(v, "delete_members")' /\ job'[v] = job[v]
    <3>1. v # w
      BY <1>1, <2>3 DEF DeleteGroup, At
    <3> QED
      BY <2>3, <3>1, OthersKept DEF At
  <2> QED
    BY <2>1, <2>2, <2>3 DEF Placed
<1>2. CASE DeleteMembers(w)
  <2> DEFINE g == job[w].request.group
  <2>1. groups' = groups /\ DOMAIN member' = DOMAIN member \ ({g} \X User)
    BY <1>2 DEF DeleteMembers, Without
  <2>2. ASSUME NEW row \in DOMAIN member'
        PROVE  row \in DOMAIN member /\ row[1] # g
    BY <2>1 DEF RInv, Known
  <2>3. ASSUME NEW v \in Worker, At(v, "delete_members"), job[v].request.group # g
        PROVE  At(v, "delete_members")' /\ job'[v] = job[v]
    <3>1. v # w
      BY <2>3
    <3> QED
      BY <2>3, <3>1, OthersKept DEF At
  <2> HIDE DEF g
  <2> QED
    BY <2>1, <2>2, <2>3 DEF Placed
<1>3. CASE ~ DeleteGroup(w) /\ ~ DeleteMembers(w)
  <2>1. groups \subseteq groups'
    <3>1. CASE InsertGroup(w)
      BY <3>1 DEF InsertGroup
    <3> QED
      BY <1>3, <3>1, Frames
  <2>2. ASSUME NEW v \in Worker, At(v, "delete_members")
        PROVE  At(v, "delete_members")' /\ job'[v] = job[v]
    <3>1. v # w
      BY <1>3, <2>2, ByLabel
    <3> QED
      BY <2>2, <3>1, OthersKept DEF At
  <2>3. ASSUME NEW row \in DOMAIN member
        PROVE  Placed(row)'
    BY <2>1, <2>2 DEF Placed
  <2>4. CASE FirstAdmin(w)
    <3>1. /\ job[w].read \in groups
          /\ DOMAIN member' \subseteq DOMAIN member \cup {<<job[w].read, job[w].ctx.sub>>}
      BY <2>4 DEF FirstAdmin, Insert, Joins
    <3> QED
      BY <2>1, <2>3, <3>1 DEF Placed
  <2>5. CASE JoinGroup(w)
    <3>1. /\ job[w].request.group \in groups
          /\ DOMAIN member' \subseteq
               DOMAIN member \cup {<<job[w].request.group, job[w].request.user>>}
      BY <2>5 DEF JoinGroup, Insert, Joins
    <3> QED
      BY <2>1, <2>3, <3>1 DEF Placed
  <2>6. CASE Leave(w)
    <3>1. DOMAIN member' \subseteq DOMAIN member
      BY <2>6 DEF Leave, Without
    <3> QED
      BY <2>3, <3>1
  <2> QED
    BY <1>3, <2>3, <2>4, <2>5, <2>6, Frames
<1> QED
  BY <1>1, <1>2, <1>3

LEMMA MInvNext ==
  ASSUME RInv, MInv, [Next]_vars
  PROVE  MInv'
<1> SUFFICES ASSUME failures' = 0, NoRace("delete_group", "add_member")',
                    NoRace("delete_group", "create_group")'
             PROVE  (\A row \in DOMAIN member' : Placed(row)') /\ \A w \in Worker : Joins(w)'
  BY DEF MInv
<1>1. /\ NoRace("delete_group", "add_member") /\ NoRace("delete_group", "create_group")
      /\ failures = 0
      /\ \A row \in DOMAIN member : Placed(row)
      /\ \A w \in Worker : Joins(w)
  BY Remembered DEF MInv, NoRace, Placed, Joins
<1>2. CASE UNCHANGED vars
  BY <1>1, <1>2 DEF vars, stored, Placed, Joins, At
<1>3. ASSUME NEW w \in Worker, NEW u \in User, NEW r \in Request, Receive(w, u, r)
      PROVE  (\A row \in DOMAIN member' : Placed(row)') /\ \A v \in Worker : Joins(v)'
  <2>1. member' = member /\ groups' = groups
    BY <1>3 DEF Receive, stored
  <2>2. /\ job[w].at = "idle" /\ job'[w].at = "provision"
        /\ \A v \in Worker \ {w} : job'[v] = job[v]
    BY <1>3 DEF RInv, JobShape, Receive, Idle
  <2> QED
    BY <1>1, <2>1, <2>2 DEF Placed, Joins, At
<1>4. ASSUME NEW w \in Worker, Abandon(w)
      PROVE  FALSE
  BY <1>1, <1>4 DEF Abandon
<1> QED
  BY <1>1, <1>2, <1>3, <1>4, JoinsStays, PlacedStays DEF Next

\* NoStrayMembers: delete_group_cascade, which removes the group before its members,
\* leaves none of them behind, unless a request that adds one was in progress with it.
THEOREM NoStraysLeft == Spec => []NoStrayMembers
<1>1. Init => RInv /\ MInv
  BY RInvInit, MInvInit
<1>2. RInv /\ MInv /\ [Next]_vars => RInv' /\ MInv'
  BY RInvNext, MInvNext
<1>3. MInv => NoStrayMembers
  BY DEF MInv, Placed, NoStrayMembers, At, Idle
<1> QED
  BY <1>1, <1>2, <1>3, PTL DEF Spec

-------------------------------------------------------------------------------
(* LastAdminStays *)

\* Who leaves leaves an admin behind, or is none, or the group is gone.
Leaves(w) ==
  LET r == job[w].request
  IN  At(w, "leave") =>
        r.group \notin groups \/ r.user \notin Admins(r.group)
          \/ \E v \in Admins(r.group) : v # r.user

LInv ==
  /\ failures = 0
  /\ NoRace("remove_member", "remove_member") /\ NoRace("remove_member", "add_member")
  /\ NoRace("remove_member", "create_group")
  => \A w \in Worker : Leaves(w)

\* The admins of a group stay when the rows of others change.
LEMMA AdminsOf ==
  ASSUME NEW g, NEW K, member' = Without(member, K), \A u \in User : <<g, u>> \notin K
  PROVE  Admins(g)' = Admins(g)
<1>1. ASSUME NEW u \in User
      PROVE  /\ <<g, u>> \in DOMAIN member' <=> <<g, u>> \in DOMAIN member
             /\ <<g, u>> \in DOMAIN member => member'[<<g, u>>] = member[<<g, u>>]
  BY DEF Without
<1> QED
  BY <1>1 DEF Admins

\* A row that is inserted takes no admin away but by its flag.
LEMMA AdminsGrow ==
  ASSUME NEW g, NEW row, NEW flag, member' = Insert(member, row, flag)
  PROVE  \A u \in Admins(g) : (row = <<g, u>> /\ ~ flag) \/ u \in Admins(g)'
  BY DEF Admins, Insert

LEMMA LInvInit == Init => LInv
  BY DEF Init, Idle, At, LInv, Leaves

\* find_member and count_admins have looked at the admins the group has now.
LEMMA LeavesLooked ==
  ASSUME RInv, NEW w \in Worker, Handle(w), failures' = 0, At(w, "leave")'
  PROVE  Leaves(w)'
<1> DEFINE r == job[w].request
<1>1. /\ At(w, "find_member") \/ At(w, "count_admins")
      /\ job'[w] # Idle /\ job'[w].request = r
  BY HandleAdvances DEF RInv, Advances, Moves, At, Idle, FirstOf
<1>2. CASE At(w, "find_member")
  <2>1. FindMember(w) /\ UNCHANGED stored
    BY <1>2, ByLabel DEF FindMember
  <2>2. r.user \notin Admins(r.group)
    <3>1. failures' # failures + 1
      BY DEF RInv, Known
    <3>2. Move(w, IF r.user \in Admins(r.group) THEN "count_admins" ELSE "leave")
      BY <2>1, <3>1 DEF FindMember
    <3> QED
      BY <3>2, GoFacts DEF Move, RInv, At
  <2> QED
    BY <1>1, <2>1, <2>2 DEF Leaves, Admins, stored
<1>3. CASE At(w, "count_admins")
  <2>1. CountAdmins(w) /\ UNCHANGED stored
    BY <1>3, ByLabel DEF CountAdmins
  <2>2. ~ (Cardinality(Admins(r.group)) <= 1)
    <3>1. ~ Finish(w)
      BY <1>1, FinishFacts DEF RInv
    <3> QED
      BY <2>1, <3>1 DEF CountAdmins
  <2>3. \E v \in Admins(r.group) : v # r.user
    <3> SUFFICES ASSUME Admins(r.group) = {} \/ Admins(r.group) = {r.user}
                 PROVE  FALSE
      OBVIOUS
    <3>1. Cardinality({}) = 0
      BY FS_EmptySet, Zenon
    <3>2. Cardinality({r.user}) = 1
      BY FS_Singleton, Zenon
    <3> QED
      BY <2>2, <3>1, <3>2
  <2> QED
    BY <1>1, <2>1, <2>3 DEF Leaves, Admins, stored
<1> QED
  BY <1>1, <1>2, <1>3

LEMMA LeavesStays ==
  ASSUME RInv, NEW w \in Worker, Handle(w), NEW v \in Worker, v # w, Leaves(v),
         NoRace("remove_member", "remove_member"), NoRace("remove_member", "add_member"),
         NoRace("remove_member", "create_group")
  PROVE  Leaves(v)'
<1> SUFFICES ASSUME At(v, "leave")
             PROVE  Leaves(v)'
  BY OthersKept DEF Leaves, At
<1> PICK g : g = job[v].request.group
  OBVIOUS
<1>1. job'[v] = job[v] /\ g \in born /\ job[v].request.kind = "remove_member" /\ job[v] # Idle
  BY OthersKept, NamedGroup DEF RInv, Places, At, Idle
<1>2. g \notin groups => g \notin groups'
  BY <1>1, StoreGrows
<1>3. job[w] # Idle /\ job[w].request.kind \notin {"remove_member", "add_member", "create_group"}
  BY <1>1, Alone, Busy
<1>4. ~ FirstAdmin(w) /\ ~ JoinGroup(w) /\ ~ Leave(w)
  <2>1. FirstAdmin(w) => job[w].request.kind = "create_group"
    BY DEF RInv, Places, FirstAdmin, At
  <2>2. JoinGroup(w) => job[w].request.kind = "add_member"
    BY DEF RInv, Places, JoinGroup, At
  <2>3. Leave(w) => job[w].request.kind = "remove_member"
    BY DEF RInv, Places, Leave, At
  <2> QED
    BY <1>3, <2>1, <2>2, <2>3
<1>5. CASE member' = member
  BY <1>1, <1>2, <1>5 DEF Leaves, Admins
<1>6. CASE DeleteMembers(w)
  <2>1. /\ member' = Without(member, {job[w].request.group} \X User)
        /\ groups' = groups
        /\ job[w].request.group \notin groups
    BY <1>6 DEF DeleteMembers, RInv, Known, At
  <2>2. CASE g = job[w].request.group
    BY <1>1, <2>1, <2>2 DEF Leaves
  <2>3. CASE g # job[w].request.group
    <3>1. Admins(g)' = Admins(g)
      <4> DEFINE K == {job[w].request.group} \X User
      <4>1. member' = Without(member, K) /\ \A u \in User : <<g, u>> \notin K
        BY <2>1, <2>3
      <4> HIDE DEF K
      <4> QED
        BY <4>1, AdminsOf
    <3> QED
      BY <1>1, <2>1, <3>1 DEF Leaves
  <2> QED
    BY <2>2, <2>3
<1> QED
  BY <1>4, <1>5, <1>6, Frames

LEMMA LInvNext ==
  ASSUME RInv, LInv, [Next]_vars
  PROVE  LInv'
<1> SUFFICES ASSUME failures' = 0, NoRace("remove_member", "remove_member")',
                    NoRace("remove_member", "add_member")',
                    NoRace("remove_member", "create_group")',
                    NEW v \in Worker
             PROVE  Leaves(v)'
  BY DEF LInv
<1>1. /\ NoRace("remove_member", "remove_member") /\ NoRace("remove_member", "add_member")
      /\ NoRace("remove_member", "create_group")
      /\ failures = 0 /\ Leaves(v)
  BY Remembered DEF LInv, NoRace, Leaves
<1>2. CASE UNCHANGED vars
  BY <1>1, <1>2 DEF vars, stored, Leaves, Admins, At
<1>3. ASSUME NEW w \in Worker, NEW u \in User, NEW r \in Request, Receive(w, u, r)
      PROVE  Leaves(v)'
  <2>1. member' = member /\ groups' = groups
    BY <1>3 DEF Receive, stored
  <2>2. /\ job'[w].at = "provision"
        /\ \A x \in Worker \ {w} : job'[x] = job[x]
    BY <1>3 DEF RInv, JobShape, Receive, Idle
  <2> QED
    BY <1>1, <2>1, <2>2 DEF Leaves, Admins, At
<1>4. ASSUME NEW w \in Worker, Abandon(w)
      PROVE  FALSE
  BY <1>1, <1>4 DEF Abandon
<1>5. ASSUME NEW w \in Worker, Handle(w)
      PROVE  Leaves(v)'
  <2>1. CASE v # w
    BY <1>1, <1>5, <2>1, LeavesStays
  <2>2. CASE v = w /\ At(w, "leave")'
    BY <1>5, <2>2, LeavesLooked
  <2>3. CASE v = w /\ ~ At(w, "leave")'
    BY <2>3 DEF Leaves
  <2> QED
    BY <2>1, <2>2, <2>3
<1> QED
  BY <1>2, <1>3, <1>4, <1>5 DEF Next

\* What takes the last admin from a group that stays.
LEMMA LastAdminStep ==
  ASSUME RInv, LInv, [Next]_vars, failures' = 0, NoRace("remove_member", "remove_member"),
         NoRace("remove_member", "add_member"), NoRace("remove_member", "create_group"),
         NEW g \in groups', Admins(g) # {}, Admins(g)' = {}
  PROVE  \E w \in Worker : JoinGroup(w) /\ ~ job[w].request.admin
<1>1. failures = 0
  BY Remembered
<1>2. member' # member
  BY DEF Admins
<1>3. PICK w \in Worker : Handle(w)
  BY <1>2 DEF Next, vars, stored, Receive, Abandon
<1>4. CASE FirstAdmin(w)
  <2>1. member' = Insert(member, <<job[w].read, job[w].ctx.sub>>, TRUE)
    BY <1>2, <1>4 DEF FirstAdmin
  <2> QED
    BY <2>1, AdminsGrow
<1>5. CASE JoinGroup(w)
  <2> DEFINE r == job[w].request
             row == <<r.group, r.user>>
  <2>1. member' = Insert(member, row, r.admin)
    BY <1>5 DEF JoinGroup
  <2> HIDE DEF row
  <2>2. ~ r.admin
    BY <2>1, AdminsGrow
  <2> QED
    BY <1>5, <2>2
<1>6. CASE DeleteMembers(w)
  <2>1. /\ member' = Without(member, {job[w].request.group} \X User)
        /\ job[w].request.group \notin groups /\ groups' = groups
    BY <1>6 DEF DeleteMembers, RInv, Known, At
  <2>2. \A u \in User : <<g, u>> \notin {job[w].request.group} \X User
    BY <2>1
  <2> QED
    BY <2>1, <2>2, AdminsOf
<1>7. CASE Leave(w)
  <2> DEFINE r == job[w].request
  <2>1. /\ member' = Without(member, {<<r.group, r.user>>}) /\ groups' = groups
        /\ At(w, "leave")
    BY <1>7 DEF Leave
  <2>2. Leaves(w)
    BY <1>1 DEF LInv, Leaves
  <2>3. ASSUME NEW u \in Admins(g), u # r.user \/ g # r.group
        PROVE  u \in Admins(g)'
    BY <2>1, <2>3 DEF Admins, Without
  <2> QED
    BY <2>1, <2>2, <2>3 DEF Leaves
<1> QED
  BY <1>2, <1>3, <1>4, <1>5, <1>6, <1>7, Frames

\* LastAdminStays: remove_group_member's count keeps the last admin of a group, in any
\* interleaving with requests other than those that change its members.
THEOREM LastAdminKept == Spec => LastAdminStays
<1>1. Init => RInv /\ LInv
  BY RInvInit, LInvInit
<1>2. RInv /\ LInv /\ [Next]_vars => RInv' /\ LInv'
  BY RInvNext, LInvNext
<1>3. RInv /\ LInv /\ [Next]_vars =>
        [ /\ failures' = 0
          /\ NoRace("remove_member", "remove_member") /\ NoRace("remove_member", "add_member")
          /\ NoRace("remove_member", "create_group")
          =>
            \A g \in groups' :
              Admins(g) # {} /\ Admins(g)' = {} =>
                \E w \in Worker : JoinGroup(w) /\ ~ job[w].request.admin ]_vars
  BY LastAdminStep
<1> QED
  BY <1>1, <1>2, <1>3, PTL DEF Spec, LastAdminStays

===============================================================================
