---------------------------- MODULE MCAccessControl ----------------------------
(***************************************************************************)
(* A small instance of AccessControl: two users, two groups, one stream,   *)
(* two filters, two requests in progress at once.                          *)
(***************************************************************************)
EXTENDS AccessControl, TLC

CONSTANTS root, ann, g1, g2, s1, f1, f2, w1, w2

Fresh ==
  [ site_admins |-> {}, users |-> <<>>, groups |-> {}, member |-> <<>>, groupStreams |-> {},
    streamUsers |-> {}, filters |-> <<>> ]

\* root made both groups and made ann an admin of the first, which has the
\* stream; ann has a private filter.
Settled ==
  [ site_admins |-> {},
    users |-> [u \in {root, ann} |-> IF u = root THEN {"super_admin"} ELSE {"full_user"}],
    groups |-> {g1, g2},
    member |-> [row \in {<<g1, root>>, <<g1, ann>>, <<g2, root>>} |-> TRUE],
    groupStreams |-> {<<g1, s1>>},
    streamUsers |-> {<<s1, ann>>},
    filters |-> [f \in {f1} |-> [owner |-> ann, group |-> NoGroup, streams |-> {}]] ]

\* ann, the only user, has since been made a site admin in the configuration.
Upgraded ==
  [Fresh EXCEPT !.site_admins = {ann}, !.users = [u \in {ann} |-> {"full_user"}]]

\* Requests in progress are alike.
WorkerSymmetry == Permutations({w1, w2})

MCSeed == {Fresh, Settled, Upgraded}

Change(filter, change) == [kind |-> "patch_filter", filter |-> filter, change |-> change]

MCRequest ==
  { [kind |-> "patch_user", user |-> root, roles |-> {"view_only"}],
    [kind |-> "patch_user", user |-> ann, roles |-> {"super_admin"}],
    [kind |-> "create_group"],
    [kind |-> "delete_group", group |-> g1],
    [kind |-> "add_member", group |-> g1, user |-> ann, admin |-> FALSE],
    [kind |-> "remove_member", group |-> g1, user |-> ann],
    [kind |-> "remove_member", group |-> g1, user |-> root],
    [kind |-> "add_stream", group |-> g2, stream |-> s1],
    [kind |-> "remove_stream", group |-> g1, stream |-> s1],
    [kind |-> "grant_stream", stream |-> s1, user |-> root],
    [kind |-> "create_filter", group |-> g1, streams |-> {s1}],
    Change(f1, [group |-> g1, streams |-> {s1}]),
    Change(f1, [group |-> g2]),
    [kind |-> "delete_filter", filter |-> f1] }

===============================================================================
