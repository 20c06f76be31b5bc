------------------------------ MODULE MCRoles -------------------------------
(***************************************************************************)
(* Instances of Roles: an empty database, and one with two administrators, *)
(* one of them without the right to manage roles.                          *)
(***************************************************************************)
EXTENDS Roles, TLC

OfUsers == Permission \ {"roles.manage"}

MCDefault == [admin |-> Permission, staff |-> {"users.update"}]

MCNewAccounts ==
    {<<"bob", "eve@x", {<<"staff", "mart">>}>>, <<"eve@x", "bob@x", {<<"clerk", Nil>>}>>}

MCGrants == {<<"staff", "mart">>}

MCCodeSets == {{"users.update"}}

MCRoleChanges ==
    {<<{"users.update"}, Nil>>, <<{"roles.manage"}, FALSE>>, <<Nil, TRUE>>}

Empty == [users |-> << >>, roles |-> << >>, links |-> {}]

Running ==
    [users |-> <<[username |-> "root", email |-> Nil, status |-> "active"],
                 [username |-> "ann", email |-> "ann@x", status |-> "active"]>>,
     roles |-> [admin |-> [codes |-> Permission, active |-> TRUE, system |-> TRUE],
                staff |-> [codes |-> OfUsers, active |-> TRUE, system |-> FALSE]],
     links |-> {[id |-> -1, user |-> 1, role |-> "admin", scope |-> Nil],
                [id |-> 0, user |-> 2, role |-> "staff", scope |-> Nil]}]

MCWorlds == {Empty, Running}

Sessions == Permutations(Session)
=============================================================================
