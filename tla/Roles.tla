------------------------------- MODULE Roles --------------------------------
(***************************************************************************)
(* Users, the roles they hold and the permissions of each role, as the     *)
(* administration endpoints and the seed script change them.               *)
(*                                                                         *)
(* Every request is made by a user who is checked once, when it arrives:   *)
(* active, and holding the permission of the endpoint through an active    *)
(* role.  Replacing the permissions of a role deletes the links one SELECT *)
(* returned and inserts the new ones; revoking a role deletes the links    *)
(* one SELECT returned.                                                    *)
(***************************************************************************)
EXTENDS Requests, Integers, Sequences, SequencesExt

CONSTANTS
    Identifier,   \* user names and e-mail addresses
    NewAccounts,  \* <<username, e-mail, grants>> of the accounts that may be created
    Grants,       \* <<role, scope>> that may be assigned
    CodeSets,     \* sets of permission codes a new role may be given
    RoleChanges,  \* <<codes, active>> a role may be updated with, Nil where absent
    Default,      \* DEFAULT_ROLE_PERMISSIONS: role name -> codes
    RoleNames,    \* names of roles, those of Default among them
    SuperAdmin,   \* the role and the user name of the seed's administrator
    Root,
    Worlds        \* initial tables, each a state the program reaches

ASSUME NamesAssumption ==
    /\ DOMAIN Default \subseteq RoleNames
    /\ SuperAdmin \in DOMAIN Default /\ Root \in Identifier

UserStatus == {"active", "inactive", "suspended"}

UserRow == [username : Identifier, email : Identifier \cup {Nil}, status : UserStatus]

\* The permission each endpoint requires.
Needs ==
    [create_user |-> "users.create",  update_user |-> "users.update",
     deactivate  |-> "users.deactivate", assign   |-> "users.update",
     revoke      |-> "users.update",  create_role |-> "roles.manage",
     update_role |-> "roles.manage"]

Permission == {Needs[op] : op \in DOMAIN Needs}

RoleRow == [codes : SUBSET Permission, active : BOOLEAN, system : BOOLEAN]

Scope == {g[2] : g \in Grants} \cup {Nil}

UserRoleRow == [id : Int, user : Nat \ {0}, role : RoleNames, scope : Scope]

ASSUME PayloadsAssumption ==
    /\ NewAccounts \subseteq Identifier \X Identifier \X SUBSET (RoleNames \X Scope)
    /\ Grants \subseteq RoleNames \X Scope
    /\ CodeSets \subseteq SUBSET Permission
    /\ RoleChanges \subseteq ((SUBSET Permission) \cup {Nil}) \X (BOOLEAN \cup {Nil})
    /\ \A r \in DOMAIN Default : Default[r] \subseteq Permission

\* What every table a behaviour starts from satisfies, the empty ones among them.
ASSUME WorldsAssumption == \A w \in Worlds :
    /\ w.users \in Seq(UserRow)
    /\ DOMAIN w.roles \subseteq RoleNames /\ w.roles \in [DOMAIN w.roles -> RoleRow]
    /\ w.links \subseteq UserRoleRow
    /\ \A l \in w.links : l.user \in DOMAIN w.users /\ l.role \in DOMAIN w.roles

VARIABLES
    users,    \* sequence of rows
    roles,    \* name -> row, for the roles that exist
    links,    \* user_roles, a set of rows
    history   \* what was committed, in order: the AuditLog rows with their actor and
              \* what was done, and the runs of the seed script, which leave no row

tables == <<users, roles, links, history>>
vars == <<tables, requests>>

Init ==
    /\ \E w \in Worlds : users = w.users /\ roles = w.roles /\ links = w.links
    /\ history = << >>
    /\ InitRequests

\* get_effective_permissions: the union over the active roles.
Permissions(u) ==
    UNION {roles[l.role].codes : l \in {k \in links : k.user = u /\ roles[k.role].active}}

\* A user known by the claims of a token that is still valid.
ArriveByToken(s, u, op, got, on) ==
    Arrive(s, [op |-> op, at |-> "commit", by |-> u, seen |-> Len(history),
               on |-> on \cup {<<"user", u>>}, got |-> got])

\* get_current_user and require_permission, then the first SELECTs of the handler.
ArriveBy(s, u, op, got, on) ==
    /\ users[u].status = "active"
    /\ Needs[op] \in Permissions(u)
    /\ Arrive(s, [op |-> op, at |-> "commit", by |-> u, seen |-> Len(history),
                  on |-> on \cup {<<"user", u>>}, got |-> got])

Record(s, what) ==
    history' = Append(history, [by |-> task[s].by, op |-> task[s].op, what |-> what])

\* An INSERT that a unique constraint refuses: the request answers 500.
Refused(s) == End(s) /\ UNCHANGED tables

-----------------------------------------------------------------------------
\* Users (users.py)

\* get_user_by_username_or_email; two rows raise.
Named(x) == {u \in DOMAIN users : users[u].username = x \/ users[u].email = x}

\* create_user: neither identifier finds anyone, in either column.
ArriveCreateUser(s, u, name, email, grants) ==
    /\ Named(name) = {} /\ Named(email) = {}
    /\ ArriveBy(s, u, "create_user", [name |-> name, email |-> email, grants |-> grants], {})
    /\ UNCHANGED tables

\* Two unique columns, each compared with itself; the roles granted must exist.
CommitCreateUser(s) ==
    /\ At(s, "create_user", "commit")
    /\ LET t == task[s].got
           taken == \E u \in DOMAIN users : users[u].username = t.name \/ users[u].email = t.email
           granted == {g[1] : g \in t.grants}
           new == Len(users) + 1
       IN \/ /\ ~taken /\ granted \subseteq DOMAIN roles
             /\ users' = Append(users, [username |-> t.name, email |-> t.email,
                                             status |-> "active"])
             /\ links' = links \cup {[id |-> Len(history) + 1, user |-> new, role |-> g[1],
                                      scope |-> g[2]] : g \in t.grants}
             /\ Record(s, [user |-> new, roles |-> granted])
             /\ End(s)
             /\ UNCHANGED roles
          \/ (taken \/ ~(granted \subseteq DOMAIN roles)) /\ Refused(s)

\* deactivate_user: not one's own account.
ArriveDeactivate(s, u, v) ==
    /\ v # u
    /\ ArriveBy(s, u, "deactivate", [user |-> v, loaded |-> users[v].status, new |-> "inactive"],
                {<<"user", v>>})
    /\ UNCHANGED tables

\* update_user sets a status too, of anyone.
ArriveUpdateUser(s, u, v, st) ==
    /\ ArriveBy(s, u, "update_user", [user |-> v, loaded |-> users[v].status, new |-> st],
                {<<"user", v>>})
    /\ UNCHANGED tables

CommitStatus(s) ==
    \E op \in {"deactivate", "update_user"} :
        /\ At(s, op, "commit")
        /\ LET t == task[s].got IN
           /\ users' = [users EXCEPT ![t.user].status = Assigned(t.loaded, t.new, @)]
           /\ Record(s, [user |-> t.user, status |-> t.new])
        /\ End(s)
        /\ UNCHANGED <<roles, links>>

-----------------------------------------------------------------------------
\* Roles of a user (users.py)

ArriveAssign(s, u, v, r, scope) ==
    /\ r \in DOMAIN roles
    /\ ArriveBy(s, u, "assign", [user |-> v, role |-> r, scope |-> scope], {<<"user", v>>})
    /\ UNCHANGED tables

\* uq_user_role_scope, in which NULL equals nothing.
CommitAssign(s) ==
    /\ At(s, "assign", "commit")
    /\ LET t == task[s].got
           taken == /\ t.scope # Nil
                    /\ \E l \in links : l.user = t.user /\ l.role = t.role /\ l.scope = t.scope
       IN \/ /\ ~taken
             /\ links' = links \cup {[id |-> Len(history) + 1, user |-> t.user, role |-> t.role,
                                      scope |-> t.scope]}
             /\ Record(s, [user |-> t.user, role |-> t.role])
             /\ End(s)
             /\ UNCHANGED <<users, roles>>
          \/ taken /\ Refused(s)

\* A revocation that takes one of the links.
ArriveRevokeOne(s, u, v, r) ==
    \E l \in links :
        /\ l.user = v /\ l.role = r
        /\ ArriveBy(s, u, "revoke", [user |-> v, role |-> r, read |-> {l}], {<<"user", v>>})
        /\ UNCHANGED tables

\* revoke_role reads the links of this user and role, of any scope.
ArriveRevoke(s, u, v, r) ==
    LET found == {l \in links : l.user = v /\ l.role = r} IN
    /\ found # {}
    /\ ArriveBy(s, u, "revoke", [user |-> v, role |-> r, read |-> found], {<<"user", v>>})
    /\ UNCHANGED tables

CommitRevoke(s) ==
    /\ At(s, "revoke", "commit")
    /\ links' = links \ task[s].got.read
    /\ Record(s, [user |-> task[s].got.user, role |-> task[s].got.role])
    /\ End(s)
    /\ UNCHANGED <<users, roles>>

-----------------------------------------------------------------------------
\* Permissions of a role (roles.py)

ArriveCreateRole(s, u, r, codes) ==
    /\ r \notin DOMAIN roles
    /\ ArriveBy(s, u, "create_role", [role |-> r, codes |-> codes], {<<"role", r>>})
    /\ UNCHANGED tables

CommitCreateRole(s) ==
    /\ At(s, "create_role", "commit")
    /\ LET t == task[s].got IN
       \/ /\ t.role \notin DOMAIN roles
          /\ roles' = [r \in DOMAIN roles \cup {t.role} |->
                        IF r = t.role THEN [codes |-> t.codes, active |-> TRUE, system |-> FALSE]
                        ELSE roles[r]]
          /\ Record(s, [role |-> t.role, codes |-> t.codes])
          /\ End(s)
          /\ UNCHANGED <<users, links>>
       \/ t.role \in DOMAIN roles /\ Refused(s)

\* update_role loads the role; codes or active may be absent.
ArriveUpdateRole(s, u, r, codes, active) ==
    /\ ~(roles[r].system /\ active = FALSE)
    /\ ArriveBy(s, u, "update_role",
                [role |-> r, codes |-> codes, read |-> roles[r].codes,
                 loaded |-> roles[r].active, active |-> active], {<<"role", r>>})
    /\ UNCHANGED tables

\* The links that were read are kept, the new ones added.
CommitUpdateRoleAdding(s) ==
    /\ At(s, "update_role", "commit")
    /\ LET t == task[s].got IN
       /\ roles' = [roles EXCEPT ![t.role].codes = IF t.codes = Nil THEN @ ELSE @ \cup t.codes]
       /\ Record(s, [role |-> t.role, codes |-> t.codes])
    /\ End(s)
    /\ UNCHANGED <<users, links>>

\* _sync_permissions deletes the links it read and inserts the new ones; a link
\* that another request has inserted meanwhile breaks the primary key.
CommitUpdateRole(s) ==
    /\ At(s, "update_role", "commit")
    /\ LET t == task[s].got
           r == roles[t.role]
           kept == r.codes \ t.read
           codes == IF t.codes = Nil THEN r.codes ELSE kept \cup t.codes
           taken == t.codes # Nil /\ kept \cap t.codes # {}
       IN \/ /\ ~taken
             /\ roles' = [roles EXCEPT ![t.role] =
                   [codes |-> codes, system |-> @.system,
                    active |-> IF t.active = Nil THEN @.active
                               ELSE Assigned(t.loaded, t.active, @.active)]]
             /\ Record(s, [role |-> t.role, codes |-> t.codes])
             /\ End(s)
             /\ UNCHANGED <<users, links>>
          \/ taken /\ Refused(s)

-----------------------------------------------------------------------------
\* The seed script (seed_data.py): one transaction, by nobody.

ArriveSeed(s) ==
    /\ Arrive(s, [op |-> "seed", at |-> "links", by |-> Nil, seen |-> Len(history),
                  on |-> {<<"role", r>> : r \in DOMAIN Default},
                  got |-> [found |-> DOMAIN roles, missing |-> << >>]])
    /\ UNCHANGED tables

\* seed_roles: for each default role, the codes that have no link yet.
ReadLinks(s, r) ==
    /\ At(s, "seed", "links")
    /\ LET t == task[s].got
           has == IF r \in t.found THEN roles[r].codes ELSE {}
           missing == [q \in DOMAIN t.missing \cup {r} |->
                         IF q = r THEN Default[r] \ has ELSE t.missing[q]]
       IN /\ r \in DOMAIN Default \ DOMAIN t.missing
          /\ Continue(s, [task[s] EXCEPT
                             !.got = [found |-> t.found, missing |-> missing],
                             !.at = IF DOMAIN missing = DOMAIN Default THEN "commit" ELSE @])
    /\ UNCHANGED tables

\* A seed that leaves alone the roles it found.
CommitSeedNewRolesOnly(s) ==
    /\ At(s, "seed", "commit")
    /\ roles' = [r \in DOMAIN roles \cup DOMAIN Default |->
                   IF r \in DOMAIN roles THEN roles[r]
                   ELSE [codes |-> Default[r], active |-> TRUE, system |-> r = SuperAdmin]]
    /\ history' = Append(history, [op |-> "seed", by |-> Nil, what |-> Nil])
    /\ End(s)
    /\ UNCHANGED <<users, links>>

\* The commit: missing roles, missing links, and the first administrator.
CommitSeed(s) ==
    /\ At(s, "seed", "commit")
    /\ LET t == task[s].got
           new == DOMAIN Default \ t.found
           taken == \E r \in DOMAIN Default :
                       r \in DOMAIN roles /\ (r \in new \/ roles[r].codes \cap t.missing[r] # {})
           root == \E u \in DOMAIN users : users[u].username = Root
       IN \/ /\ ~taken
             /\ roles' = [r \in DOMAIN roles \cup DOMAIN Default |->
                   IF r \notin DOMAIN Default THEN roles[r]
                   ELSE IF r \in new
                   THEN [codes |-> t.missing[r], active |-> TRUE, system |-> r = SuperAdmin]
                   ELSE [codes |-> roles[r].codes \cup t.missing[r], active |-> roles[r].active,
                         system |-> roles[r].system]]
             /\ IF root THEN UNCHANGED <<users, links>>
                ELSE /\ users' = Append(users, [username |-> Root, email |-> Nil,
                                                status |-> "active"])
                     /\ links' = links \cup {[id |-> Len(history) + 1, user |-> Len(users) + 1,
                                              role |-> SuperAdmin, scope |-> Nil]}
             /\ history' = Append(history, [op |-> "seed", by |-> Nil, what |-> Nil])
             /\ End(s)
          \/ taken /\ Refused(s)

-----------------------------------------------------------------------------

Disconnect(s) == ~Idle(s) /\ Refused(s)

Progress(s) ==
    \/ CommitCreateUser(s) \/ CommitStatus(s) \/ CommitAssign(s) \/ CommitRevoke(s)
    \/ CommitCreateRole(s) \/ CommitUpdateRole(s)
    \/ \E r \in DOMAIN Default : ReadLinks(s, r)
    \/ CommitSeed(s)

Next == \E s \in Session :
    \/ \E u \in DOMAIN users :
          \/ \E a \in NewAccounts : ArriveCreateUser(s, u, a[1], a[2], a[3])
          \/ \E v \in DOMAIN users :
                \/ ArriveDeactivate(s, u, v)
                \/ \E st \in UserStatus : ArriveUpdateUser(s, u, v, st)
                \/ \E g \in Grants : ArriveAssign(s, u, v, g[1], g[2])
                \/ \E r \in DOMAIN roles : ArriveRevoke(s, u, v, r)
          \/ \E r \in RoleNames, codes \in CodeSets : ArriveCreateRole(s, u, r, codes)
          \/ \E r \in DOMAIN roles, c \in RoleChanges : ArriveUpdateRole(s, u, r, c[1], c[2])
    \/ ArriveSeed(s)
    \/ Progress(s)
    \/ Disconnect(s)

Spec == Init /\ [][Next]_vars

-----------------------------------------------------------------------------

Calm(kind, x) == <<kind, x>> \notin raced

TypeOK ==
    /\ users \in Seq(UserRow)
    /\ DOMAIN roles \subseteq RoleNames /\ \A r \in DOMAIN roles : roles[r] \in RoleRow
    /\ links \subseteq UserRoleRow
    /\ \A l \in links : l.user \in DOMAIN users /\ l.role \in DOMAIN roles
    /\ begun \in 0..MaxRequests

Sets(u, h) == h.op \in {"deactivate", "update_user"} /\ h.what.user = u

\* README.md:129 "a suspended account takes effect on the user's very next request":
\* no request is under way of a user whose last change of status, when it came,
\* was to another status than active, unless two requests were about that user.
CutOffAtNextRequest ==
    \A s \in Busy : LET t == task[s] IN
        t.op # "seed" /\ Calm("user", t.by) =>
            \A i \in 1..t.seen :
                Sets(t.by, history[i]) /\ (\A j \in (i + 1)..t.seen : ~Sets(t.by, history[j]))
                => history[i].what.status = "active"

\* Links of users and roles there are, and of nobody who was cut off (deps.py:58).
AccessInv == TypeOK /\ CutOffAtNextRequest

\* An entry that gives role r to user u, or takes it.
Bears(u, r, h) ==
    \/ h.op = "create_user" /\ h.what.user = u /\ r \in h.what.roles
    \/ h.op \in {"assign", "revoke"} /\ h.what.user = u /\ h.what.role = r

\* README.md:130 "A revoked role ...": once the last assignment or revocation of a
\* role is a revocation, no link of it is left, unless two requests were about the
\* user at once.
RevokedMeansGone ==
    \A u \in DOMAIN users : Calm("user", u) =>
        \A r \in DOMAIN roles, i \in DOMAIN history :
            Bears(u, r, history[i]) /\ (\A j \in (i + 1)..Len(history) : ~Bears(u, r, history[j]))
            => ((\E l \in links : l.user = u /\ l.role = r) <=> history[i].op # "revoke")

\* An entry that gives role r its codes.
Gives(r, h) ==
    h.op \in {"create_role", "update_role"} /\ h.what.role = r /\ h.what.codes # Nil

\* roles.py:113 "Replaces the role's full permission set with exactly the codes
\* given": what the last request gave, and what later seeds added, unless two
\* requests were about the role at once.
ExactlyTheCodesGiven ==
    \A r \in DOMAIN roles : Calm("role", r) =>
        \A i \in DOMAIN history :
            Gives(r, history[i]) /\ (\A j \in (i + 1)..Len(history) : ~Gives(r, history[j]))
            => LET seeded == \E j \in (i + 1)..Len(history) : history[j].op = "seed"
               IN roles[r].codes = history[i].what.codes \cup
                                   (IF seeded /\ r \in DOMAIN Default THEN Default[r] ELSE {})

\* seed_data.py:5 "This creates": after a seed every default role has its default
\* permissions and the administrator exists, unless a role was being changed.
SeedComplete ==
    [][history' # history /\ Last(history').op = "seed" =>
         /\ \A r \in DOMAIN Default : Calm("role", r) =>
               r \in DOMAIN roles' /\ Default[r] \subseteq roles'[r].codes
         /\ \E u \in DOMAIN users' : users'[u].username = Root]_vars
=============================================================================
