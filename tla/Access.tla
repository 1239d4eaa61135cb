------------------------------- MODULE Access -------------------------------
(***************************************************************************)
(* Permissions: the tables of roles and users, the requests that change    *)
(* them, and the cache every server instance keeps of what a user may do.  *)
(*                                                                         *)
(* A look-up answers from the cache of its instance while the entry lasts, *)
(* and otherwise reads the user, reads the role, and stores the answer:    *)
(* three moments between which anything may commit.  The update of a role  *)
(* is one transaction and then an eviction, on its own instance only.  A   *)
(* user who is moved to another role, left without one, or no longer an    *)
(* administrator is not evicted.  Time passes in ticks, of which an entry  *)
(* lasts TTL.                                                              *)
(***************************************************************************)
EXTENDS Naturals, Requests

CONSTANTS
    Users, Roles, Perms,
    Instances,      \* server processes, each with its own cache
    System,         \* the roles that cannot be removed
    Reserved,       \* of these, the role named SYSTEM_ADMIN: given to nobody
    Wildcard,       \* '*', what a user with the legacy role SYSTEM_ADMIN may do
    TTL,            \* CACHE_TTL_MS, in ticks
    FillTime,       \* ticks a look-up may take, from its first read to its answer
    Asked,          \* the sets of permissions requests ask for, per role
    MaxVersion      \* bound on permissionsVersion

ASSUME AccessAssumption ==
    /\ TTL \in Nat /\ FillTime \in Nat /\ MaxVersion \in Nat
    /\ None \notin Roles \cup Procs \cup Users
    /\ Asked \in [Roles -> SUBSET SUBSET Perms]
    /\ System \subseteq Roles /\ Reserved \subseteq System
    /\ Wildcard \notin Perms

VARIABLES
    state,          \* [Roles -> {"unborn", "live", "removed"}]
    granted,        \* [Roles -> SUBSET Perms]: rows of role_permissions
    roleOf,         \* [Users -> Roles \cup {None}]: roleId
    admin,          \* the users whose legacy role is SYSTEM_ADMIN
    version,        \* [Users -> Nat]: permissionsVersion
    roleLock,       \* [Roles -> Procs \cup {None}]: who updated the row
    cache,          \* [Instances -> [Users -> entries]]
    pc, at,         \* where each request is, and on which instance
    job,            \* what it works on
    got,            \* what it has read
    took,           \* [Procs -> Nat]: how long its look-up has taken
    since,          \* history: ticks since the user's role, or what it grants, changed
    quiet,          \* history: no change without a new version since what is cached
    loose,          \* history: requests that met another on their role, one unlocked
    late            \* history: users given the role since a removal counted

tables == <<state, granted, roleOf, admin, version>>
requests == <<pc, at, job, got>>
history == <<since, quiet, loose, late>>
vars == <<tables, roleLock, cache, requests, took, history>>

Labels == {"idle", "perms", "set", "list", "delete", "insert",
           "bump", "commit", "evict", "remove"}

Members(r) == {u \in Users : roleOf[u] = r}

\* What the tables say a user may do now.
Truth(u) ==
    IF u \in admin THEN {Wildcard}
    ELSE IF roleOf[u] = None THEN {} ELSE granted[roleOf[u]]

Exists(r) == state[r] = "live"

NoEntry == [perms |-> {}, version |-> 0, left |-> 0]
NoJob == [user |-> None, role |-> None, asked |-> {}, named |-> FALSE]
NoRead == [role |-> None, perms |-> {}, version |-> 0, users |-> {}, bumped |-> {}]

LongAgo == TTL + FillTime + 1

Entries == [perms : SUBSET (Perms \cup {Wildcard}), version : Nat, left : 0..TTL]
Jobs == [user : Users \cup {None}, role : Roles \cup {None},
         asked : SUBSET Perms, named : BOOLEAN]
Reads == [role : Roles \cup {None}, perms : SUBSET (Perms \cup {Wildcard}), version : Nat,
          users : SUBSET Users, bumped : SUBSET Users]

TypeOK ==
    /\ state \in [Roles -> {"unborn", "live", "removed"}]
    /\ granted \in [Roles -> SUBSET Perms]
    /\ roleOf \in [Users -> Roles \cup {None}]
    /\ admin \in SUBSET Users
    /\ version \in [Users -> Nat]
    /\ roleLock \in [Roles -> Procs \cup {None}]
    /\ cache \in [Instances -> [Users -> Entries]]
    /\ pc \in [Procs -> Labels]
    /\ at \in [Procs -> Instances \cup {None}]
    /\ job \in [Procs -> Jobs]
    /\ got \in [Procs -> Reads]
    /\ took \in [Procs -> 0..FillTime]
    /\ since \in [Users -> 0..LongAgo]
    /\ quiet \in [Users -> BOOLEAN]
    /\ loose \in [Procs -> BOOLEAN]
    /\ late \in [Procs -> SUBSET Users]

Init ==
    /\ state = [r \in Roles |-> IF r \in System THEN "live" ELSE "unborn"]
    /\ granted = [r \in Roles |-> IF r \in System THEN Perms ELSE {}]
    /\ roleOf \in [Users -> System \cup {None}]
    /\ admin \in SUBSET Users
    /\ version = [u \in Users |-> 0]
    /\ roleLock = [r \in Roles |-> None]
    /\ cache = [i \in Instances |-> [u \in Users |-> NoEntry]]
    /\ pc = [p \in Procs |-> "idle"]
    /\ at = [p \in Procs |-> None]
    /\ job = [p \in Procs |-> NoJob]
    /\ got = [p \in Procs |-> NoRead]
    /\ took = [p \in Procs |-> 0]
    /\ since = [u \in Users |-> LongAgo]
    /\ quiet = [u \in Users |-> TRUE]
    /\ loose = [p \in Procs |-> FALSE]
    /\ late = [p \in Procs |-> {}]

----------------------------------------------------------------------------
(* Steps of a request. *)

Goto(p, l) == pc' = [pc EXCEPT ![p] = l]

Start(p, l, i, j) ==
    /\ pc[p] = "idle"
    /\ Goto(p, l)
    /\ at' = [at EXCEPT ![p] = i]
    /\ job' = [job EXCEPT ![p] = j]

\* The request is over, and with it its transaction and the row it locked.
End(p) ==
    /\ Goto(p, "idle")
    /\ at' = [at EXCEPT ![p] = None]
    /\ job' = [job EXCEPT ![p] = NoJob]
    /\ got' = [got EXCEPT ![p] = NoRead]
    /\ took' = [took EXCEPT ![p] = 0]
    /\ late' = [late EXCEPT ![p] = {}]
    /\ loose' = [loose EXCEPT ![p] = FALSE]
    /\ roleLock' = [r \in Roles |-> IF roleLock[r] = p THEN None ELSE roleLock[r]]

\* The writer of a role or of a user: since restarts for everyone it affects.
Affected(u) == Truth(u)' # Truth(u) \/ roleOf'[u] # roleOf[u]

Noted(announced) ==
    /\ since' = [u \in Users |-> IF Affected(u) THEN 0 ELSE since[u]]
    /\ quiet' = [u \in Users |-> quiet[u] /\ (Affected(u) => u \in announced)]

----------------------------------------------------------------------------
(* getPermissionsWithVersion. *)

\* An answer without a read, while the entry lasts.
Hit(i, u) == cache[i][u].left > 0

\* What there is to read of the role: nothing for an administrator, who is answered
\* with the wildcard whatever role they have, and for a user without one.
RoleToRead(u) == IF u \in admin THEN None ELSE roleOf[u]

\* A user who is not found is answered with nothing, which is not stored.
ReadUser(p, i, u) ==
    /\ ~Hit(i, u)
    /\ Start(p, IF RoleToRead(u) = None THEN "set" ELSE "perms", i, [NoJob EXCEPT !.user = u])
    /\ got' = [got EXCEPT ![p] =
                  [NoRead EXCEPT !.role = RoleToRead(u), !.version = version[u],
                                 !.perms = IF u \in admin THEN {Wildcard} ELSE {}]]
    /\ UNCHANGED <<tables, roleLock, cache, took, history>>

ReadPerms(p) ==
    /\ pc[p] = "perms"
    /\ got' = [got EXCEPT ![p] = [@ EXCEPT !.perms = granted[got[p].role], !.role = None]]
    /\ Goto(p, "set")
    /\ UNCHANGED <<tables, roleLock, cache, at, job, took, history>>

Answer(p) == [perms |-> got[p].perms, version |-> got[p].version, left |-> TTL]

SetCache(p) ==
    /\ pc[p] = "set"
    /\ cache' = [cache EXCEPT ![at[p]][job[p].user] = Answer(p)]
    /\ End(p)
    /\ UNCHANGED <<tables, since, quiet>>

----------------------------------------------------------------------------
(* RolesService. *)

CreateRole(r, asked) ==
    /\ state[r] = "unborn"
    /\ state' = [state EXCEPT ![r] = "live"]
    /\ granted' = [granted EXCEPT ![r] = asked]
    /\ UNCHANGED <<roleOf, admin, version, roleLock, cache, requests, took, history>>

Writers == {"list", "delete", "insert", "bump", "commit"}

\* A read of the row, which waits for nobody.
ReadRow(p, r, named) == roleLock' = roleLock

\* role.update.  named: the body has a displayName or a description too, and the
\* update waits for the row and locks it; with no field to write it only reads.
WriteRow(p, r, named) ==
    /\ named => roleLock[r] = None
    /\ roleLock' = IF named THEN [roleLock EXCEPT ![r] = p] ELSE roleLock

\* update opens its transaction on a role it has just looked up.
UpdateRole(p, i, r, asked, named) ==
    /\ Exists(r)
    /\ WriteRow(p, r, named)
    /\ Start(p, "list", i,
             [user |-> None, role |-> r, asked |-> asked, named |-> named])
    /\ LET met == {q \in Procs : /\ job[q].role = r /\ pc[q] \in Writers
                                 /\ ~(named /\ job[q].named)}
       IN  loose' = [q \in Procs |-> \/ loose[q] \/ q \in met
                                     \/ q = p /\ met # {}]
    /\ UNCHANGED <<tables, cache, got, took, since, quiet, late>>

\* deleteMany sees the rows of the moment it begins ...
ListRows(p) ==
    /\ pc[p] = "list"
    /\ got' = [got EXCEPT ![p].perms = granted[job[p].role]]
    /\ Goto(p, "delete")
    /\ UNCHANGED <<tables, roleLock, cache, at, job, took, history>>

\* ... and deletes those that are left when no other transaction deletes them: a
\* row that another deleted and inserted again is a new one (see CommitRole).
DeleteRows(p) ==
    LET r == job[p].role
    IN  /\ pc[p] = "delete"
        /\ \A q \in Procs \ {p} :
              pc[q] \in {"insert", "bump", "commit"} /\ job[q].role = r
              => got[q].perms \cap got[p].perms = {}
        /\ got' = [got EXCEPT ![p].perms = @ \cap granted[r]]
        /\ Goto(p, "insert")
        /\ UNCHANGED <<tables, roleLock, cache, at, job, took, history>>

\* Rows of the role the request has not deleted, and those another inserted.
Clash(p) ==
    LET r == job[p].role
    IN  \/ job[p].asked \cap (granted[r] \ got[p].perms) # {}
        \/ \E q \in Procs \ {p} :
              /\ pc[q] \in {"bump", "commit"} /\ job[q].role = r
              /\ job[q].asked \cap job[p].asked # {}

\* createMany, with the unique index on role and permission, and the look-up of
\* the users whose entries are to be evicted.
InsertRows(p) ==
    LET r == job[p].role
    IN  /\ pc[p] = "insert"
        /\ Exists(r)
        /\ ~Clash(p)
        /\ got' = [got EXCEPT ![p].users = Members(r)]
        /\ Goto(p, "bump")
        /\ UNCHANGED <<tables, roleLock, cache, at, job, took, history>>

\* A user row that no transaction in flight has written.
RowFree(u) == \A q \in Procs : u \notin got[q].bumped

BumpUsers(p) ==
    LET r == job[p].role
    IN  /\ pc[p] = "bump"
        /\ \A u \in Members(r) : RowFree(u) /\ version[u] < MaxVersion
        /\ got' = [got EXCEPT ![p].bumped = Members(r)]
        /\ Goto(p, "commit")
        /\ UNCHANGED <<tables, roleLock, cache, at, job, took, history>>

KeepVersions(p) == version' = version

\* permissionsVersion: { increment: 1 }
NewVersions(p) ==
    version' = [u \in Users |-> IF u \in got[p].bumped THEN version[u] + 1 ELSE version[u]]

CommitRole(p) ==
    LET r == job[p].role
    IN  /\ pc[p] = "commit"
        /\ granted' = [granted EXCEPT ![r] = (@ \ got[p].perms) \cup job[p].asked]
        /\ NewVersions(p)
        /\ UNCHANGED <<state, roleOf, admin, cache, at, took, loose, late>>
        /\ Noted(got[p].bumped)
        /\ roleLock' = [x \in Roles |-> IF roleLock[x] = p THEN None ELSE roleLock[x]]
        /\ got' = [q \in Procs |->
                      IF q = p THEN [NoRead EXCEPT !.users = got[p].users]
                      ELSE IF job[q].role = r
                           THEN [got[q] EXCEPT !.perms = @ \ got[p].perms]
                      ELSE got[q]]
        /\ job' = [job EXCEPT ![p] = NoJob]
        /\ Goto(p, "evict")

\* invalidateCacheForUsers, on the instance that served the update.
Evict(p) ==
    /\ pc[p] = "evict"
    /\ cache' = [cache EXCEPT ![at[p]] =
                    [u \in Users |-> IF u \in got[p].users THEN NoEntry ELSE @[u]]]
    /\ End(p)
    /\ UNCHANGED <<tables, since, quiet>>

Removable(r) == Exists(r) /\ r \notin System

Unused(r) == Removable(r) /\ Members(r) = {}

\* remove counts the users of the role.  Its instance does not matter.
CountUsers(p, r) ==
    /\ Unused(r)
    /\ Start(p, "remove", None, [NoJob EXCEPT !.role = r])
    /\ late' = [late EXCEPT ![p] = {}]
    /\ UNCHANGED <<tables, roleLock, cache, got, took, since, quiet, loose>>

\* ... and deletes it: its permissions go with it, and a user who has it after
\* all is left with none (the foreign key of roleId is SET NULL).
Holding(q, r) == job[q].role = r /\ pc[q] \in {"bump", "commit"}

DeleteRole(p) ==
    LET r == job[p].role
    IN  /\ pc[p] = "remove"
        /\ Exists(r) /\ roleLock[r] = None
        /\ \A q \in Procs : ~Holding(q, r)
        /\ \A u \in Members(r) : RowFree(u)
        /\ state' = [state EXCEPT ![r] = "removed"]
        /\ granted' = [granted EXCEPT ![r] = {}]
        /\ roleOf' = [u \in Users |-> IF roleOf[u] = r THEN None ELSE roleOf[u]]
        /\ UNCHANGED <<admin, version, cache>>
        /\ Noted({})
        /\ End(p)

----------------------------------------------------------------------------
(* UsersService.update. *)

\* The body writes what it names: another role (r), if the foreign key still finds it,
\* or none at all (roleId null is not checked); and, when plain, a legacy role other
\* than SYSTEM_ADMIN.  No version is bumped and no entry evicted.
UpdateUser(u, r, plain) ==
    /\ r = roleOf[u] => plain /\ u \in admin
    /\ r \notin {roleOf[u], None} => Exists(r) /\ r \notin Reserved
    /\ RowFree(u)
    /\ roleOf' = [roleOf EXCEPT ![u] = r]
    /\ admin' = IF plain THEN admin \ {u} ELSE admin
    /\ late' = [p \in Procs |->
                   IF pc[p] = "remove" /\ job[p].role = r THEN late[p] \cup {u} ELSE late[p]]
    /\ UNCHANGED <<state, granted, version, roleLock, cache, requests, took, loose>>
    /\ Noted({})

----------------------------------------------------------------------------
(* The environment. *)

\* A refusal, a lost connection, a deadlock: the transaction, if any, is undone.
\* Past its commit a request cannot fail.
Fail(p) ==
    /\ pc[p] \notin {"idle", "evict"}
    /\ End(p)
    /\ UNCHANGED <<tables, cache, since, quiet>>

\* An instance dies with its cache and its requests.
Crash(i) ==
    LET dead == {p \in Procs : at[p] = i}
    IN  /\ cache' = [cache EXCEPT ![i] = [u \in Users |-> NoEntry]]
        /\ pc' = [p \in Procs |-> IF p \in dead THEN "idle" ELSE pc[p]]
        /\ at' = [p \in Procs |-> IF p \in dead THEN None ELSE at[p]]
        /\ job' = [p \in Procs |-> IF p \in dead THEN NoJob ELSE job[p]]
        /\ got' = [p \in Procs |-> IF p \in dead THEN NoRead ELSE got[p]]
        /\ took' = [p \in Procs |-> IF p \in dead THEN 0 ELSE took[p]]
        /\ late' = [p \in Procs |-> IF p \in dead THEN {} ELSE late[p]]
        /\ loose' = [p \in Procs |-> p \notin dead /\ loose[p]]
        /\ roleLock' = [r \in Roles |-> IF roleLock[r] \in dead THEN None ELSE roleLock[r]]
        /\ UNCHANGED <<tables, since, quiet>>

Filling(p) == pc[p] \in {"perms", "set"}

\* An entry that never expires.
Kept(e) == e

\* expiresAt.  An expired entry is never read again.
Aged(e) == IF e.left > 1 THEN [e EXCEPT !.left = @ - 1] ELSE NoEntry

\* Time passes, as long as no look-up has taken all it may.
Tick ==
    /\ \A p \in Procs : Filling(p) => took[p] < FillTime
    /\ took' = [p \in Procs |-> IF Filling(p) THEN took[p] + 1 ELSE 0]
    /\ cache' = [i \in Instances |-> [u \in Users |-> Aged(cache[i][u])]]
    /\ since' = [u \in Users |-> IF since[u] < LongAgo THEN since[u] + 1 ELSE LongAgo]
    /\ quiet' = [u \in Users |->
                    \/ quiet[u]
                    \/ /\ \A i \in Instances : cache'[i][u].left = 0
                       /\ \A p \in Procs : Filling(p) => job[p].user # u]
    /\ UNCHANGED <<tables, roleLock, requests, loose, late>>

Begin(p, i) ==
    \/ \E u \in Users : ReadUser(p, i, u)
    \/ \E r \in Roles, named \in BOOLEAN : \E asked \in Asked[r] :
          UpdateRole(p, i, r, asked, named)

Step(p) ==
    \/ ReadPerms(p) \/ SetCache(p)
    \/ ListRows(p) \/ DeleteRows(p) \/ InsertRows(p)
    \/ BumpUsers(p) \/ CommitRole(p) \/ Evict(p)
    \/ DeleteRole(p)

Next ==
    \/ \E p \in Procs : (\E i \in Instances : Begin(p, i)) \/ Step(p) \/ Fail(p)
    \/ \E p \in Procs, r \in Roles : CountUsers(p, r)
    \/ \E r \in Roles : \E asked \in Asked[r] : CreateRole(r, asked)
    \/ \E u \in Users, r \in Roles \cup {None}, plain \in BOOLEAN : UpdateUser(u, r, plain)
    \/ \E i \in Instances : Crash(i)
    \/ Tick

Spec == Init /\ [][Next]_vars

----------------------------------------------------------------------------
(* Properties. *)

Idle(p) == /\ job[p] = NoJob /\ got[p] = NoRead /\ took[p] = 0
           /\ late[p] = {} /\ ~loose[p]

\* A look-up between its reads: what it has is what the user may do, unless that
\* changed after it began, and the change has a version or is not quiet.
FillOk(p) ==
    LET u == job[p].user
        same == quiet[u] /\ got[p].version = version[u]
    IN  /\ u \in Users /\ job[p].role = None
        /\ got[p].version <= version[u]
        /\ pc[p] = "perms" => /\ got[p].role \in Roles /\ u \notin admin
                              /\ got[p].role = roleOf[u] \/ since[u] <= took[p]
                              /\ same => got[p].role = roleOf[u]
        /\ pc[p] = "set" => /\ got[p].perms = Truth(u) \/ since[u] <= took[p]
                            /\ same => got[p].perms = Truth(u)

\* An update of a role holds the row if it wrote it, shares the role with
\* another only loosely, and is alone with its rows otherwise.
WriterOk(p) ==
    LET r == job[p].role
    IN  /\ r \in Roles
        /\ state[r] # "unborn"
        /\ job[p].named => roleLock[r] = p
        /\ ~loose[p] /\ pc[p] # "list" => granted[r] \subseteq got[p].perms
        /\ \A q \in Procs \ {p} :
              pc[q] \in Writers /\ job[q].role = r => loose[p]

RemovalOk(p) == job[p].role \in Roles /\ Members(job[p].role) \subseteq late[p]

RequestInv ==
    \A p \in Procs :
        /\ pc[p] = "idle" => Idle(p)
        /\ Filling(p) => FillOk(p)
        /\ pc[p] \in Writers => WriterOk(p)
        /\ pc[p] = "remove" => RemovalOk(p)

\* A cache entry: it was right when it was read, and has lasted since.
EntryInv ==
    \A i \in Instances, u \in Users :
        LET e == cache[i][u]
        IN  Hit(i, u) =>
                /\ e.version <= version[u]
                /\ e.perms = Truth(u) \/ since[u] + e.left <= TTL + FillTime
                /\ quiet[u] /\ e.version = version[u] => e.perms = Truth(u)

\* The foreign key of roleId.
RolesExist == \A u \in Users : roleOf[u] # None => Exists(roleOf[u])

\* The inductive invariant: what every look-up, update and entry still knows,
\* whatever has been committed since it was read.
IInv == TypeOK /\ RolesExist /\ RequestInv /\ EntryInv

\* No answer is older than the sixty seconds an entry lasts and the time the
\* look-up took, on any instance and whoever changed the role or the user.
BoundedStaleness ==
    \A i \in Instances, u \in Users :
        Hit(i, u) /\ cache[i][u].perms # Truth(u) => since[u] <= TTL + FillTime

\* The version tells: an answer that carries the version the user has now is
\* what the user may do now, whenever the change of a role overtakes a look-up.
\* Only what has no version is excepted: a move to another role or to none, the end
\* of an administrator, the removal of a role.
VersionTells ==
    \A i \in Instances, u \in Users :
        Hit(i, u) /\ quiet[u] /\ cache[i][u].version = version[u]
        => cache[i][u].perms = Truth(u)

\* Two updates of a role do not mix: what one leaves is the set it was asked
\* for, unless one of them names no field and so does not lock the role.
WholeSets ==
    [][\A p \in Procs :
          pc[p] = "commit" /\ pc'[p] = "evict" /\ ~loose[p]
          => granted'[job[p].role] = job[p].asked]_vars

\* A role is removed from nobody but those who got it after its users were counted.
KeepsItsRole ==
    [][\A r \in Roles :
          Exists(r) /\ state'[r] = "removed"
          => \E p \in Procs : /\ pc[p] = "remove" /\ job[p].role = r
                              /\ Members(r) \subseteq late[p]]_vars
=============================================================================
