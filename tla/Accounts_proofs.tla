-------------------------- MODULE Accounts_proofs ---------------------------
(***************************************************************************)
(* Access: that what an instance answers is what the user may do, or was   *)
(* within the life of an entry; that the version tells which; and that two *)
(* updates of a role do not mix.                                           *)
(*                                                                         *)
(* Registry: that records keep their codes apart but for overlaps, that a  *)
(* replaced access list holds what was asked for and what came meanwhile,  *)
(* that a manager has access but for a list that replaced it, and that a   *)
(* device has one holder.                                                  *)
(***************************************************************************)
EXTENDS Access, Registry, TLAPS

USE AccessAssumption

\* What a user may do is read off the tables.
LEMMA SameTruth == UNCHANGED tables => \A u \in Users : Truth(u)' = Truth(u)
  BY Zenon DEF Truth, tables

LEMMA InitInv == Init => IInv
<1> SUFFICES ASSUME Init PROVE IInv
  OBVIOUS
<1>1. NoEntry \in Entries /\ NoJob \in Jobs /\ NoRead \in Reads /\ LongAgo \in 0..LongAgo
  BY DEF NoEntry, NoJob, NoRead, Entries, Jobs, Reads, LongAgo
<1>2. TypeOK
  BY <1>1 DEF Init, TypeOK, Labels
<1>3. RequestInv
  BY DEF Init, RequestInv, Idle, Filling, Writers
<1>4. EntryInv
  BY DEF Init, EntryInv, Hit, NoEntry
<1>5. RolesExist
  BY DEF Init, RolesExist, Exists
<1> QED
  BY <1>2, <1>3, <1>4, <1>5 DEF IInv

----------------------------------------------------------------------------
(* What the end of a request, and a request of another, leave alone. *)

\* The request p is over: its own part of the invariant holds, and the others'
\* needs only what it did to the tables.
LEMMA EndType ==
  ASSUME TypeOK, NEW p \in Procs, End(p)
  PROVE  /\ pc' \in [Procs -> Labels] /\ at' \in [Procs -> Instances \cup {None}]
         /\ job' \in [Procs -> Jobs] /\ got' \in [Procs -> Reads]
         /\ took' \in [Procs -> 0..FillTime] /\ late' \in [Procs -> SUBSET Users]
         /\ loose' \in [Procs -> BOOLEAN]
         /\ roleLock' \in [Roles -> Procs \cup {None}]
         /\ pc'[p] = "idle" /\ Idle(p)'
         /\ \A q \in Procs \ {p} :
               /\ pc'[q] = pc[q] /\ job'[q] = job[q] /\ got'[q] = got[q]
               /\ took'[q] = took[q] /\ late'[q] = late[q] /\ loose'[q] = loose[q]
               /\ \A r \in Roles : roleLock[r] = q => roleLock'[r] = q
<1>1. NoJob \in Jobs /\ NoRead \in Reads /\ 0 \in 0..FillTime /\ "idle" \in Labels
  BY DEF NoJob, NoRead, Jobs, Reads, Labels
<1> QED
  BY <1>1 DEF End, TypeOK, Goto, Idle

\* A request that has not moved keeps its part of the invariant when no role and
\* no user has.
LEMMA OtherOk ==
  ASSUME TypeOK, NEW p \in Procs, NEW q \in Procs \ {p},
         RequestInv, UNCHANGED <<tables, since, quiet>>,
         pc'[q] = pc[q], job'[q] = job[q], got'[q] = got[q], took'[q] = took[q],
         late'[q] = late[q], loose'[q] = loose[q],
         \A r \in Roles : roleLock[r] = q => roleLock'[r] = q,
         \A o \in Procs \ {p, q} : pc'[o] = pc[o] /\ job'[o] = job[o],
         pc'[p] \in Writers => pc[p] \in Writers /\ job'[p] = job[p]
  PROVE  /\ pc'[q] = "idle" => Idle(q)'
         /\ Filling(q)' => FillOk(q)'
         /\ pc'[q] \in Writers => WriterOk(q)'
         /\ pc'[q] = "remove" => RemovalOk(q)'
<1>1. pc'[q] = "idle" => Idle(q)'
  BY DEF RequestInv, Idle
<1>2. Filling(q)' => FillOk(q)'
  BY SameTruth DEF RequestInv, Filling, FillOk, tables
<1>3. ASSUME pc'[q] \in Writers PROVE WriterOk(q)'
  <2>1. WriterOk(q)
    BY <1>3 DEF RequestInv
  <2>2. \A o \in Procs \ {q} :
           pc'[o] \in Writers /\ job'[o].role = job'[q].role => loose'[q]
    BY <2>1 DEF WriterOk
  <2> QED
    BY <2>1, <2>2 DEF WriterOk, tables
<1>4. pc'[q] = "remove" => RemovalOk(q)'
  BY DEF RequestInv, RemovalOk, Members, tables
<1> QED
  BY <1>1, <1>2, <1>3, <1>4

LEMMA StillExist == RolesExist /\ UNCHANGED tables => RolesExist'
  BY DEF RolesExist, Exists, tables

LEMMA FailInv ==
  ASSUME IInv, NEW p \in Procs, Fail(p)
  PROVE  IInv'
<1> USE DEF IInv
<1>1. End(p) /\ UNCHANGED <<tables, cache, since, quiet>>
  BY DEF Fail
<1>2. TypeOK'
  BY <1>1, EndType DEF TypeOK, tables
<1>3. RequestInv'
  <2>1. \A q \in Procs \ {p} :
           /\ pc'[q] = "idle" => Idle(q)'
           /\ Filling(q)' => FillOk(q)'
           /\ pc'[q] \in Writers => WriterOk(q)'
           /\ pc'[q] = "remove" => RemovalOk(q)'
    BY <1>1, EndType, OtherOk DEF Writers
  <2> QED
    BY <1>1, <2>1, EndType DEF RequestInv, Filling, Writers
<1>4. EntryInv'
  BY <1>1, SameTruth DEF EntryInv, Hit, tables
<1> QED
  BY <1>2, <1>3, <1>4, <1>1, StillExist

----------------------------------------------------------------------------
(* Look-ups and evictions: the tables stay. *)

LEMMA ReadUserInv ==
  ASSUME IInv, NEW p \in Procs, NEW i \in Instances, NEW u \in Users, ReadUser(p, i, u)
  PROVE  IInv'
<1> USE DEF IInv
<1> DEFINE answer == IF u \in admin THEN {Wildcard} ELSE {}
           read == [NoRead EXCEPT !.role = RoleToRead(u), !.version = version[u],
                                  !.perms = answer]
<1>1. Idle(p) /\ pc[p] = "idle" /\ UNCHANGED <<tables, roleLock, cache, took, history>>
  BY DEF ReadUser, Start, RequestInv
<1>2. /\ job' = [job EXCEPT ![p] = [NoJob EXCEPT !.user = u]]
      /\ got' = [got EXCEPT ![p] = read]
      /\ at' = [at EXCEPT ![p] = i]
      /\ pc' = [pc EXCEPT ![p] = IF RoleToRead(u) = None THEN "set" ELSE "perms"]
  BY DEF ReadUser, Start, Goto
<1>3. [NoJob EXCEPT !.user = u] \in Jobs /\ [NoJob EXCEPT !.user = u].user = u
  BY DEF NoJob, Jobs
<1>4. /\ got'[p].role = RoleToRead(u) /\ got'[p].version = version[u]
      /\ got'[p].perms = answer /\ got' \in [Procs -> Reads]
  <2>1. RoleToRead(u) \in Roles \cup {None} /\ answer \in SUBSET (Perms \cup {Wildcard})
    BY DEF RoleToRead, TypeOK
  <2>2. /\ read \in Reads
        /\ read.role = RoleToRead(u) /\ read.version = version[u] /\ read.perms = answer
    BY <2>1 DEF NoRead, Reads, TypeOK
  <2> QED
    BY <1>2, <2>2 DEF TypeOK
<1>5. TypeOK'
  BY <1>1, <1>2, <1>3, <1>4 DEF TypeOK, Labels, tables, history
<1>6. RequestInv'
  <2>1. \A q \in Procs \ {p} :
           /\ pc'[q] = "idle" => Idle(q)'
           /\ Filling(q)' => FillOk(q)'
           /\ pc'[q] \in Writers => WriterOk(q)'
           /\ pc'[q] = "remove" => RemovalOk(q)'
    <3>1. pc'[p] \notin Writers
      BY <1>2 DEF Writers, TypeOK
    <3> QED
      BY <1>1, <1>2, <3>1, OtherOk DEF history, TypeOK
  <2>2. job'[p].user = u /\ job'[p].role = None /\ pc'[p] = (IF RoleToRead(u) = None THEN "set" ELSE "perms")
    BY <1>2, <1>3 DEF TypeOK, NoJob
  <2>3. FillOk(p)'
    BY <1>1, <1>4, <2>2 DEF FillOk, RoleToRead, Truth, TypeOK, tables, history
  <2> QED
    BY <2>1, <2>2, <2>3 DEF RequestInv, Filling, Writers
<1>7. EntryInv'
  BY <1>1, SameTruth DEF EntryInv, Hit, tables, history
<1> QED
  BY <1>5, <1>6, <1>7, <1>1, StillExist

LEMMA ReadPermsInv ==
  ASSUME IInv, NEW p \in Procs, ReadPerms(p)
  PROVE  IInv'
<1> USE DEF IInv
<1>1. /\ pc[p] = "perms" /\ FillOk(p)
      /\ UNCHANGED <<tables, roleLock, cache, at, job, took, history>>
      /\ pc' = [pc EXCEPT ![p] = "set"]
      /\ got' = [got EXCEPT ![p] = [@ EXCEPT !.perms = granted[got[p].role], !.role = None]]
  BY DEF ReadPerms, RequestInv, Filling, Goto
<1>2. got[p].role \in Roles
  BY <1>1 DEF FillOk
<1>3. /\ got' \in [Procs -> Reads]
      /\ got'[p].perms = granted[got[p].role] /\ got'[p].version = got[p].version
      /\ \A q \in Procs \ {p} : got'[q] = got[q]
  <2>1. granted[got[p].role] \in SUBSET (Perms \cup {Wildcard}) /\ got[p] \in Reads
    BY <1>2 DEF TypeOK
  <2> DEFINE g == [got[p] EXCEPT !.perms = granted[got[p].role], !.role = None]
  <2>2. /\ g \in Reads /\ g.perms = granted[got[p].role]
        /\ g.version = got[p].version
    BY <2>1 DEF Reads
  <2>3. got' = [got EXCEPT ![p] = g]
    BY <1>1
  <2> HIDE DEF g
  <2> QED
    BY <2>2, <2>3 DEF TypeOK
<1>4. TypeOK'
  BY <1>1, <1>3 DEF TypeOK, Labels, tables, history
<1>5. RequestInv'
  <2>1. \A q \in Procs \ {p} :
           /\ pc'[q] = "idle" => Idle(q)'
           /\ Filling(q)' => FillOk(q)'
           /\ pc'[q] \in Writers => WriterOk(q)'
           /\ pc'[q] = "remove" => RemovalOk(q)'
    <3>1. pc'[p] \notin Writers
      BY <1>1 DEF Writers, TypeOK
    <3> QED
      BY <1>1, <1>3, <3>1, OtherOk DEF history, TypeOK
  <2>2. pc'[p] = "set"
    BY <1>1 DEF TypeOK
  <2>3. FillOk(p)'
    BY <1>1, <1>2, <1>3, <2>2 DEF FillOk, Truth, TypeOK, tables, history
  <2> QED
    BY <2>1, <2>2, <2>3 DEF RequestInv, Filling, Writers
<1>6. EntryInv'
  BY <1>1, SameTruth DEF EntryInv, Hit, tables, history
<1> QED
  BY <1>4, <1>5, <1>6, <1>1, StillExist

\* A step that ends p and touches no table keeps what the others know.
LEMMA EndKeeps ==
  ASSUME IInv, NEW p \in Procs, End(p), UNCHANGED <<tables, since, quiet>>
  PROVE  RequestInv'
<1>1. \A q \in Procs \ {p} :
         /\ pc'[q] = "idle" => Idle(q)'
         /\ Filling(q)' => FillOk(q)'
         /\ pc'[q] \in Writers => WriterOk(q)'
         /\ pc'[q] = "remove" => RemovalOk(q)'
  BY EndType, OtherOk DEF Writers, IInv
<1> QED
  BY <1>1, EndType DEF RequestInv, Filling, Writers, IInv

LEMMA SetCacheInv ==
  ASSUME IInv, NEW p \in Procs, SetCache(p)
  PROVE  IInv'
<1> USE DEF IInv
<1> DEFINE u == job[p].user
<1>1. /\ pc[p] = "set" /\ FillOk(p) /\ End(p) /\ UNCHANGED <<tables, since, quiet>>
      /\ cache' = [cache EXCEPT ![at[p]][u] = Answer(p)]
  BY DEF SetCache, RequestInv, Filling
<1>2. u \in Users /\ Answer(p) \in Entries
  BY <1>1 DEF FillOk, Answer, Entries, TypeOK, Reads
<1>3. cache' \in [Instances -> [Users -> Entries]]
  BY <1>1, <1>2 DEF TypeOK
<1>4. TypeOK'
  BY <1>1, <1>3, EndType DEF TypeOK, tables
<1>5. RequestInv'
  BY <1>1, EndKeeps
<1>6. EntryInv'
  <2> SUFFICES ASSUME NEW i \in Instances, NEW v \in Users, Hit(i, v)'
               PROVE  LET e == cache'[i][v]
                      IN  /\ e.version <= version[v]
                          /\ e.perms = Truth(v) \/ since[v] + e.left <= TTL + FillTime
                          /\ quiet[v] /\ e.version = version[v] => e.perms = Truth(v)
    BY <1>1, SameTruth DEF EntryInv, tables
  <2>1. CASE i = at[p] /\ v = u
    <3>1. cache'[i][v] = Answer(p)
      BY <1>1, <2>1 DEF TypeOK
    <3>2. took[p] <= FillTime /\ took[p] \in Nat /\ since[v] \in Nat
      BY DEF TypeOK, LongAgo
    <3> QED
      BY <1>1, <2>1, <3>1, <3>2 DEF FillOk, Answer
  <2>2. CASE ~(i = at[p] /\ v = u)
    <3>1. cache'[i][v] = cache[i][v]
      BY <1>1, <2>2 DEF TypeOK
    <3> QED
      BY <3>1 DEF EntryInv, Hit
  <2> QED
    BY <2>1, <2>2
<1> QED
  BY <1>4, <1>5, <1>6, <1>1, StillExist

LEMMA EvictInv ==
  ASSUME IInv, NEW p \in Procs, Evict(p)
  PROVE  IInv'
<1> USE DEF IInv
<1>1. End(p) /\ UNCHANGED <<tables, since, quiet>>
  BY DEF Evict
<1>2. NoEntry \in Entries /\ ~(NoEntry.left > 0)
  BY DEF NoEntry, Entries
<1>3. /\ cache' \in [Instances -> [Users -> Entries]]
      /\ \A i \in Instances, u \in Users : cache'[i][u] = cache[i][u] \/ cache'[i][u] = NoEntry
  <2> DEFINE left == [u \in Users |-> IF u \in got[p].users THEN NoEntry ELSE cache[at[p]][u]]
  <2>1. cache' = [cache EXCEPT ![at[p]] = left]
    BY DEF Evict
  <2>2. CASE at[p] \in Instances
    <3>1. left \in [Users -> Entries]
      BY <1>2, <2>2 DEF TypeOK
    <3>2. cache' \in [Instances -> [Users -> Entries]]
      BY <2>1, <2>2, <3>1 DEF TypeOK
    <3>3. \A i \in Instances : cache'[i] = IF i = at[p] THEN left ELSE cache[i]
      BY <2>1 DEF TypeOK
    <3> QED
      BY <3>2, <3>3
  <2>3. CASE at[p] \notin Instances
    <3>1. \A i \in Instances : cache'[i] = cache[i]
      BY <2>1, <2>3 DEF TypeOK
    <3>2. cache' = cache
      BY <2>1, <2>3, <3>1 DEF TypeOK
    <3> QED
      BY <3>2 DEF TypeOK
  <2> QED
    BY <2>2, <2>3
<1>4. TypeOK'
  BY <1>1, <1>3, EndType DEF TypeOK, tables
<1>5. EntryInv'
  BY <1>1, <1>2, <1>3, SameTruth DEF EntryInv, Hit, tables
<1> QED
  BY <1>1, <1>4, <1>5, EndKeeps, StillExist

----------------------------------------------------------------------------
(* The statements of an update before its commit. *)

LEMMA UpdateRoleInv ==
  ASSUME IInv, NEW p \in Procs, NEW i \in Instances, NEW r \in Roles,
         NEW asked \in SUBSET Perms, NEW named \in BOOLEAN,
         UpdateRole(p, i, r, asked, named)
  PROVE  IInv'
<1> USE DEF IInv
<1> DEFINE met == {q \in Procs : /\ job[q].role = r /\ pc[q] \in Writers
                                 /\ ~(named /\ job[q].named)}
           j == [user |-> None, role |-> r, asked |-> asked, named |-> named]
<1>1. /\ pc[p] = "idle" /\ Idle(p) /\ state[r] = "live"
      /\ UNCHANGED <<tables, cache, got, took, since, quiet, late>>
      /\ pc' = [pc EXCEPT ![p] = "list"] /\ at' = [at EXCEPT ![p] = i]
      /\ job' = [job EXCEPT ![p] = j]
      /\ loose' = [q \in Procs |-> loose[q] \/ q \in met \/ (q = p /\ met # {})]
  BY DEF UpdateRole, Start, Goto, RequestInv, Exists
<1>2. /\ named => roleLock[r] = None
      /\ roleLock' = IF named THEN [roleLock EXCEPT ![r] = p] ELSE roleLock
  BY DEF UpdateRole, WriteRow
<1>3. j \in Jobs
  BY DEF Jobs
<1>4. TypeOK'
  BY <1>1, <1>2, <1>3 DEF TypeOK, Labels, tables
<1>5. /\ pc'[p] = "list" /\ job'[p] = j
      /\ \A q \in Procs \ {p} : pc'[q] = pc[q] /\ job'[q] = job[q] /\ got'[q] = got[q]
  BY <1>1 DEF TypeOK
<1>6. \A q \in Procs : loose'[q] <=> (loose[q] \/ q \in met \/ (q = p /\ met # {}))
  BY <1>1
<1>7. ASSUME NEW q \in Procs \ {p}, pc[q] \in Writers
      PROVE  /\ WriterOk(q) /\ job[q].role \in Roles
             /\ job[q].role = r => q \in met
             /\ q \in met => loose'[p] /\ loose'[q]
  <2>1. WriterOk(q) /\ job[q].role \in Roles
    BY <1>7 DEF RequestInv, WriterOk
  <2>2. named /\ job[q].named => job[q].role # r
    BY <1>2, <2>1 DEF WriterOk
  <2> QED
    BY <1>6, <1>7, <2>1, <2>2
<1>8. RequestInv'
  <2>1. ASSUME NEW q \in Procs \ {p}
        PROVE  /\ pc'[q] = "idle" => Idle(q)'
               /\ Filling(q)' => FillOk(q)'
               /\ pc'[q] \in Writers => WriterOk(q)'
               /\ pc'[q] = "remove" => RemovalOk(q)'
    <3>1. pc'[q] = "idle" => Idle(q)'
      BY <1>1, <1>5, <1>6 DEF RequestInv, Idle, Writers
    <3>2. Filling(q)' => FillOk(q)'
      BY <1>1, <1>5, SameTruth DEF RequestInv, Filling, FillOk, tables
    <3>3. ASSUME pc'[q] \in Writers PROVE WriterOk(q)'
      <4>1. pc[q] \in Writers /\ job'[q].role = job[q].role
        BY <1>5, <3>3
      <4>2. WriterOk(q) /\ (job[q].role = r => loose'[q] /\ loose'[p])
        BY <4>1, <1>7
      <4>3. job[q].named => roleLock'[job[q].role] = q
        BY <1>2, <4>2 DEF WriterOk, TypeOK
      <4>4. \A o \in Procs \ {q} :
               pc'[o] \in Writers /\ job'[o].role = job[q].role => loose'[q]
        BY <4>2, <1>5, <1>6 DEF WriterOk
      <4> QED
        BY <1>1, <1>5, <1>6, <4>2, <4>3, <4>4 DEF WriterOk, tables
    <3>4. pc'[q] = "remove" => RemovalOk(q)'
      BY <1>1, <1>5 DEF RequestInv, RemovalOk, Members, tables
    <3> QED
      BY <3>1, <3>2, <3>3, <3>4
  <2>2. WriterOk(p)'
    <3>1. \A q \in Procs \ {p} :
             pc'[q] \in Writers /\ job'[q].role = r => loose'[p]
      BY <1>5, <1>7
    <3>2. named => roleLock'[r] = p
      BY <1>2 DEF TypeOK
    <3> QED
      BY <1>1, <1>3, <1>5, <3>1, <3>2 DEF WriterOk, tables
  <2> QED
    BY <2>1, <2>2, <1>5 DEF RequestInv, Filling
<1>9. EntryInv'
  BY <1>1, SameTruth DEF EntryInv, Hit, tables
<1> QED
  BY <1>4, <1>8, <1>9, <1>1, StillExist

\* The statements that follow, but for what they read.
LEMMA StatementInv ==
  ASSUME IInv, NEW p \in Procs, NEW l \in Writers, NEW g \in Reads,
         pc[p] \in Writers, Goto(p, l), got' = [got EXCEPT ![p] = g],
         l # "list", pc[p] = "list" => granted[job[p].role] \subseteq g.perms,
         granted[job[p].role] \cap got[p].perms \subseteq g.perms,
         UNCHANGED <<tables, roleLock, cache, at, job, took, history>>
  PROVE  IInv'
<1> USE DEF IInv
<1>1. /\ pc' = [pc EXCEPT ![p] = l] /\ pc'[p] = l /\ got'[p] = g
      /\ \A q \in Procs \ {p} : pc'[q] = pc[q] /\ got'[q] = got[q]
  BY DEF Goto, TypeOK
<1>2. TypeOK'
  BY <1>1 DEF TypeOK, Labels, Writers, tables, history
<1>3. \A q \in Procs \ {p} :
         /\ pc'[q] = "idle" => Idle(q)'
         /\ Filling(q)' => FillOk(q)'
         /\ pc'[q] \in Writers => WriterOk(q)'
         /\ pc'[q] = "remove" => RemovalOk(q)'
  BY <1>1, OtherOk DEF history
<1>4. WriterOk(p)'
  <2>1. WriterOk(p)
    BY DEF RequestInv
  <2>2. granted[job[p].role] \subseteq Perms
    BY <2>1 DEF WriterOk, TypeOK
  <2> QED
    BY <1>1, <2>1, <2>2 DEF WriterOk, tables, history
<1>5. RequestInv'
  BY <1>1, <1>3, <1>4 DEF RequestInv, Filling, Writers
<1>6. EntryInv'
  BY SameTruth DEF EntryInv, Hit, tables, history
<1> QED
  BY <1>2, <1>5, <1>6, StillExist DEF history

LEMMA StatementsInv ==
  ASSUME IInv, NEW p \in Procs, ListRows(p) \/ DeleteRows(p) \/ InsertRows(p) \/ BumpUsers(p)
  PROVE  IInv'
<1> DEFINE r == job[p].role
<1>1. got[p] \in Reads /\ Members(r) \subseteq Users
  BY DEF IInv, TypeOK, Members
<1>5. CASE ListRows(p)
  <2> DEFINE g == [got[p] EXCEPT !.perms = granted[r]]
  <2>1. g \in Reads /\ g.perms = granted[r]
    <3>1. r \in Roles
      BY <1>5 DEF ListRows, IInv, RequestInv, WriterOk, Writers
    <3>2. granted[r] \in SUBSET (Perms \cup {Wildcard})
      BY <3>1 DEF IInv, TypeOK
    <3> QED
      BY <1>1, <3>2 DEF Reads
  <2>2. got' = [got EXCEPT ![p] = g]
    BY <1>5 DEF ListRows
  <2> HIDE DEF g
  <2> QED
    BY <1>5, <2>1, <2>2, StatementInv DEF ListRows, Writers
<1>2. CASE DeleteRows(p)
  <2> DEFINE g == [got[p] EXCEPT !.perms = @ \cap granted[r]]
  <2>1. g \in Reads /\ granted[r] \cap got[p].perms \subseteq g.perms
    BY <1>1 DEF Reads
  <2>2. got' = [got EXCEPT ![p] = g]
    BY <1>2 DEF DeleteRows
  <2> HIDE DEF g
  <2> QED
    BY <1>2, <2>1, <2>2, StatementInv DEF DeleteRows, Writers
<1>3. CASE InsertRows(p)
  <2> DEFINE g == [got[p] EXCEPT !.users = Members(r)]
  <2>1. g \in Reads /\ granted[r] \cap got[p].perms \subseteq g.perms
    BY <1>1 DEF Reads
  <2>2. got' = [got EXCEPT ![p] = g]
    BY <1>3 DEF InsertRows
  <2> HIDE DEF g
  <2> QED
    BY <1>3, <2>1, <2>2, StatementInv DEF InsertRows, Writers
<1>4. CASE BumpUsers(p)
  <2> DEFINE g == [got[p] EXCEPT !.bumped = Members(r)]
  <2>1. g \in Reads /\ granted[r] \cap got[p].perms \subseteq g.perms
    BY <1>1 DEF Reads
  <2>2. got' = [got EXCEPT ![p] = g]
    BY <1>4 DEF BumpUsers
  <2> HIDE DEF g
  <2> QED
    BY <1>4, <2>1, <2>2, StatementInv DEF BumpUsers, Writers
<1> QED
  BY <1>2, <1>3, <1>4, <1>5

----------------------------------------------------------------------------
(* Steps that change what a user may do. *)

\* A change either restarts the user's clock, and then it has a version or is not
\* quiet, or leaves the user as is: what was read before stays as true as it was.
LEMMA NotedReads ==
  ASSUME IInv, NEW announced, Noted(announced), version' \in [Users -> Nat],
         \A u \in Users : version[u] <= version'[u],
         \A u \in Users \cap announced : version[u] < version'[u],
         UNCHANGED cache, admin' \subseteq admin
  PROVE  /\ since' \in [Users -> 0..LongAgo] /\ quiet' \in [Users -> BOOLEAN]
         /\ EntryInv'
         /\ \A q \in Procs :
               Filling(q) /\ pc'[q] = pc[q] /\ job'[q] = job[q] /\ took'[q] = took[q]
               /\ got'[q].role = got[q].role /\ got'[q].version = got[q].version
               /\ got'[q].perms = got[q].perms
               => FillOk(q)'
<1> USE DEF IInv
<1>1. \A u \in Users :
         /\ Affected(u) => since'[u] = 0
         /\ ~Affected(u) => /\ since'[u] = since[u] /\ (quiet'[u] => quiet[u])
                            /\ Truth(u)' = Truth(u) /\ roleOf'[u] = roleOf[u]
         /\ quiet'[u] /\ Affected(u) => version[u] < version'[u]
  BY DEF Noted, Affected
<1>2. since' \in [Users -> 0..LongAgo] /\ quiet' \in [Users -> BOOLEAN]
  BY DEF Noted, TypeOK, LongAgo
<1>3. EntryInv'
  <2> SUFFICES ASSUME NEW i \in Instances, NEW u \in Users, cache[i][u].left > 0
               PROVE  LET e == cache[i][u]
                      IN  /\ e.version <= version'[u]
                          /\ e.perms = Truth(u)' \/ since'[u] + e.left <= TTL + FillTime
                          /\ quiet'[u] /\ e.version = version'[u] => e.perms = Truth(u)'
    BY DEF EntryInv, Hit
  <2> DEFINE e == cache[i][u]
  <2>1. e.version \in Nat /\ e.left \in 0..TTL /\ version[u] \in Nat /\ version'[u] \in Nat
    BY DEF TypeOK, Entries
  <2>2. /\ e.version <= version[u]
        /\ e.perms = Truth(u) \/ since[u] + e.left <= TTL + FillTime
        /\ quiet[u] /\ e.version = version[u] => e.perms = Truth(u)
    BY DEF EntryInv, Hit
  <2>3. e.version <= version'[u] /\ (e.version = version'[u] => e.version = version[u])
    BY <2>1, <2>2
  <2>4. CASE Affected(u)
    BY <1>1, <2>1, <2>2, <2>3, <2>4
  <2>5. CASE ~Affected(u)
    BY <1>1, <2>2, <2>3, <2>5
  <2> QED
    BY <2>4, <2>5
<1>4. ASSUME NEW q \in Procs, Filling(q), pc'[q] = pc[q], job'[q] = job[q],
             took'[q] = took[q], got'[q].role = got[q].role, got'[q].version = got[q].version,
             got'[q].perms = got[q].perms
      PROVE  FillOk(q)'
  <2> DEFINE u == job[q].user
  <2>1. FillOk(q)
    BY <1>4 DEF RequestInv
  <2>2. u \in Users /\ got[q].version \in Nat /\ version[u] \in Nat /\ version'[u] \in Nat
    BY <2>1 DEF FillOk, TypeOK, Reads
  <2>3. /\ got[q].version <= version'[u]
        /\ got[q].version = version'[u] => got[q].version = version[u]
    BY <2>1, <2>2 DEF FillOk
  <2>4. took[q] \in Nat /\ took'[q] = took[q]
    BY <1>4 DEF TypeOK
  <2>5. CASE Affected(u)
    BY <1>1, <1>4, <2>1, <2>2, <2>3, <2>4, <2>5 DEF FillOk, Filling
  <2>6. CASE ~Affected(u)
    BY <1>1, <1>4, <2>1, <2>2, <2>3, <2>4, <2>6 DEF FillOk
  <2> QED
    BY <2>5, <2>6
<1> QED
  BY <1>2, <1>3, <1>4

LEMMA CommitRoleInv ==
  ASSUME IInv, NEW p \in Procs, CommitRole(p)
  PROVE  IInv'
<1> USE DEF IInv
<1> DEFINE r == job[p].role
<1>1. /\ pc[p] = "commit" /\ WriterOk(p) /\ Noted(got[p].bumped)
      /\ UNCHANGED <<state, roleOf, admin, cache, at, took, loose, late>>
      /\ granted' = [granted EXCEPT ![r] = (@ \ got[p].perms) \cup job[p].asked]
      /\ roleLock' = [x \in Roles |-> IF roleLock[x] = p THEN None ELSE roleLock[x]]
      /\ job' = [job EXCEPT ![p] = NoJob] /\ pc' = [pc EXCEPT ![p] = "evict"]
  BY DEF CommitRole, RequestInv, Writers, Goto
<1>2. r \in Roles /\ granted' \in [Roles -> SUBSET Perms]
  <2>1. r \in Roles /\ job[p].asked \in SUBSET Perms
    BY <1>1 DEF WriterOk, TypeOK, Jobs
  <2> QED
    BY <1>1, <2>1 DEF TypeOK
<1>3. /\ version' \in [Users -> Nat] /\ \A u \in Users : version[u] <= version'[u]
      /\ \A u \in Users \cap got[p].bumped : version[u] < version'[u]
  BY DEF CommitRole, NewVersions, TypeOK
<1>4. /\ got' \in [Procs -> Reads]
      /\ \A q \in Procs \ {p} :
            /\ got'[q] = got[q] \/ job[q].role = r
            /\ got'[q].role = got[q].role /\ got'[q].version = got[q].version
  <2> DEFINE g(q) == IF q = p THEN [NoRead EXCEPT !.users = got[p].users]
                     ELSE IF job[q].role = r
                          THEN [got[q] EXCEPT !.perms = @ \ got[p].perms]
                     ELSE got[q]
  <2>1. got' = [q \in Procs |-> g(q)]
    BY DEF CommitRole
  <2>2. ASSUME NEW q \in Procs PROVE g(q) \in Reads
    <3>1. got[q] \in Reads /\ got[p] \in Reads
      BY DEF TypeOK
    <3>2. [NoRead EXCEPT !.users = got[p].users] \in Reads
      BY <3>1 DEF Reads, NoRead
    <3>3. [got[q] EXCEPT !.perms = @ \ got[p].perms] \in Reads
      BY <3>1 DEF Reads
    <3> QED
      BY <3>1, <3>2, <3>3
  <2>3. \A q \in Procs \ {p} : /\ g(q) = got[q] \/ job[q].role = r
                               /\ g(q).role = got[q].role /\ g(q).version = got[q].version
    BY DEF TypeOK, Reads
  <2> HIDE DEF g
  <2> QED
    BY <2>1, <2>2, <2>3
<1>5. TypeOK'
  <2>1. NoJob \in Jobs
    BY DEF NoJob, Jobs
  <2>2. since' \in [Users -> 0..LongAgo] /\ quiet' \in [Users -> BOOLEAN]
    BY <1>1, <1>3, NotedReads
  <2> QED
    BY <1>1, <1>2, <1>3, <1>4, <2>1, <2>2 DEF TypeOK, Labels
<1>6. /\ pc'[p] = "evict"
      /\ \A q \in Procs \ {p} : pc'[q] = pc[q] /\ job'[q] = job[q]
  BY <1>1 DEF TypeOK
<1>7. ASSUME NEW q \in Procs \ {p}
      PROVE  /\ pc'[q] = "idle" => Idle(q)'
             /\ Filling(q)' => FillOk(q)'
             /\ pc'[q] \in Writers => WriterOk(q)'
             /\ pc'[q] = "remove" => RemovalOk(q)'
  <2>1. pc'[q] = "idle" => Idle(q)'
    <3>1. pc[q] = "idle" => Idle(q) /\ job[q].role # r
      <4>1. NoJob.role = None /\ None \notin Roles
        BY DEF NoJob
      <4>2. pc[q] = "idle" => Idle(q)
        BY DEF RequestInv
      <4> QED
        BY <1>2, <4>1, <4>2 DEF Idle
    <3>2. took' = took /\ late' = late /\ loose' = loose
      BY <1>1
    <3>3. job[q].role # r => got'[q] = got[q]
      BY <1>4
    <3> QED
      BY <1>6, <3>1, <3>2, <3>3 DEF Idle
  <2>2. Filling(q)' => FillOk(q)'
    <3>1. Filling(q) => job[q].role # r
      BY <1>2 DEF RequestInv, FillOk
    <3>2. Filling(q)' => Filling(q)
      BY <1>6 DEF Filling
    <3> QED
      BY <1>1, <1>3, <1>4, <1>6, <3>1, <3>2, NotedReads
  <2>3. ASSUME pc'[q] \in Writers PROVE WriterOk(q)'
    <3>1. WriterOk(q) /\ pc[q] \in Writers
      BY <1>6, <2>3 DEF RequestInv
    <3>2. job[q].role = r => loose[q]
      BY <1>1, <3>1 DEF WriterOk, Writers
    <3>3. job[q].role # r => granted'[job[q].role] = granted[job[q].role] /\ got'[q] = got[q]
      BY <1>1, <1>4, <3>1 DEF WriterOk, TypeOK
    <3>4. job[q].named => roleLock'[job[q].role] = q
      BY <1>1, <3>1 DEF WriterOk
    <3>5. \A o \in Procs \ {q} :
             pc'[o] \in Writers /\ job'[o].role = job[q].role => loose[q]
      BY <1>6, <3>1 DEF WriterOk, Writers
    <3> QED
      BY <1>1, <1>6, <3>1, <3>2, <3>3, <3>4, <3>5 DEF WriterOk
  <2>4. pc'[q] = "remove" => RemovalOk(q)'
    BY <1>1, <1>6 DEF RequestInv, RemovalOk, Members
  <2> QED
    BY <2>1, <2>2, <2>3, <2>4
<1>8. RequestInv'
  BY <1>6, <1>7 DEF RequestInv, Filling, Writers
<1>9. EntryInv' /\ RolesExist'
  BY <1>1, <1>3, NotedReads DEF RolesExist, Exists
<1> QED
  BY <1>5, <1>8, <1>9

LEMMA DeleteRoleInv ==
  ASSUME IInv, NEW p \in Procs, DeleteRole(p)
  PROVE  IInv'
<1> USE DEF IInv
<1> DEFINE r == job[p].role
<1>1. /\ pc[p] = "remove" /\ r \in Roles /\ Noted({}) /\ End(p)
      /\ UNCHANGED <<admin, version, cache>>
      /\ state' = [state EXCEPT ![r] = "removed"] /\ granted' = [granted EXCEPT ![r] = {}]
      /\ roleOf' = [u \in Users |-> IF roleOf[u] = r THEN None ELSE roleOf[u]]
  BY DEF DeleteRole, RequestInv, RemovalOk
<1>2. \A u \in Users : version[u] <= version'[u]
  BY <1>1 DEF TypeOK
<1>3. /\ since' \in [Users -> 0..LongAgo] /\ quiet' \in [Users -> BOOLEAN] /\ EntryInv'
      /\ \A q \in Procs \ {p} : Filling(q) => FillOk(q)'
  <2>1. version' \in [Users -> Nat]
    BY <1>1 DEF TypeOK
  <2> QED
    BY <1>1, <1>2, <2>1, EndType, NotedReads
<1>4. TypeOK'
  <2>1. roleOf' \in [Users -> Roles \cup {None}]
    BY <1>1 DEF TypeOK
  <2>2. state' \in [Roles -> {"unborn", "live", "removed"}] /\ granted' \in [Roles -> SUBSET Perms]
    BY <1>1 DEF TypeOK
  <2> QED
    BY <1>1, <1>3, <2>1, <2>2, EndType DEF TypeOK
<1>5. RequestInv'
  <2>1. ASSUME NEW q \in Procs \ {p}
        PROVE  /\ pc'[q] = "idle" => Idle(q)'
               /\ Filling(q)' => FillOk(q)'
               /\ pc'[q] \in Writers => WriterOk(q)'
               /\ pc'[q] = "remove" => RemovalOk(q)'
    <3>1. pc'[q] = "idle" => Idle(q)'
      BY <1>1, EndType DEF RequestInv, Idle
    <3>2. Filling(q)' => FillOk(q)'
      BY <1>1, <1>3, EndType DEF Filling
    <3>3. ASSUME pc'[q] \in Writers PROVE WriterOk(q)'
      <4>1. WriterOk(q) /\ pc[q] \in Writers
        BY <1>1, <3>3, EndType DEF RequestInv
      <4>2. \A o \in Procs \ {q} :
               pc'[o] \in Writers /\ job'[o].role = job[q].role => loose[q]
        <5>1. pc'[p] = "idle"
          BY <1>1, EndType
        <5> QED
          BY <1>1, <4>1, <5>1, EndType DEF WriterOk, Writers
      <4>3. /\ granted'[job[q].role] \subseteq granted[job[q].role]
            /\ state'[job[q].role] # "unborn"
        BY <1>1, <4>1 DEF WriterOk, TypeOK
      <4> QED
        BY <1>1, <4>1, <4>2, <4>3, EndType DEF WriterOk
    <3>4. pc'[q] = "remove" => RemovalOk(q)'
      BY <1>1, EndType DEF RequestInv, RemovalOk, Members
    <3> QED
      BY <3>1, <3>2, <3>3, <3>4
  <2> QED
    BY <1>1, <2>1, EndType DEF RequestInv, Filling, Writers
<1>6. RolesExist'
  BY <1>1 DEF RolesExist, Exists, TypeOK
<1> QED
  BY <1>3, <1>4, <1>5, <1>6

LEMMA UpdateUserInv ==
  ASSUME IInv, NEW u \in Users, NEW r \in Roles \cup {None}, NEW plain \in BOOLEAN,
         UpdateUser(u, r, plain)
  PROVE  IInv'
<1> USE DEF IInv
<1>1. /\ r = None \/ r = roleOf[u] \/ Exists(r)
      /\ admin' \subseteq admin
      /\ roleOf' = [roleOf EXCEPT ![u] = r] /\ Noted({})
      /\ UNCHANGED <<state, granted, version, roleLock, cache, requests, took, loose>>
      /\ late' = [p \in Procs |->
                     IF pc[p] = "remove" /\ job[p].role = r THEN late[p] \cup {u} ELSE late[p]]
  BY DEF UpdateUser
<1>2. \A v \in Users : version[v] <= version'[v]
  BY <1>1 DEF TypeOK
<1>3. /\ since' \in [Users -> 0..LongAgo] /\ quiet' \in [Users -> BOOLEAN] /\ EntryInv'
      /\ \A q \in Procs : Filling(q) => FillOk(q)'
  <2>1. version' \in [Users -> Nat]
    BY <1>1 DEF TypeOK
  <2> QED
    BY <1>1, <1>2, <2>1, NotedReads DEF requests
<1>4. TypeOK'
  <2>1. roleOf' \in [Users -> Roles \cup {None}] /\ late' \in [Procs -> SUBSET Users]
    BY <1>1 DEF TypeOK
  <2> QED
    BY <1>1, <1>3, <2>1 DEF TypeOK, requests
<1>5. RequestInv'
  <2> SUFFICES ASSUME NEW q \in Procs
               PROVE  /\ pc'[q] = "idle" => Idle(q)'
                      /\ pc'[q] \in Writers => WriterOk(q)'
                      /\ pc'[q] = "remove" => RemovalOk(q)'
    BY <1>1, <1>3 DEF RequestInv, Filling, requests
  <2>1. pc'[q] = "idle" => Idle(q)'
    BY <1>1 DEF RequestInv, Idle, requests
  <2>2. pc'[q] \in Writers => WriterOk(q)'
    BY <1>1 DEF RequestInv, WriterOk, requests
  <2>3. ASSUME pc'[q] = "remove" PROVE RemovalOk(q)'
    <3>1. RemovalOk(q) /\ pc[q] = "remove"
      BY <1>1, <2>3 DEF RequestInv, requests
    <3>2. \A v \in Users : roleOf'[v] = IF v = u THEN r ELSE roleOf[v]
      BY <1>1 DEF TypeOK
    <3> QED
      BY <1>1, <3>1, <3>2 DEF RemovalOk, Members, requests
  <2> QED
    BY <2>1, <2>2, <2>3
<1>6. RolesExist'
  BY <1>1 DEF RolesExist, Exists, TypeOK
<1> QED
  BY <1>3, <1>4, <1>5, <1>6

\* A new role is nobody's yet.
LEMMA CreateRoleInv ==
  ASSUME IInv, NEW r \in Roles, NEW asked \in SUBSET Perms, CreateRole(r, asked)
  PROVE  IInv'
<1> USE DEF IInv
<1>1. /\ state[r] = "unborn" /\ state' = [state EXCEPT ![r] = "live"]
      /\ granted' = [granted EXCEPT ![r] = asked]
      /\ UNCHANGED <<roleOf, admin, version, roleLock, cache, requests, took, history>>
  BY DEF CreateRole
<1>2. TypeOK'
  BY <1>1 DEF TypeOK, requests, history
<1>3. RolesExist' /\ \A u \in Users : Truth(u)' = Truth(u)
  BY <1>1 DEF RolesExist, Exists, Truth, TypeOK
<1>4. RequestInv'
  <2> SUFFICES ASSUME NEW q \in Procs
               PROVE  /\ pc'[q] = "idle" => Idle(q)'
                      /\ Filling(q)' => FillOk(q)'
                      /\ pc'[q] \in Writers => WriterOk(q)'
                      /\ pc'[q] = "remove" => RemovalOk(q)'
    BY DEF RequestInv
  <2>1. pc'[q] = "idle" => Idle(q)'
    BY <1>1 DEF RequestInv, Idle, requests, history
  <2>2. Filling(q)' => FillOk(q)'
    BY <1>1, <1>3 DEF RequestInv, Filling, FillOk, requests, history
  <2>3. ASSUME pc'[q] \in Writers PROVE WriterOk(q)'
    <3>1. WriterOk(q)
      BY <1>1, <2>3 DEF RequestInv, requests
    <3>2. /\ job[q].role # r /\ granted'[job[q].role] = granted[job[q].role]
          /\ state'[job[q].role] = state[job[q].role]
      BY <1>1, <3>1 DEF WriterOk, TypeOK
    <3> QED
      BY <1>1, <3>1, <3>2 DEF WriterOk, requests, history
  <2>4. pc'[q] = "remove" => RemovalOk(q)'
    BY <1>1 DEF RequestInv, RemovalOk, Members, requests, history
  <2> QED
    BY <2>1, <2>2, <2>3, <2>4
<1>5. EntryInv'
  BY <1>1, <1>3 DEF EntryInv, Hit, history
<1> QED
  BY <1>2, <1>3, <1>4, <1>5

LEMMA CountUsersInv ==
  ASSUME IInv, NEW p \in Procs, NEW r \in Roles, CountUsers(p, r)
  PROVE  IInv'
<1> USE DEF IInv
<1>1. /\ pc[p] = "idle" /\ Members(r) = {}
      /\ pc' = [pc EXCEPT ![p] = "remove"] /\ at' = [at EXCEPT ![p] = None]
      /\ job' = [job EXCEPT ![p] = [NoJob EXCEPT !.role = r]]
      /\ late' = [late EXCEPT ![p] = {}]
      /\ UNCHANGED <<tables, roleLock, cache, got, took, since, quiet, loose>>
  BY DEF CountUsers, Start, Goto, Unused
<1>2. [NoJob EXCEPT !.role = r] \in Jobs /\ [NoJob EXCEPT !.role = r].role = r
  BY DEF NoJob, Jobs
<1>3. TypeOK'
  BY <1>1, <1>2 DEF TypeOK, Labels, tables
<1>4. pc'[p] = "remove" /\ job'[p].role = r
  BY <1>1, <1>2 DEF TypeOK
<1>5. RequestInv'
  <2>1. \A q \in Procs \ {p} :
           /\ pc'[q] = "idle" => Idle(q)'
           /\ Filling(q)' => FillOk(q)'
           /\ pc'[q] \in Writers => WriterOk(q)'
           /\ pc'[q] = "remove" => RemovalOk(q)'
    BY <1>1, <1>4, OtherOk DEF TypeOK, Writers
  <2>2. RemovalOk(p)'
    BY <1>1, <1>4 DEF RemovalOk, Members, tables
  <2> QED
    BY <1>4, <2>1, <2>2 DEF RequestInv, Filling, Writers
<1>6. EntryInv'
  BY <1>1, SameTruth DEF EntryInv, Hit, tables
<1> QED
  BY <1>1, <1>3, <1>5, <1>6, StillExist

----------------------------------------------------------------------------
(* The environment. *)

LEMMA CrashInv ==
  ASSUME IInv, NEW i \in Instances, Crash(i)
  PROVE  IInv'
<1> USE DEF IInv
<1> DEFINE dead == {p \in Procs : at[p] = i}
<1>1. /\ cache' = [cache EXCEPT ![i] = [u \in Users |-> NoEntry]]
      /\ pc' = [p \in Procs |-> IF p \in dead THEN "idle" ELSE pc[p]]
      /\ at' = [p \in Procs |-> IF p \in dead THEN None ELSE at[p]]
      /\ job' = [p \in Procs |-> IF p \in dead THEN NoJob ELSE job[p]]
      /\ got' = [p \in Procs |-> IF p \in dead THEN NoRead ELSE got[p]]
      /\ took' = [p \in Procs |-> IF p \in dead THEN 0 ELSE took[p]]
      /\ late' = [p \in Procs |-> IF p \in dead THEN {} ELSE late[p]]
      /\ loose' = [p \in Procs |-> p \notin dead /\ loose[p]]
      /\ roleLock' = [r \in Roles |-> IF roleLock[r] \in dead THEN None ELSE roleLock[r]]
      /\ UNCHANGED <<tables, since, quiet>>
  BY DEF Crash
<1>2. NoEntry \in Entries /\ ~(NoEntry.left > 0) /\ NoJob \in Jobs /\ NoRead \in Reads
  BY DEF NoEntry, Entries, NoJob, Jobs, NoRead, Reads
<1>3. /\ cache' \in [Instances -> [Users -> Entries]]
      /\ \A j \in Instances, u \in Users : cache'[j][u] = cache[j][u] \/ cache'[j][u] = NoEntry
  BY <1>1, <1>2 DEF TypeOK
<1>4. TypeOK'
  <2>1. 0 \in 0..FillTime /\ "idle" \in Labels
    BY DEF Labels
  <2>2. /\ pc' \in [Procs -> Labels] /\ at' \in [Procs -> Instances \cup {None}]
        /\ job' \in [Procs -> Jobs] /\ got' \in [Procs -> Reads]
    BY <1>1, <1>2, <2>1 DEF TypeOK
  <2>3. /\ took' \in [Procs -> 0..FillTime] /\ late' \in [Procs -> SUBSET Users]
        /\ loose' \in [Procs -> BOOLEAN] /\ roleLock' \in [Roles -> Procs \cup {None}]
    BY <1>1, <2>1 DEF TypeOK
  <2> QED
    BY <1>1, <1>3, <2>2, <2>3 DEF TypeOK, tables
<1>5. RequestInv'
  <2> SUFFICES ASSUME NEW q \in Procs
               PROVE  /\ pc'[q] = "idle" => Idle(q)'
                      /\ Filling(q)' => FillOk(q)'
                      /\ pc'[q] \in Writers => WriterOk(q)'
                      /\ pc'[q] = "remove" => RemovalOk(q)'
    BY DEF RequestInv
  <2>1. CASE q \in dead
    BY <1>1, <2>1 DEF Idle, Filling, Writers
  <2>2. CASE q \notin dead
    <3>1. /\ pc'[q] = pc[q] /\ job'[q] = job[q] /\ got'[q] = got[q] /\ took'[q] = took[q]
          /\ late'[q] = late[q] /\ (loose'[q] <=> loose[q])
          /\ \A r \in Roles : roleLock[r] = q => roleLock'[r] = q
      BY <1>1, <2>2
    <3>4. \A o \in Procs : pc'[o] \in Writers => pc'[o] = pc[o] /\ job'[o] = job[o]
      BY <1>1 DEF Writers
    <3>2. (pc'[q] = "idle" => Idle(q)') /\ (Filling(q)' => FillOk(q)')
      BY <1>1, <3>1, SameTruth DEF RequestInv, Idle, Filling, FillOk, tables
    <3>3. (pc'[q] \in Writers => WriterOk(q)') /\ (pc'[q] = "remove" => RemovalOk(q)')
      BY <1>1, <3>1, <3>4 DEF RequestInv, WriterOk, RemovalOk, Members, tables
    <3> QED
      BY <3>2, <3>3
  <2> QED
    BY <2>1, <2>2
<1>6. EntryInv'
  BY <1>1, <1>2, <1>3, SameTruth DEF EntryInv, Hit, tables
<1> QED
  BY <1>1, <1>4, <1>5, <1>6, StillExist

LEMMA TickInv ==
  ASSUME IInv, Tick
  PROVE  IInv'
<1> USE DEF IInv
<1>1. /\ \A p \in Procs : Filling(p) => took[p] < FillTime
      /\ took' = [p \in Procs |-> IF Filling(p) THEN took[p] + 1 ELSE 0]
      /\ cache' = [i \in Instances |-> [u \in Users |-> Aged(cache[i][u])]]
      /\ since' = [u \in Users |-> IF since[u] < LongAgo THEN since[u] + 1 ELSE LongAgo]
      /\ \A u \in Users : quiet'[u] =>
            \/ quiet[u]
            \/ /\ \A i \in Instances : cache'[i][u].left = 0
               /\ \A p \in Procs : Filling(p) => job[p].user # u
      /\ quiet' \in [Users -> BOOLEAN]
      /\ UNCHANGED <<tables, roleLock, requests, loose, late>>
  BY DEF Tick, TypeOK
<1>2. \A e \in Entries :
         /\ Aged(e) \in Entries
         /\ Aged(e).left > 0 => /\ Aged(e).left = e.left - 1 /\ e.left > 0
                                /\ Aged(e).perms = e.perms /\ Aged(e).version = e.version
  BY DEF Aged, Entries, NoEntry
<1>3. \A u \in Users : since'[u] \in 0..LongAgo /\ since'[u] <= since[u] + 1
  BY <1>1 DEF TypeOK, LongAgo
<1>4. TypeOK'
  <2>1. took' \in [Procs -> 0..FillTime]
    BY <1>1 DEF TypeOK
  <2>2. cache' \in [Instances -> [Users -> Entries]]
    BY <1>1, <1>2 DEF TypeOK
  <2>3. since' \in [Users -> 0..LongAgo]
    BY <1>1, <1>3
  <2> QED
    BY <1>1, <2>1, <2>2, <2>3 DEF TypeOK, tables, requests
<1>5. EntryInv'
  <2> SUFFICES ASSUME NEW i \in Instances, NEW u \in Users, Hit(i, u)'
               PROVE  LET e == cache'[i][u]
                      IN  /\ e.version <= version[u]
                          /\ e.perms = Truth(u) \/ since'[u] + e.left <= TTL + FillTime
                          /\ quiet'[u] /\ e.version = version[u] => e.perms = Truth(u)
    BY <1>1, SameTruth DEF EntryInv, tables
  <2> DEFINE e == cache[i][u]
  <2>1. e \in Entries /\ cache'[i][u] = Aged(e) /\ since[u] \in Nat /\ e.left \in Nat
    BY <1>1 DEF TypeOK, Entries
  <2>2. Aged(e).left > 0
    BY <2>1 DEF Hit
  <2>3. Hit(i, u) /\ quiet'[u] => quiet[u]
    BY <1>1, <2>1, <2>2
  <2>4. /\ Hit(i, u) /\ cache'[i][u].left = e.left - 1
        /\ cache'[i][u].perms = e.perms /\ cache'[i][u].version = e.version
    BY <1>2, <2>1, <2>2 DEF Hit
  <2>5. /\ e.version <= version[u]
        /\ e.perms = Truth(u) \/ since[u] + e.left <= TTL + FillTime
        /\ quiet[u] /\ e.version = version[u] => e.perms = Truth(u)
    BY <2>4 DEF EntryInv
  <2>6. since[u] + e.left <= TTL + FillTime => since'[u] + (e.left - 1) <= TTL + FillTime
    BY <1>3, <2>1
  <2> QED
    BY <2>3, <2>4, <2>5, <2>6
<1>6. RequestInv'
  <2> SUFFICES ASSUME NEW q \in Procs
               PROVE  /\ pc[q] = "idle" => Idle(q)'
                      /\ Filling(q) => FillOk(q)'
                      /\ pc[q] \in Writers => WriterOk(q)'
                      /\ pc[q] = "remove" => RemovalOk(q)'
    BY <1>1 DEF RequestInv, Filling, requests
  <2>1. pc[q] = "idle" => Idle(q)'
    BY <1>1 DEF RequestInv, Idle, Filling, requests
  <2>2. ASSUME Filling(q) PROVE FillOk(q)'
    <3>1. FillOk(q) /\ took'[q] = took[q] + 1
      BY <1>1, <2>2 DEF RequestInv
    <3>2. job[q].user \in Users /\ (quiet'[job[q].user] => quiet[job[q].user])
      BY <1>1, <2>2, <3>1 DEF FillOk
    <3>3. since[job[q].user] <= took[q] => since'[job[q].user] <= took'[q]
      BY <1>3, <3>1, <3>2 DEF TypeOK, LongAgo
    <3> QED
      BY <1>1, <3>1, <3>2, <3>3, SameTruth DEF FillOk, tables, requests
  <2>3. pc[q] \in Writers => WriterOk(q)'
    BY <1>1 DEF RequestInv, WriterOk, tables, requests
  <2>4. pc[q] = "remove" => RemovalOk(q)'
    BY <1>1 DEF RequestInv, RemovalOk, Members, tables, requests
  <2> QED
    BY <2>1, <2>2, <2>3, <2>4
<1> QED
  BY <1>1, <1>4, <1>5, <1>6, StillExist

LEMMA StutterInv == IInv /\ UNCHANGED vars => IInv'
<1> SUFFICES ASSUME IInv, UNCHANGED vars PROVE IInv'
  OBVIOUS
<1> USE DEF IInv
<1>1. UNCHANGED <<tables, roleLock, cache, requests, took, history>>
  BY DEF vars
<1>2. TypeOK' /\ RolesExist'
  BY <1>1, StillExist DEF TypeOK, tables, requests, history
<1>3. RequestInv'
  BY <1>1, SameTruth DEF RequestInv, Idle, Filling, FillOk, WriterOk, RemovalOk, Members,
                         tables, requests, history
<1>4. EntryInv'
  BY <1>1, SameTruth DEF EntryInv, Hit, tables, history
<1> QED
  BY <1>2, <1>3, <1>4

----------------------------------------------------------------------------

LEMMA NextInv == IInv /\ [Next]_vars => IInv'
<1> SUFFICES ASSUME IInv, [Next]_vars PROVE IInv'
  OBVIOUS
<1> USE AccessAssumption
<1>1. ASSUME NEW p \in Procs, NEW i \in Instances, Begin(p, i) PROVE IInv'
  <2>1. CASE \E u \in Users : ReadUser(p, i, u)
    BY <2>1, ReadUserInv
  <2>2. CASE \E r \in Roles, named \in BOOLEAN : \E asked \in Asked[r] :
                UpdateRole(p, i, r, asked, named)
    <3>1. PICK r \in Roles, named \in BOOLEAN :
             \E asked \in Asked[r] : UpdateRole(p, i, r, asked, named)
      BY <2>2
    <3>2. PICK asked \in Asked[r] : UpdateRole(p, i, r, asked, named)
      BY <3>1
    <3>3. asked \in SUBSET Perms
      BY AccessAssumption
    <3> QED
      BY <3>2, <3>3, UpdateRoleInv
  <2> QED
    BY <1>1, <2>1, <2>2 DEF Begin
<1>2. ASSUME NEW p \in Procs, Step(p) \/ Fail(p) PROVE IInv'
  BY <1>2, FailInv, ReadPermsInv, SetCacheInv, StatementsInv, CommitRoleInv, EvictInv,
     DeleteRoleInv DEF Step
<1>3. ASSUME NEW r \in Roles, NEW asked \in Asked[r], CreateRole(r, asked) PROVE IInv'
  <2>1. asked \in SUBSET Perms
    BY AccessAssumption
  <2> QED
    BY <1>3, <2>1, CreateRoleInv
<1>4. CASE UNCHANGED vars
  BY <1>4, StutterInv
<1> QED
  BY <1>1, <1>2, <1>3, <1>4, CountUsersInv, UpdateUserInv, CrashInv, TickInv DEF Next

----------------------------------------------------------------------------
(* Which step it was. *)

LEMMA OneCommits ==
  ASSUME TypeOK, [Next]_vars, NEW p \in Procs, pc[p] = "commit", pc'[p] = "evict"
  PROVE  CommitRole(p)
<1>0. pc \in [Procs -> Labels]
  BY DEF TypeOK
<1>1. ASSUME NEW q \in Procs, NEW i \in Instances, Begin(q, i) PROVE FALSE
  BY <1>0, <1>1 DEF Begin, ReadUser, UpdateRole, Start, Goto
<1>2. ASSUME NEW q \in Procs, Step(q) \/ Fail(q) PROVE CommitRole(p)
  <2>1. CASE CommitRole(q)
    BY <1>0, <2>1 DEF CommitRole, Goto
  <2>2. CASE SetCache(q) \/ Evict(q) \/ DeleteRole(q) \/ Fail(q)
    BY <1>0, <2>2 DEF SetCache, Evict, DeleteRole, Fail, End, Goto
  <2>3. CASE ReadPerms(q) \/ ListRows(q) \/ DeleteRows(q) \/ InsertRows(q) \/ BumpUsers(q)
    BY <1>0, <2>3 DEF ReadPerms, ListRows, DeleteRows, InsertRows, BumpUsers, Goto
  <2> QED
    BY <1>2, <2>1, <2>2, <2>3 DEF Step
<1>3. ASSUME NEW q \in Procs, NEW r \in Roles, CountUsers(q, r) PROVE FALSE
  BY <1>0, <1>3 DEF CountUsers, Start, Goto
<1>4. ASSUME NEW i \in Instances, Crash(i) PROVE FALSE
  BY <1>0, <1>4 DEF Crash
<1>5. ASSUME UNCHANGED pc PROVE FALSE
  BY <1>5
<1> QED
  BY <1>1, <1>2, <1>3, <1>4, <1>5
     DEF Next, CreateRole, UpdateUser, Tick, vars, requests

LEMMA OneRemoves ==
  ASSUME IInv, [Next]_vars, NEW r \in Roles, Exists(r), state'[r] = "removed"
  PROVE  \E p \in Procs : DeleteRole(p) /\ job[p].role = r
<1> SUFFICES ASSUME \A p \in Procs : ~(DeleteRole(p) /\ job[p].role = r)
             PROVE  state'[r] = state[r]
  BY DEF Exists
<1>1. ASSUME NEW p \in Procs, NEW i \in Instances, Begin(p, i) PROVE UNCHANGED state
  BY <1>1 DEF Begin, ReadUser, UpdateRole, tables
<1>2. ASSUME NEW p \in Procs, Step(p) \/ Fail(p) PROVE state'[r] = state[r]
  <2>1. CASE DeleteRole(p)
    BY <2>1 DEF DeleteRole, IInv, TypeOK
  <2> QED
    BY <1>2, <2>1 DEF Step, ReadPerms, SetCache, ListRows, DeleteRows, InsertRows, BumpUsers,
                      CommitRole, Evict, Fail, tables
<1>3. ASSUME NEW x \in Roles, NEW asked \in Asked[x], CreateRole(x, asked)
      PROVE  state'[r] = state[r]
  BY <1>3 DEF CreateRole, Exists, IInv, TypeOK
<1> QED
  BY <1>1, <1>2, <1>3 DEF Next, CountUsers, UpdateUser, Crash, Tick, vars, tables

----------------------------------------------------------------------------

\* What every look-up, update and entry still knows, whatever commits meanwhile.
THEOREM Coherent == Spec => []IInv
<1>1. IInv /\ [Next]_vars => IInv'
  BY NextInv
<1> QED
  BY InitInv, <1>1, PTL DEF Spec

\* An answer that is out of date is at most TTL and a look-up's time out of date,
\* on any number of instances.
THEOREM Fresh == Spec => []BoundedStaleness
<1>1. IInv => BoundedStaleness
  BY DEF IInv, EntryInv, BoundedStaleness, TypeOK, Entries, LongAgo
<1> QED
  BY <1>1, Coherent, PTL

\* An answer with the user's present version is what the user may do now.
THEOREM Versioned == Spec => []VersionTells
<1>1. IInv => VersionTells
  BY DEF IInv, EntryInv, VersionTells
<1> QED
  BY <1>1, Coherent, PTL

\* Two updates of a role that both lock it, or do not meet, leave one whole set.
THEOREM Whole == Spec => WholeSets
<1>1. ASSUME IInv, [Next]_vars, NEW p \in Procs,
             pc[p] = "commit", pc'[p] = "evict", ~loose[p]
      PROVE  granted'[job[p].role] = job[p].asked
  <2>1. CommitRole(p)
    BY <1>1, OneCommits DEF IInv
  <2>2. WriterOk(p)
    BY <1>1 DEF IInv, RequestInv, Writers
  <2>3. granted \in [Roles -> SUBSET Perms] /\ job[p].role \in Roles
        /\ granted[job[p].role] \subseteq got[p].perms
    BY <1>1, <2>2 DEF WriterOk, IInv, TypeOK
  <2>4. granted'[job[p].role] = (granted[job[p].role] \ got[p].perms) \cup job[p].asked
    BY <2>1, <2>3 DEF CommitRole
  <2> QED
    BY <2>3, <2>4
<1>2. IInv /\ [Next]_vars
      => [\A p \in Procs : pc[p] = "commit" /\ pc'[p] = "evict" /\ ~loose[p]
            => granted'[job[p].role] = job[p].asked]_vars
  BY <1>1
<1> QED
  BY <1>2, Coherent, PTL DEF Spec, WholeSets

\* A role is removed from nobody but those who got it after its users were counted.
THEOREM RoleKept == Spec => KeepsItsRole
<1>1. ASSUME IInv, [Next]_vars, NEW r \in Roles, Exists(r), state'[r] = "removed"
      PROVE  \E p \in Procs : /\ pc[p] = "remove" /\ job[p].role = r
                              /\ Members(r) \subseteq late[p]
  <2>1. PICK p \in Procs : DeleteRole(p) /\ job[p].role = r
    BY <1>1, OneRemoves
  <2>2. RemovalOk(p) /\ pc[p] = "remove"
    BY <1>1, <2>1 DEF DeleteRole, IInv, RequestInv
  <2> QED
    BY <2>1, <2>2 DEF RemovalOk
<1>2. IInv /\ [Next]_vars
      => [\A r \in Roles : Exists(r) /\ state'[r] = "removed"
            => \E p \in Procs : /\ pc[p] = "remove" /\ job[p].role = r
                                /\ Members(r) \subseteq late[p]]_vars
  BY <1>1
<1> QED
  BY <1>2, Coherent, PTL DEF Spec, KeepsItsRole

----------------------------------------------------------------------------
(* The registry.  A step by one request leaves the others what they know,   *)
(* but for what it adds to since.                                           *)

HIDE AccessAssumption

LEMMA TaskIs ==
  ASSUME NEW op, NEW l, NEW d, NEW k, NEW ws, NEW del
  PROVE  LET t == Task(op, l, d, k, ws, del)
         IN  /\ t.op = op /\ t.pc = l /\ t.d = d /\ t.key = k /\ t.set = ws /\ t.del = del
             /\ t.since = {}
             /\ op \in Ops \cup {None} /\ l \in Pcs /\ d \in Records \cup {None}
                /\ k \in Keys \cup Devices \cup {None} /\ ws \subseteq Warehouses \cup Devices
                /\ del \subseteq Warehouses \cup Accounts => t \in Tasks
  BY DEF Task, Tasks

\* What another request's step may do to o.
Followed(o) ==
    /\ req'[o].op = req[o].op /\ req'[o].pc = req[o].pc /\ req'[o].d = req[o].d
    /\ req'[o].key = req[o].key /\ req'[o].set = req[o].set /\ req'[o].del = req[o].del
    /\ req[o].since \subseteq req'[o].since
    /\ req[o].op \notin {"appoint", "replace"} => req'[o].since \subseteq req[o].since \cup Records

LEMMA FollowedHolds ==
  ASSUME NEW o, Followed(o)
  PROVE  /\ HeldBy(o)' = HeldBy(o) /\ NewBy(o)' = NewBy(o)
         /\ TaskOk(o) => TaskOk(o)'
  BY DEF Followed, HeldBy, NewBy, Replacing, At, TaskOk

LEMMA OthersApart ==
  ASSUME RegistryInv, NEW q \in Procs, \A o \in Procs \ {q} : Followed(o),
         TaskOk(q)', \A o \in Procs \ {q} : Apart(q, o)', TokenMine(q)'
  PROVE  /\ RowsApart'
         /\ \A o \in Procs : TaskOk(o)'
         /\ \A o \in Procs \ {q} :
               At(o, "register", "commit")' => (SameToken(o) = {})'
<1>1. \A o \in Procs \ {q} : /\ HeldBy(o)' = HeldBy(o) /\ NewBy(o)' = NewBy(o)
                             /\ TaskOk(o)'
                             /\ req'[o].op = req[o].op /\ req'[o].del = req[o].del
                             /\ req'[o].set = req[o].set
  BY FollowedHolds DEF RegistryInv, Followed
<1>2. RowsApart'
  <2> SUFFICES ASSUME NEW x \in Procs, NEW y \in Procs, x # y PROVE Apart(x, y)'
    BY DEF RowsApart
  <2>1. CASE x = q
    BY <2>1
  <2>2. CASE y = q
    <3>1. Apart(q, x)'
      BY <2>2
    <3> QED
      BY <3>1, <2>2 DEF Apart
  <2>3. CASE x # q /\ y # q
    <3>1. Apart(x, y)
      BY DEF RegistryInv, RowsApart
    <3> QED
      BY <1>1, <2>3, <3>1 DEF Apart
  <2> QED
    BY <2>1, <2>2, <2>3
<1>3. ASSUME NEW o \in Procs \ {q}, At(o, "register", "commit")'
      PROVE  (SameToken(o) = {})'
  <2>1. SameToken(o) = {} /\ At(o, "register", "commit") /\ req'[o].key = req[o].key
    BY <1>3 DEF RegistryInv, TokenMine, Followed, At
  <2>2. ASSUME NEW x \in Procs \ {o}, At(x, "register", "commit")',
               req'[x].key = req'[o].key, req'[o].key # None
        PROVE  FALSE
    <3>1. CASE x = q
      BY <1>3, <2>2, <3>1 DEF TokenMine, SameToken
    <3>2. CASE x # q
      <4>1. At(x, "register", "commit") /\ req[x].key = req[o].key /\ req[o].key # None
        BY <2>1, <2>2, <3>2 DEF Followed, At
      <4> QED
        BY <2>1, <4>1 DEF SameToken
    <3> QED
      BY <3>1, <3>2
  <2> QED
    BY <2>2 DEF SameToken
<1> QED
  BY <1>1, <1>2, <1>3

LEMMA OverHolds ==
  ASSUME NEW q, req'[q] = Over
  PROVE  /\ TaskOk(q)' /\ LookedUp(q)' /\ ListKnown(q)' /\ AppointKnown(q)' /\ TokenMine(q)'
         /\ \A o : Apart(q, o)'
         /\ HeldBy(q)' = {} /\ NewBy(q)' = {}
<1>1. req'[q].op = None /\ req'[q].pc = "done" /\ None \notin Ops
  BY TaskIs, RegistryAssumption DEF Over
<1>2. HeldBy(q)' = {} /\ NewBy(q)' = {}
  BY <1>1 DEF HeldBy, NewBy, Replacing, At
<1>3. TaskOk(q)' /\ LookedUp(q)'
  BY <1>1 DEF TaskOk, LookedUp, Ops
<1>4. ListKnown(q)' /\ AppointKnown(q)' /\ TokenMine(q)'
  BY <1>1 DEF ListKnown, AppointKnown, TokenMine, At, Ops
<1>5. \A o : Apart(q, o)'
  BY <1>1, <1>2 DEF Apart, Ops
<1> QED
  BY <1>2, <1>3, <1>4, <1>5

LEMMA OverTask == Over \in Tasks /\ Blank \in Tasks
  BY TaskIs DEF Over, Blank, Pcs

\* What a request knows rests on the rows, on the places or on the devices.
LEMMA RowsStay ==
  ASSUME NEW o, Followed(o), LookedUp(o), UNCHANGED row
  PROVE  LookedUp(o)'
  BY DEF Followed, LookedUp, Holders, Live

LEMMA PlacesStay ==
  ASSUME NEW o, Followed(o), ListKnown(o), AppointKnown(o), UNCHANGED <<access, open>>
  PROVE  ListKnown(o)' /\ AppointKnown(o)'
  BY DEF Followed, ListKnown, ListOf, AppointKnown, At

LEMMA DevicesStay ==
  ASSUME NEW o, Followed(o), TokenMine(o), UNCHANGED device,
         At(o, "register", "commit")' => (SameToken(o) = {})'
  PROVE  TokenMine(o)'
  BY DEF Followed, TokenMine, OthersWith, At

LEMMA BecomeIs ==
  ASSUME RegistryTypeOK, NEW q \in Procs, NEW r \in Tasks, Become(q, r)
  PROVE  /\ req' \in [Procs -> Tasks] /\ req'[q] = r
         /\ \A o \in Procs \ {q} : req'[o] = req[o] /\ Followed(o)
  BY DEF RegistryTypeOK, Become, Followed

\* A step that writes nothing yet.
LEMMA OnlyWaits ==
  ASSUME RegistryInv, NEW q \in Procs, NEW r \in Tasks, Become(q, r),
         UNCHANGED <<Records_, Places, Phones>>,
         TaskOk(q)', LookedUp(q)', ListKnown(q)', AppointKnown(q)', TokenMine(q)',
         \A o \in Procs \ {q} : Apart(q, o)'
  PROVE  RegistryInv'
<1>1. /\ req' \in [Procs -> Tasks] /\ \A o \in Procs \ {q} : Followed(o)
      /\ UNCHANGED <<row, manager, open, used, access, device, blind, twins, latest>>
  BY BecomeIs DEF RegistryInv, Records_, Places, Phones
<1>2. RegistryTypeOK' /\ Referenced' /\ IndexHolds'
  BY <1>1 DEF RegistryInv, RegistryTypeOK, Referenced, IndexHolds, Stored
<1>3. /\ RowsApart' /\ \A o \in Procs : TaskOk(o)'
      /\ \A o \in Procs \ {q} : At(o, "register", "commit")' => (SameToken(o) = {})'
  BY <1>1, OthersApart
<1>4. ASSUME NEW o \in Procs \ {q}
      PROVE  LookedUp(o)' /\ ListKnown(o)' /\ AppointKnown(o)' /\ TokenMine(o)'
  BY <1>1, <1>3, RowsStay, PlacesStay, DevicesStay DEF RegistryInv
<1> QED
  BY <1>2, <1>3, <1>4 DEF RegistryInv

LEMMA RefusedInv ==
  ASSUME RegistryInv, NEW q \in Procs, Refused(q)
  PROVE  RegistryInv'
<1>1. Become(q, Over) /\ UNCHANGED <<Records_, Places, Phones>>
  BY DEF Refused, Finish
<1>2. req'[q] = Over
  BY <1>1, OverTask, BecomeIs DEF RegistryInv
<1> QED
  BY <1>1, <1>2, OverHolds, OverTask, OnlyWaits

LEMMA FreshApart ==
  ASSUME NEW q, req'[q].op \notin {"appoint", "replace", "register"}
  PROVE  /\ \A o : Apart(q, o)'
         /\ ListKnown(q)' /\ AppointKnown(q)' /\ TokenMine(q)'
  BY DEF Apart, HeldBy, NewBy, Replacing, At, ListKnown, AppointKnown, TokenMine

----------------------------------------------------------------------------
(* Clients, users, categories and suppliers. *)

LEMMA LaunchInv ==
  ASSUME RegistryInv, NEW q \in Procs,
         NEW op \in {"create", "update", "remove", "restore"}, NEW d \in Records,
         NEW k \in Keys \cup {None}, NEW l \in {"look", "write"},
         Launch(q, op, d, k, l), UNCHANGED <<Records_, Places, Phones>>,
         op = "restore" => d \in Accounts,
         l = "write" /\ op \in {"create", "update"} =>
            d \in Indexed \/ (op = "update" /\ d \notin Clients)
  PROVE  RegistryInv'
<1>1. PICK t \in Tasks : /\ t = Task(op, l, d, k, {}, {})
                         /\ t.op = op /\ t.pc = l /\ t.d = d /\ t.key = k /\ t.since = {}
  BY TaskIs DEF Ops, Pcs
<1>2. Become(q, t)
  BY <1>1 DEF Launch
<1>3. req'[q] = t
  BY <1>2, BecomeIs DEF RegistryInv
<1>4. TaskOk(q)' /\ LookedUp(q)'
  BY <1>1, <1>3 DEF TaskOk, LookedUp
<1> QED
  BY <1>1, <1>2, <1>3, <1>4, FreshApart, OnlyWaits

LEMMA LookInv ==
  ASSUME RegistryInv, NEW q \in Procs, Look(q)
  PROVE  RegistryInv'
<1>1. CASE Refuses(q)
  BY <1>1, RefusedInv DEF Look, Refused
<1>2. CASE ~Refuses(q)
  <2> DEFINE t == [req[q] EXCEPT !.pc = "write"]
  <2>1. /\ t \in Tasks /\ Become(q, t) /\ UNCHANGED <<Records_, Places, Phones>>
        /\ req[q].op \in {"create", "update", "remove", "restore"}
    BY <1>2 DEF Look, Reach, RegistryInv, RegistryTypeOK, Tasks, Pcs
  <2>2. req'[q] = t
    BY <2>1, BecomeIs DEF RegistryInv
  <2>3. /\ req'[q].op = req[q].op /\ req'[q].d = req[q].d /\ req'[q].key = req[q].key
        /\ req'[q].set = req[q].set /\ req'[q].del = req[q].del
        /\ req'[q].since = req[q].since
    BY <2>2 DEF RegistryInv, RegistryTypeOK, Tasks
  <2>4. TaskOk(q)'
    BY <2>1, <2>3 DEF RegistryInv, TaskOk
  <2>5. LookedUp(q)'
    BY <1>2, <2>1, <2>3 DEF LookedUp, Refuses, Holders, Live, Records_
  <2>6. req'[q].op \notin {"appoint", "replace", "register"}
    BY <2>1, <2>3
  <2> HIDE DEF t
  <2> QED
    BY <2>1, <2>4, <2>5, <2>6, FreshApart, OnlyWaits
<1> QED
  BY <1>1, <1>2

Written(q, d, r) ==
    /\ row' = [row EXCEPT ![d] = r] /\ req' = Wrote(q, d)
    /\ blind \subseteq blind' /\ blind' \subseteq blind \cup {d}
    /\ twins \subseteq twins' /\ twins' \subseteq twins \cup {{d, e} : e \in req[q].since \ {d}}
    /\ req[q].op # "remove" => \A e \in req[q].since \ {d} : {d, e} \in twins'
    /\ UNCHANGED <<manager, open, used, access, device, latest>>

LEMMA PutIs ==
  ASSUME NEW q, NEW d, NEW r, Put(q, d, r, TRUE) \/ Put(q, d, r, FALSE)
  PROVE  Written(q, d, r) /\ (Put(q, d, r, TRUE) => d \in blind')
  BY DEF Put, Written, Places, Phones

\* A row is written: the others learn of it, and the index it may be in holds.
LEMMA WrittenInv ==
  ASSUME RegistryInv, NEW q \in Procs, NEW d \in Records, NEW r \in RowTypes,
         Written(q, d, r), req[q].since \subseteq Records,
         d \in Indexed /\ r.state \in {"live", "deleted"} =>
            \A e \in Alike(d) : Stored(e) => row[e].key # r.key
  PROVE  RegistryInv'
<1>1. /\ row' = [row EXCEPT ![d] = r] /\ req' = Wrote(q, d)
      /\ blind' \subseteq blind \cup {d}
      /\ twins' \subseteq twins \cup {{d, e} : e \in req[q].since \ {d}}
      /\ UNCHANGED <<manager, open, used, access, device, latest>>
  BY DEF Written
<1>2. /\ row' \in [Records -> RowTypes] /\ row'[d] = r
      /\ \A e \in Records \ {d} : row'[e] = row[e]
  BY <1>1 DEF RegistryInv, RegistryTypeOK
<1>3. /\ req' \in [Procs -> Tasks] /\ req'[q] = Over
      /\ \A o \in Procs \ {q} : /\ Followed(o)
                                /\ req[o].pc = "write" => d \in req'[o].since
  <2>1. \A o \in Procs : /\ req[o] \in Tasks
                         /\ [req[o] EXCEPT !.since = @ \cup {d}] \in Tasks
    BY DEF RegistryInv, RegistryTypeOK, Tasks
  <2>2. \A o \in Procs : req'[o] \in Tasks
    BY <1>1, <2>1, OverTask DEF Wrote
  <2>3. \A o \in Procs \ {q} : Followed(o) /\ (req[o].pc = "write" => d \in req'[o].since)
    BY <1>1, <2>1 DEF Wrote, Followed, Tasks
  <2> QED
    BY <1>1, <2>2, <2>3 DEF Wrote
<1>4. RegistryTypeOK'
  <2>1. twins' \subseteq SUBSET Records
    <3>1. \A e \in req[q].since \ {d} : {d, e} \subseteq Records
      OBVIOUS
    <3> QED
      BY <1>1, <3>1 DEF RegistryInv, RegistryTypeOK
  <2> QED
    BY <1>1, <1>2, <1>3, <2>1 DEF RegistryInv, RegistryTypeOK
<1>5. Referenced'
  BY <1>1 DEF RegistryInv, Referenced
<1>6. IndexHolds'
  <2>1. ASSUME NEW x \in Indexed, NEW y \in Alike(x), Stored(x)', Stored(y)'
        PROVE  row'[x].key # row'[y].key
    <3>1. x \in Records /\ y \in Records /\ x # y /\ y \in Indexed /\ x \in Alike(y)
      BY DEF Indexed, Alike
    <3>2. CASE x = d
      BY <1>2, <2>1, <3>1, <3>2 DEF Stored
    <3>3. CASE y = d
      BY <1>2, <2>1, <3>1, <3>3 DEF Stored
    <3>4. CASE x # d /\ y # d
      BY <1>2, <2>1, <3>1, <3>4 DEF Stored, RegistryInv, IndexHolds
    <3> QED
      BY <3>2, <3>3, <3>4
  <2> QED
    BY <1>1, <2>1 DEF RegistryInv, IndexHolds
<1>7. /\ RowsApart' /\ \A o \in Procs : TaskOk(o)'
      /\ \A o \in Procs \ {q} : At(o, "register", "commit")' => (SameToken(o) = {})'
  BY <1>3, OverHolds, OthersApart
<1>8. ASSUME NEW o \in Procs \ {q} PROVE LookedUp(o)'
  <2> SUFFICES ASSUME req[o].pc = "write", req[o].d \notin Indexed,
                      req[o].op \in {"create", "update"},
                      req[o].op = "update" => req[o].d \in Clients,
                      NEW e \in Alike(req[o].d), Live(e)', row'[e].key = req[o].key
               PROVE  e \in req'[o].since
    BY <1>3 DEF LookedUp, Holders, Followed
  <2>1. CASE e = d
    BY <1>3, <2>1
  <2>2. CASE e # d
    <3>1. e \in Holders(req[o].d, req[o].key)
      BY <1>2, <2>2 DEF Holders, Live, Alike
    <3>2. LookedUp(o)
      BY DEF RegistryInv
    <3> QED
      BY <1>3, <3>1, <3>2 DEF LookedUp, Followed
  <2> QED
    BY <2>1, <2>2
<1> QED
  BY <1>4, <1>5, <1>6, <1>7, <1>8, <1>1, <1>3, OverHolds, PlacesStay, DevicesStay
     DEF RegistryInv

\* A write is refused, or puts a row that no index and no look-up speaks against.
LEMMA WriteIs ==
  ASSUME RegistryInv, NEW q \in Procs,
         WriteCreate(q) \/ WriteUpdate(q) \/ WriteRemove(q) \/ WriteRestore(q)
  PROVE  /\ req[q].d \in Records /\ req[q].since \subseteq Records
         /\ \/ Refused(q)
            \/ \E r \in RowTypes :
                  /\ Written(q, req[q].d, r)
                  /\ req[q].d \in Indexed /\ r.state \in {"live", "deleted"} =>
                        \A e \in Alike(req[q].d) : Stored(e) => row[e].key # r.key
                  /\ req[q].op = "remove" => r.state # "live"
                  /\ r.state = "live" /\ req[q].d \notin Indexed /\ req[q].d \notin blind' =>
                        Holders(req[q].d, r.key) \subseteq req[q].since
<1> DEFINE d == req[q].d
           k == req[q].key
<1>1. /\ req[q].op \in {"create", "update", "remove", "restore"} /\ req[q].pc = "write"
      /\ d \in Records /\ k \in Keys \cup {None} /\ req[q].since \subseteq Records
      /\ row[d] \in RowTypes /\ LookedUp(q)
  BY DEF WriteCreate, WriteUpdate, WriteRemove, WriteRestore, At, RegistryInv, TaskOk,
         RegistryTypeOK
<1>2. d \notin Indexed /\ d \notin Accounts => d \in Clients
  BY <1>1, RegistryAssumption DEF Indexed, Accounts, Clients, Tables
<1>3. CASE WriteCreate(q) /\ ~Refused(q)
  <2>1. [state |-> "live", key |-> k] \in RowTypes
    BY <1>1 DEF RowTypes
  <2>2. PICK r \in RowTypes : r = [state |-> "live", key |-> k] /\ r.key = k
    BY <2>1
  <2>3. Put(q, d, r, FALSE) /\ ~IndexRefuses(d, k) /\ req[q].op = "create"
    BY <1>3, <2>2 DEF WriteCreate, At
  <2>4. d \notin Indexed => Holders(d, r.key) \subseteq req[q].since
    BY <1>1, <2>2, <2>3 DEF LookedUp
  <2> QED
    BY <1>1, <2>2, <2>3, <2>4, PutIs DEF IndexRefuses
<1>4. CASE WriteUpdate(q) /\ ~Refused(q)
  <2>1. [row[d] EXCEPT !.key = k] \in RowTypes /\ [row[d] EXCEPT !.key = k].key = k
    BY <1>1 DEF RowTypes
  <2>2. PICK r \in RowTypes : r = [row[d] EXCEPT !.key = k] /\ r.key = k
    BY <2>1
  <2>3. Put(q, d, r, d \in Accounts) /\ ~IndexRefuses(d, k) /\ req[q].op = "update"
    BY <1>4, <2>2 DEF WriteUpdate, At
  <2>4. d \notin Indexed /\ d \notin Accounts => Holders(d, r.key) \subseteq req[q].since
    BY <1>1, <1>2, <2>2, <2>3 DEF LookedUp
  <2>5. Written(q, d, r) /\ (d \in Accounts => d \in blind')
    BY <2>3, PutIs DEF Put
  <2> QED
    BY <1>1, <2>2, <2>3, <2>4, <2>5 DEF IndexRefuses
<1>5. CASE WriteRemove(q) /\ ~Refused(q)
  <2>1. PICK st \in {"gone", "deleted"} : st = IF d \in Indexed THEN "gone" ELSE "deleted"
    OBVIOUS
  <2>2. [row[d] EXCEPT !.state = st] \in RowTypes /\ [row[d] EXCEPT !.state = st].state = st
    BY <1>1 DEF RowTypes
  <2>3. PICK r \in RowTypes : r = [row[d] EXCEPT !.state = st] /\ r.state = st
    BY <2>2
  <2>4. Put(q, d, r, FALSE)
    BY <1>5, <2>1, <2>3 DEF WriteRemove
  <2>5. Written(q, d, r)
    BY <2>4, PutIs
  <2> QED
    BY <1>1, <2>1, <2>3, <2>5
<1>6. CASE WriteRestore(q)
  <2>1. PICK r \in RowTypes : r = [row[d] EXCEPT !.state = "live"]
    BY <1>1 DEF RowTypes
  <2>2. Put(q, d, r, TRUE) /\ d \in Accounts /\ d \notin Indexed /\ req[q].op = "restore"
    BY <1>6, <2>1 DEF WriteRestore, At, RegistryInv, TaskOk, Accounts, Indexed
  <2> QED
    BY <1>1, <2>2, PutIs
<1> QED
  BY <1>1, <1>3, <1>4, <1>5, <1>6

LEMMA WriteInv ==
  ASSUME RegistryInv, NEW q \in Procs,
         WriteCreate(q) \/ WriteUpdate(q) \/ WriteRemove(q) \/ WriteRestore(q)
  PROVE  RegistryInv'
  BY WriteIs, RefusedInv, WrittenInv

----------------------------------------------------------------------------
(* Warehouses and access lists. *)

LEMMA ToldIs ==
  ASSUME RegistryInv, NEW q \in Procs, NEW came \in SUBSET (Accounts \X Warehouses), NEW gone,
         req' = Told(q, came, gone)
  PROVE  /\ req' \in [Procs -> Tasks] /\ req'[q] = Over
         /\ \A o \in Procs \ {q} :
               /\ Followed(o)
               /\ req[o].op = "replace" /\ req[o].pc \in {"delete", "insert", "commit"} =>
                     \A w \in Warehouses : <<req[o].d, w>> \in came => w \in req'[o].since
               /\ At(o, "appoint", "commit") =>
                     \A w \in req[o].set : <<req[o].d, w>> \in gone => w \in req'[o].since
<1>1. ASSUME NEW o \in Procs
      PROVE  /\ req[o] \in Tasks /\ News(o, came, gone) \subseteq Warehouses
             /\ [req[o] EXCEPT !.since = @ \cup News(o, came, gone)] \in Tasks
  <2>1. req[o] \in Tasks /\ TaskOk(o)
    BY DEF RegistryInv, RegistryTypeOK
  <2>2. News(o, came, gone) \subseteq Warehouses
    BY <2>1 DEF News, At, TaskOk
  <2> QED
    BY <2>1, <2>2 DEF Tasks
<1>2. \A o \in Procs : req'[o] \in Tasks
  BY <1>1, OverTask DEF Told
<1>3. ASSUME NEW o \in Procs \ {q}
      PROVE  Followed(o) /\ req'[o].since = req[o].since \cup News(o, came, gone)
  <2>1. req'[o] = [req[o] EXCEPT !.since = @ \cup News(o, came, gone)]
    BY DEF Told
  <2>2. /\ req'[o].op = req[o].op /\ req'[o].pc = req[o].pc /\ req'[o].d = req[o].d
        /\ req'[o].key = req[o].key /\ req'[o].set = req[o].set /\ req'[o].del = req[o].del
        /\ req'[o].since = req[o].since \cup News(o, came, gone)
    BY <1>1, <2>1 DEF Tasks
  <2>3. req[o].op \notin {"appoint", "replace"} => News(o, came, gone) = {}
    BY DEF News, At
  <2> QED
    BY <2>2, <2>3 DEF Followed
<1> QED
  BY <1>2, <1>3 DEF Told, News, At

\* A step that ends a request and changes places: rows are those that came.
LEMMA PlacesInv ==
  ASSUME RegistryInv, NEW q \in Procs, NEW rows \in SUBSET (Accounts \X Warehouses),
         req' \in [Procs -> Tasks], req'[q] = Over,
         \A o \in Procs \ {q} :
            /\ Followed(o)
            /\ req[o].op = "replace" /\ req[o].pc \in {"delete", "insert", "commit"} =>
                  \A w \in Warehouses : <<req[o].d, w>> \in rows => w \in req'[o].since
            /\ At(o, "replace", "commit") \/ req[o].op = "appoint" => req[o].set \subseteq open'
            /\ At(o, "appoint", "commit") =>
                  \A w \in req[o].set : <<req[o].d, w>> \in access \ access' => w \in req'[o].since,
         access' \subseteq access \cup rows, access' \subseteq Accounts \X open',
         open' \subseteq Warehouses, used' \subseteq open',
         manager' \in [Warehouses -> Accounts \cup {None}],
         \A w \in Warehouses : manager'[w] # None => w \in open',
         UNCHANGED <<Records_, Phones>>
  PROVE  RegistryInv'
<1>1. UNCHANGED <<row, blind, twins, device, latest>>
  BY DEF Records_, Phones
<1>2. RegistryTypeOK' /\ Referenced' /\ IndexHolds'
  BY <1>1 DEF RegistryInv, RegistryTypeOK, Referenced, IndexHolds, Stored
<1>3. /\ RowsApart' /\ \A o \in Procs : TaskOk(o)'
      /\ \A o \in Procs \ {q} : At(o, "register", "commit")' => (SameToken(o) = {})'
  BY OverHolds, OthersApart
<1>4. ASSUME NEW o \in Procs \ {q} PROVE ListKnown(o)'
  <2>1. Followed(o) /\ ListKnown(o)
    BY DEF RegistryInv
  <2>2. ASSUME req[o].op = "replace", req[o].pc \in {"delete", "insert", "commit"},
               NEW w \in Warehouses, <<req[o].d, w>> \in access', w \notin req[o].del
        PROVE  w \in req'[o].since
    <3>1. CASE <<req[o].d, w>> \in rows
      BY <2>2, <3>1
    <3>2. CASE <<req[o].d, w>> \in access
      BY <2>1, <2>2, <3>2 DEF ListKnown, ListOf, Followed
    <3> QED
      BY <2>2, <3>1, <3>2
  <2>3. At(o, "replace", "commit") => req[o].set \subseteq open'
    OBVIOUS
  <2> QED
    BY <2>1, <2>2, <2>3 DEF ListKnown, ListOf, Followed, At
<1>5. ASSUME NEW o \in Procs \ {q} PROVE LookedUp(o)' /\ TokenMine(o)'
  BY <1>1, <1>3, RowsStay, DevicesStay DEF RegistryInv
<1>6. ASSUME NEW o \in Procs \ {q} PROVE AppointKnown(o)'
  BY DEF RegistryInv, AppointKnown, Followed, At
<1> QED
  BY <1>2, <1>3, <1>4, <1>5, <1>6, OverHolds DEF RegistryInv

LEMMA CreateWarehouseInv ==
  ASSUME RegistryInv, NEW q \in Procs, NEW w \in Warehouses,
         NEW m \in Accounts \cup {None}, CreateWarehouse(q, w, m)
  PROVE  RegistryInv'
<1>1. (IF m = None THEN {} ELSE {<<m, w>>}) \in SUBSET (Accounts \X Warehouses)
  OBVIOUS
<1>2. PICK rows \in SUBSET (Accounts \X Warehouses) :
         rows = IF m = None THEN {} ELSE {<<m, w>>}
  BY <1>1
<1>3. /\ rows = IF m = None THEN {} ELSE {<<m, w>>}
      /\ open' = open \cup {w} /\ manager' = [manager EXCEPT ![w] = m]
      /\ access' = access \cup rows /\ req' = Told(q, rows, {})
      /\ UNCHANGED <<Records_, Phones, used>>
  BY <1>2 DEF CreateWarehouse
<1>4. /\ req' \in [Procs -> Tasks] /\ req'[q] = Over
      /\ \A o \in Procs \ {q} :
            /\ Followed(o)
            /\ req[o].op = "replace" /\ req[o].pc \in {"delete", "insert", "commit"} =>
                  \A x \in Warehouses : <<req[o].d, x>> \in rows => x \in req'[o].since
  BY <1>3, ToldIs
<1>5. /\ access' \subseteq access \cup rows /\ access' \subseteq Accounts \X open'
      /\ open' \subseteq Warehouses /\ used' \subseteq open' /\ access \subseteq access'
      /\ manager' \in [Warehouses -> Accounts \cup {None}]
      /\ \A x \in Warehouses : manager'[x] # None => x \in open'
  BY <1>3 DEF RegistryInv, RegistryTypeOK, Referenced
<1>6. \A o \in Procs \ {q} :
         At(o, "replace", "commit") \/ req[o].op = "appoint" => req[o].set \subseteq open'
  BY <1>3 DEF RegistryInv, ListKnown, AppointKnown
<1> QED
  BY <1>3, <1>4, <1>5, <1>6, PlacesInv

LEMMA BeginAppointInv ==
  ASSUME RegistryInv, NEW q \in Procs, NEW w \in Warehouses,
         NEW m \in Accounts \cup {None}, BeginAppoint(q, w, m)
  PROVE  RegistryInv'
<1>1. PICK l \in {"grant", "commit"} : l = IF m = None THEN "commit" ELSE "grant"
  OBVIOUS
<1>2. PICK t \in Tasks :
         /\ t = Task("appoint", l, m, None, {w}, {})
         /\ t.op = "appoint" /\ t.pc = l /\ t.d = m /\ t.set = {w} /\ t.del = {}
  BY TaskIs DEF Ops, Pcs, Accounts
<1>3. Become(q, t) /\ UNCHANGED <<Records_, Places, Phones>>
  BY <1>1, <1>2 DEF BeginAppoint
<1>4. req'[q] = t /\ \A o \in Procs \ {q} : req'[o] = req[o]
  BY <1>3, BecomeIs DEF RegistryInv
<1>5. TaskOk(q)' /\ LookedUp(q)' /\ ListKnown(q)' /\ TokenMine(q)'
  BY <1>1, <1>2, <1>4 DEF TaskOk, LookedUp, ListKnown, TokenMine, At
<1>6. AppointKnown(q)'
  BY <1>1, <1>2, <1>3, <1>4 DEF AppointKnown, BeginAppoint, Places
<1>7. ASSUME NEW o \in Procs \ {q} PROVE Apart(q, o)'
  <2>1. {<<m, x>> : x \in {}} = {}
    OBVIOUS
  <2>2. HeldBy(q)' = {} /\ NewBy(q)' = {}
    BY <1>2, <1>4, <2>1 DEF HeldBy, NewBy, Replacing, At
  <2>3. req[o].op = "appoint" => w \notin req[o].set
    BY DEF BeginAppoint, WarehouseFree
  <2>4. req'[q].op = "appoint" /\ req'[q].set = {w} /\ req'[o] = req[o]
    BY <1>2, <1>4
  <2> QED
    BY <2>2, <2>3, <2>4 DEF Apart
<1> QED
  BY <1>2, <1>3, <1>5, <1>6, <1>7, OnlyWaits

LEMMA GrantInv ==
  ASSUME RegistryInv, NEW q \in Procs, Grant(q)
  PROVE  RegistryInv'
<1>1. /\ req[q] \in Tasks /\ req[q].op = "appoint" /\ req[q].pc = "grant"
      /\ TaskOk(q) /\ AppointKnown(q) /\ req[q].del = {} /\ req[q].d # None
      /\ req[q].set \subseteq Warehouses
  BY DEF Grant, At, RegistryInv, RegistryTypeOK, TaskOk
<1>2. PICK del \in SUBSET req[q].set :
         /\ Become(q, [req[q] EXCEPT !.pc = "commit", !.del = del])
         /\ \/ del = {} /\ \A w \in req[q].set : <<req[q].d, w>> \in access
            \/ del = req[q].set /\ RowsFree(q, {<<req[q].d, w>> : w \in req[q].set})
  <2>1. CASE {<<req[q].d, w>> : w \in req[q].set} \subseteq access
    <3>1. Become(q, [req[q] EXCEPT !.pc = "commit"])
      BY <2>1 DEF Grant, Reach
    <3>2. [req[q] EXCEPT !.pc = "commit"] = [req[q] EXCEPT !.pc = "commit", !.del = req[q].del]
      BY <1>1 DEF Tasks
    <3>3. \A w \in req[q].set : <<req[q].d, w>> \in access
      BY <2>1
    <3> QED
      BY <1>1, <3>1, <3>2, <3>3
  <2>2. CASE ~({<<req[q].d, w>> : w \in req[q].set} \subseteq access)
    BY <2>2 DEF Grant
  <2> QED
    BY <2>1, <2>2
<1>3. PICK t \in Tasks : /\ t = [req[q] EXCEPT !.pc = "commit", !.del = del]
                         /\ t.op = "appoint" /\ t.pc = "commit" /\ t.d = req[q].d
                         /\ t.set = req[q].set /\ t.del = del /\ t.since = req[q].since
  <2>1. [req[q] EXCEPT !.pc = "commit", !.del = del] \in Tasks
    BY <1>1 DEF Tasks, Pcs
  <2> QED
    BY <1>1, <2>1 DEF Tasks
<1>4. Become(q, t) /\ UNCHANGED <<Records_, Places, Phones>>
  BY <1>2, <1>3 DEF Grant
<1>5. req'[q] = t /\ \A o \in Procs \ {q} : req'[o] = req[o] /\ Followed(o)
  BY <1>4, BecomeIs DEF RegistryInv
<1>6. TaskOk(q)' /\ LookedUp(q)' /\ ListKnown(q)' /\ TokenMine(q)'
  BY <1>1, <1>3, <1>5 DEF TaskOk, LookedUp, ListKnown, TokenMine, At
<1>7. AppointKnown(q)'
  BY <1>1, <1>2, <1>3, <1>4, <1>5 DEF AppointKnown, Places
<1>8. ASSUME NEW o \in Procs \ {q} PROVE Apart(q, o)'
  <2>1. HeldBy(o)' = HeldBy(o) /\ NewBy(o)' = NewBy(o)
    BY <1>5, FollowedHolds
  <2>2. HeldBy(q)' = {} /\ NewBy(q)' = {<<req[q].d, w>> : w \in del}
    BY <1>3, <1>5 DEF HeldBy, NewBy, Replacing, At
  <2>3. (HeldBy(o) \cup NewBy(o)) \cap {<<req[q].d, w>> : w \in del} = {}
    <3>1. CASE del = {}
      BY <3>1
    <3>2. CASE RowsFree(q, {<<req[q].d, w>> : w \in req[q].set}) /\ del = req[q].set
      BY <3>2 DEF RowsFree
    <3> QED
      BY <1>2, <3>1, <3>2
  <2>4. req[o].op = "appoint" => req[q].set \cap req[o].set = {}
    BY <1>1 DEF RegistryInv, RowsApart, Apart
  <2> QED
    BY <1>3, <1>5, <2>1, <2>2, <2>3, <2>4 DEF Apart
<1> QED
  BY <1>4, <1>6, <1>7, <1>8, OnlyWaits

LEMMA CommitAppointInv ==
  ASSUME RegistryInv, NEW q \in Procs, CommitAppoint(q)
  PROVE  RegistryInv'
<1>1. /\ req[q].d \in Accounts \cup {None} /\ req[q].set \subseteq open
      /\ req[q].set \subseteq Warehouses /\ req[q].del \subseteq req[q].set
  BY DEF CommitAppoint, RegistryInv, TaskOk, AppointKnown, At
<1>2. req[q].d = None => req[q].del = {}
  BY DEF CommitAppoint, RegistryInv, TaskOk, At
<1>3. {<<req[q].d, w>> : w \in req[q].del} \in SUBSET (Accounts \X open)
  BY <1>1, <1>2
<1>4. PICK rows \in SUBSET (Accounts \X open) : rows = {<<req[q].d, w>> : w \in req[q].del}
  BY <1>3
<1>5. /\ access' = access \cup rows /\ req' = Told(q, rows \ access, {})
      /\ manager' = [w \in Warehouses |-> IF w \in req[q].set THEN req[q].d ELSE manager[w]]
      /\ UNCHANGED <<Records_, Phones, open, used>>
  BY <1>4 DEF CommitAppoint
<1>6. rows \ access \in SUBSET (Accounts \X Warehouses)
  BY DEF RegistryInv, RegistryTypeOK
<1>7. /\ req' \in [Procs -> Tasks] /\ req'[q] = Over
      /\ \A o \in Procs \ {q} :
            /\ Followed(o)
            /\ req[o].op = "replace" /\ req[o].pc \in {"delete", "insert", "commit"} =>
                  \A x \in Warehouses :
                     <<req[o].d, x>> \in rows \ access => x \in req'[o].since
  BY <1>5, <1>6, ToldIs
<1>8. /\ access' \subseteq access \cup (rows \ access) /\ access' \subseteq Accounts \X open'
      /\ open' \subseteq Warehouses /\ used' \subseteq open' /\ access \subseteq access'
      /\ manager' \in [Warehouses -> Accounts \cup {None}]
      /\ \A x \in Warehouses : manager'[x] # None => x \in open'
  BY <1>1, <1>5 DEF RegistryInv, RegistryTypeOK, Referenced
<1>9. \A o \in Procs \ {q} :
         At(o, "replace", "commit") \/ req[o].op = "appoint" => req[o].set \subseteq open'
  BY <1>5 DEF RegistryInv, ListKnown, AppointKnown
<1> QED
  BY <1>5, <1>6, <1>7, <1>8, <1>9, PlacesInv

LEMMA RemoveWarehouseInv ==
  ASSUME RegistryInv, NEW q \in Procs, NEW w \in Warehouses, RemoveWarehouse(q, w)
  PROVE  RegistryInv'
<1>1. /\ w \in open \ used /\ WarehouseFree(q, w) /\ RowsFree(q, Accounts \X {w})
      /\ open' = open \ {w} /\ manager' = [manager EXCEPT ![w] = None]
      /\ access' = access \ (Accounts \X {w}) /\ Become(q, Over)
      /\ UNCHANGED <<Records_, Phones, used>>
  BY DEF RemoveWarehouse, Finish
<1>2. /\ req' \in [Procs -> Tasks] /\ req'[q] = Over
      /\ \A o \in Procs \ {q} : Followed(o)
  BY <1>1, OverTask, BecomeIs DEF RegistryInv
<1>3. /\ access' \subseteq access /\ access' \subseteq Accounts \X open'
      /\ open' \subseteq Warehouses /\ used' \subseteq open'
      /\ manager' \in [Warehouses -> Accounts \cup {None}]
      /\ \A x \in Warehouses : manager'[x] # None => x \in open'
  BY <1>1 DEF RegistryInv, RegistryTypeOK, Referenced
<1>4. ASSUME NEW o \in Procs \ {q}, At(o, "replace", "commit")
      PROVE  req[o].set \subseteq open'
  <2>1. req[o].set \subseteq open /\ req[o].d \in Accounts
    BY <1>4 DEF RegistryInv, ListKnown, TaskOk, At
  <2>2. ASSUME w \in req[o].set PROVE FALSE
    <3>1. <<req[o].d, w>> \in NewBy(o) /\ <<req[o].d, w>> \in Accounts \X {w}
      BY <1>4, <2>1, <2>2 DEF NewBy
    <3> QED
      BY <1>1, <3>1 DEF RowsFree
  <2> QED
    BY <1>1, <2>1, <2>2
<1>5. PICK rows \in SUBSET (Accounts \X Warehouses) : rows = {}
  OBVIOUS
<1>6. access' \subseteq access \cup rows /\ \A o \in Procs \ {q}, x \in Warehouses :
                                             <<req[o].d, x>> \in rows => x \in req'[o].since
  BY <1>3, <1>5
<1>7. \A o \in Procs \ {q} :
         /\ req[o].op = "appoint" => req[o].set \subseteq open' /\ w \notin req[o].set
         /\ At(o, "appoint", "commit") => req[o].op = "appoint"
  BY <1>1 DEF RegistryInv, AppointKnown, WarehouseFree, At
<1>8. \A o \in Procs \ {q} : At(o, "appoint", "commit") =>
         \A x \in req[o].set : <<req[o].d, x>> \in access \ access' => x \in req'[o].since
  BY <1>1, <1>7
<1> QED
  BY <1>1, <1>2, <1>3, <1>4, <1>6, <1>7, <1>8, PlacesInv

LEMMA UseInv ==
  ASSUME RegistryInv, NEW w \in Warehouses, Use(w)
  PROVE  RegistryInv'
<1>1. /\ w \in open /\ used' = used \cup {w}
      /\ UNCHANGED <<row, blind, twins, device, latest, manager, open, access, req>>
  BY DEF Use, Records_, Phones
<1> QED
  BY <1>1 DEF RegistryInv, RegistryTypeOK, Referenced, IndexHolds, Stored, RowsApart, Apart,
     HeldBy, NewBy, Replacing, At, TaskOk, LookedUp, Holders, Live, ListKnown, ListOf,
     AppointKnown, TokenMine, OthersWith, SameToken

LEMMA CommitListInv ==
  ASSUME RegistryInv, NEW q \in Procs, CommitList(q)
  PROVE  RegistryInv'
<1>1. /\ req[q].d \in Accounts /\ req[q].set \subseteq open /\ req[q].set \subseteq Warehouses
  BY DEF CommitList, RegistryInv, TaskOk, ListKnown, At
<1>2. {<<req[q].d, w>> : w \in req[q].set} \in SUBSET (Accounts \X open)
  BY <1>1
<1>3. PICK rows \in SUBSET (Accounts \X open) : rows = {<<req[q].d, w>> : w \in req[q].set}
  BY <1>2
<1>4. PICK came \in SUBSET (Accounts \X Warehouses) : came = rows \ access
  BY DEF RegistryInv, RegistryTypeOK
<1>5. PICK gone : gone = {<<req[q].d, w>> : w \in req[q].del} \ rows
  OBVIOUS
<1>6. /\ access' \subseteq access \cup rows /\ access \ access' \subseteq gone
      /\ req' = Told(q, came, gone)
      /\ UNCHANGED <<Records_, Phones, manager, open, used>>
  BY <1>3, <1>4, <1>5 DEF CommitList
<1>7. /\ req' \in [Procs -> Tasks] /\ req'[q] = Over
      /\ \A o \in Procs \ {q} :
            /\ Followed(o)
            /\ req[o].op = "replace" /\ req[o].pc \in {"delete", "insert", "commit"} =>
                  \A x \in Warehouses :
                     <<req[o].d, x>> \in came => x \in req'[o].since
            /\ At(o, "appoint", "commit") =>
                  \A x \in req[o].set :
                     <<req[o].d, x>> \in gone => x \in req'[o].since
  BY <1>6, ToldIs
<1>8. \A o \in Procs \ {q} :
          At(o, "appoint", "commit") =>
             \A x \in req[o].set : <<req[o].d, x>> \in access \ access' => x \in req'[o].since
  BY <1>6, <1>7
<1>9. /\ access' \subseteq access \cup came /\ access' \subseteq Accounts \X open'
      /\ open' \subseteq Warehouses /\ used' \subseteq open'
      /\ manager' \in [Warehouses -> Accounts \cup {None}]
      /\ \A x \in Warehouses : manager'[x] # None => x \in open'
  BY <1>4, <1>6 DEF RegistryInv, RegistryTypeOK, Referenced
<1>10. \A o \in Procs \ {q} :
         At(o, "replace", "commit") \/ req[o].op = "appoint" => req[o].set \subseteq open'
  BY <1>6 DEF RegistryInv, ListKnown, AppointKnown
<1> QED
  BY <1>6, <1>7, <1>8, <1>9, <1>10, PlacesInv

LEMMA BeginReplaceInv ==
  ASSUME RegistryInv, NEW q \in Procs, NEW u \in Accounts, NEW ws \in SUBSET Warehouses,
         BeginReplace(q, u, ws)
  PROVE  RegistryInv'
<1>1. ListOf(u) \subseteq Warehouses
  BY DEF ListOf
<1>2. PICK t \in Tasks :
         /\ t = Task("replace", "delete", u, None, ws, ListOf(u))
         /\ t.op = "replace" /\ t.pc = "delete" /\ t.d = u /\ t.set = ws /\ t.del = ListOf(u)
  BY <1>1, TaskIs DEF Ops, Pcs, Accounts
<1>3. Become(q, t) /\ UNCHANGED <<Records_, Places, Phones>>
  BY <1>2 DEF BeginReplace
<1>4. req'[q] = t
  BY <1>3, BecomeIs DEF RegistryInv
<1>5. TaskOk(q)' /\ LookedUp(q)' /\ AppointKnown(q)' /\ TokenMine(q)'
  BY <1>1, <1>2, <1>4 DEF TaskOk, LookedUp, AppointKnown, TokenMine, At
<1>6. ListKnown(q)'
  BY <1>2, <1>3, <1>4 DEF ListKnown, ListOf, At, Places
<1>7. \A o \in Procs \ {q} : Apart(q, o)'
  BY <1>2, <1>4 DEF Apart, HeldBy, NewBy, Replacing, At
<1> QED
  BY <1>2, <1>3, <1>5, <1>6, <1>7, OnlyWaits

LEMMA DeleteListInv ==
  ASSUME RegistryInv, NEW q \in Procs, DeleteList(q)
  PROVE  RegistryInv'
<1>1. /\ req[q] \in Tasks /\ req[q].op = "replace" /\ req[q].pc = "delete"
      /\ TaskOk(q) /\ ListKnown(q)
  BY DEF DeleteList, At, RegistryInv, RegistryTypeOK
<1>2. PICK gone \in SUBSET Warehouses : gone = req[q].del \cap ListOf(req[q].d)
  BY DEF ListOf
<1>3. /\ [req[q] EXCEPT !.pc = "insert", !.del = gone] \in Tasks
      /\ LET t == [req[q] EXCEPT !.pc = "insert", !.del = gone]
         IN  /\ t.op = "replace" /\ t.pc = "insert" /\ t.d = req[q].d /\ t.set = req[q].set
             /\ t.del = gone /\ t.since = req[q].since
  BY <1>1 DEF Tasks, Pcs
<1>4. PICK t \in Tasks : /\ t = [req[q] EXCEPT !.pc = "insert", !.del = gone]
                         /\ t.op = "replace" /\ t.pc = "insert" /\ t.d = req[q].d
                         /\ t.set = req[q].set /\ t.del = gone /\ t.since = req[q].since
  BY <1>3
<1>5. /\ Become(q, t) /\ UNCHANGED <<Records_, Places, Phones>>
      /\ RowsFree(q, {<<req[q].d, w>> : w \in gone})
  BY <1>2, <1>4 DEF DeleteList
<1>6. req'[q] = t /\ \A o \in Procs \ {q} : Followed(o)
  BY <1>5, BecomeIs DEF RegistryInv
<1>7. TaskOk(q)' /\ LookedUp(q)' /\ AppointKnown(q)' /\ TokenMine(q)'
  BY <1>1, <1>4, <1>6 DEF TaskOk, LookedUp, AppointKnown, TokenMine, At
<1>8. ListKnown(q)'
  <2>1. ListOf(req[q].d) \ gone = ListOf(req[q].d) \ req[q].del
    BY <1>2
  <2> QED
    BY <1>1, <1>4, <1>5, <1>6, <2>1 DEF ListKnown, ListOf, At, Places
<1>9. ASSUME NEW o \in Procs \ {q} PROVE Apart(q, o)'
  <2>1. HeldBy(o)' = HeldBy(o) /\ NewBy(o)' = NewBy(o)
    BY <1>6, FollowedHolds
  <2>2. HeldBy(q)' = {<<req[q].d, w>> : w \in gone} /\ NewBy(q)' = {}
    BY <1>4, <1>6 DEF HeldBy, NewBy, Replacing, At
  <2>3. (HeldBy(o) \cup NewBy(o)) \cap {<<req[q].d, w>> : w \in gone} = {}
    BY <1>5 DEF RowsFree
  <2> QED
    BY <1>4, <1>6, <2>1, <2>2, <2>3 DEF Apart
<1> QED
  BY <1>5, <1>7, <1>8, <1>9, OnlyWaits

LEMMA InsertListInv ==
  ASSUME RegistryInv, NEW q \in Procs, InsertList(q)
  PROVE  RegistryInv'
<1>1. /\ req[q] \in Tasks /\ req[q].op = "replace" /\ req[q].pc = "insert"
      /\ TaskOk(q) /\ ListKnown(q)
  BY DEF InsertList, At, RegistryInv, RegistryTypeOK
<1>2. CASE Finish(q)
  BY <1>2, RefusedInv DEF InsertList, Refused
<1>3. CASE ~Finish(q)
  <2>1. PICK t \in Tasks : /\ t = [req[q] EXCEPT !.pc = "commit"]
                           /\ t.op = "replace" /\ t.pc = "commit" /\ t.d = req[q].d
                           /\ t.set = req[q].set /\ t.del = req[q].del
                           /\ t.since = req[q].since
    <3>1. [req[q] EXCEPT !.pc = "commit"] \in Tasks
      BY <1>1 DEF Tasks, Pcs
    <3> QED
      BY <1>1, <3>1 DEF Tasks
  <2>2. /\ Become(q, t) /\ UNCHANGED <<Records_, Places, Phones>>
        /\ req[q].set \subseteq open
        /\ RowsFree(q, {<<req[q].d, w>> : w \in req[q].set})
    BY <1>3, <2>1 DEF InsertList, Reach
  <2>3. req'[q] = t /\ \A o \in Procs \ {q} : Followed(o)
    BY <2>2, BecomeIs DEF RegistryInv
  <2>4. TaskOk(q)' /\ LookedUp(q)' /\ AppointKnown(q)' /\ TokenMine(q)'
    BY <1>1, <2>1, <2>3 DEF TaskOk, LookedUp, AppointKnown, TokenMine, At
  <2>5. ListKnown(q)'
    BY <1>1, <2>1, <2>2, <2>3 DEF ListKnown, ListOf, At, Places
  <2>6. ASSUME NEW o \in Procs \ {q} PROVE Apart(q, o)'
    <3>1. HeldBy(o)' = HeldBy(o) /\ NewBy(o)' = NewBy(o)
      BY <2>3, FollowedHolds
    <3>2. /\ HeldBy(q)' = HeldBy(q)
          /\ NewBy(q)' = {<<req[q].d, w>> : w \in req[q].set}
      BY <1>1, <2>1, <2>3 DEF HeldBy, NewBy, Replacing, At
    <3>3. /\ (HeldBy(o) \cup NewBy(o)) \cap {<<req[q].d, w>> : w \in req[q].set} = {}
          /\ (HeldBy(o) \cup NewBy(o)) \cap HeldBy(q) = {}
      BY <2>2 DEF RowsFree, RegistryInv, RowsApart, Apart
    <3> QED
      BY <2>1, <2>3, <3>1, <3>2, <3>3 DEF Apart
  <2> QED
    BY <2>2, <2>4, <2>5, <2>6, OnlyWaits
<1> QED
  BY <1>2, <1>3

----------------------------------------------------------------------------
(* Devices. *)

LEMMA BeginRegisterInv ==
  ASSUME RegistryInv, NEW q \in Procs, NEW u \in Accounts, NEW k \in Devices \cup {None},
         BeginRegister(q, u, k)
  PROVE  RegistryInv'
<1>1. PICK l \in {"clear", "set"} : l = IF k = None THEN "set" ELSE "clear"
  OBVIOUS
<1>2. PICK t \in Tasks :
         /\ t = Task("register", l, u, k, {}, {})
         /\ t.op = "register" /\ t.pc = l /\ t.d = u /\ t.key = k /\ t.del = {}
  BY TaskIs DEF Ops, Pcs, Accounts
<1>3. Become(q, t) /\ UNCHANGED <<Records_, Places, Phones>>
  BY <1>1, <1>2 DEF BeginRegister
<1>4. req'[q] = t
  BY <1>3, BecomeIs DEF RegistryInv
<1>5. TaskOk(q)' /\ LookedUp(q)' /\ ListKnown(q)' /\ AppointKnown(q)' /\ TokenMine(q)'
  BY <1>2, <1>4 DEF TaskOk, LookedUp, ListKnown, AppointKnown, TokenMine, At
<1>6. \A o \in Procs \ {q} : Apart(q, o)'
  BY <1>2, <1>4 DEF Apart, HeldBy, NewBy, Replacing, At
<1> QED
  BY <1>2, <1>3, <1>5, <1>6, OnlyWaits

\* Clear and Set take rows nobody holds.
LEMMA TakesRows ==
  ASSUME RegistryInv, NEW q \in Procs, req[q].op = "register",
         NEW l \in {"set", "commit"}, NEW us \in SUBSET Accounts,
         Become(q, [req[q] EXCEPT !.pc = l, !.del = us]),
         \A u \in us : u \in req[q].del \/ UserFree(q, u),
         UNCHANGED <<Records_, Places, Phones>>,
         l = "commit" => OthersWith(req[q].d, req[q].key) \subseteq us /\ SameToken(q) = {}
  PROVE  RegistryInv'
<1>1. req[q] \in Tasks /\ TaskOk(q)
  BY DEF RegistryInv, RegistryTypeOK
<1>2. PICK t \in Tasks : /\ t = [req[q] EXCEPT !.pc = l, !.del = us]
                         /\ t.op = "register" /\ t.pc = l /\ t.d = req[q].d
                         /\ t.key = req[q].key /\ t.del = us
  <2>1. [req[q] EXCEPT !.pc = l, !.del = us] \in Tasks
    BY <1>1 DEF Tasks, Pcs
  <2> QED
    BY <1>1, <2>1 DEF Tasks
<1>3. req'[q] = t /\ \A o \in Procs \ {q} : req'[o] = req[o] /\ Followed(o)
  BY <1>2, BecomeIs DEF RegistryInv
<1>4. TaskOk(q)' /\ LookedUp(q)' /\ ListKnown(q)' /\ AppointKnown(q)'
  BY <1>1, <1>2, <1>3 DEF TaskOk, LookedUp, ListKnown, AppointKnown, At
<1>5. TokenMine(q)'
  <2>1. (OthersWith(req[q].d, req[q].key))' = OthersWith(req'[q].d, req'[q].key)
    BY <1>2, <1>3 DEF OthersWith, Phones
  <2>2. l = "commit" => (SameToken(q))' = {}
    BY <1>2, <1>3 DEF SameToken, At
  <2> QED
    BY <1>2, <1>3, <2>1, <2>2 DEF TokenMine, At, OthersWith, Phones
<1>6. ASSUME NEW o \in Procs \ {q} PROVE Apart(q, o)'
  <2>1. HeldBy(q)' = {} /\ NewBy(q)' = {}
    BY <1>2, <1>3 DEF HeldBy, NewBy, Replacing, At
  <2>2. req[o].op = "register" => us \cap req[o].del = {}
    BY DEF UserFree, RegistryInv, RowsApart, Apart
  <2> QED
    BY <1>2, <1>3, <2>1, <2>2 DEF Apart
<1> QED
  BY <1>2, <1>4, <1>5, <1>6, OnlyWaits

LEMMA ClearInv ==
  ASSUME RegistryInv, NEW q \in Procs, Clear(q) \/ Set(q)
  PROVE  RegistryInv'
<1>1. req[q].op = "register" /\ req[q].del \subseteq Accounts /\ req[q].d \in Accounts
  BY DEF Clear, Set, At, RegistryInv, TaskOk
<1>2. CASE Clear(q)
  <2>1. PICK us \in SUBSET Accounts : us = OthersWith(req[q].d, req[q].key)
    BY DEF OthersWith
  <2> QED
    BY <1>1, <1>2, <2>1, TakesRows DEF Clear
<1>3. CASE Set(q) /\ Taken(q)
  BY <1>3, RefusedInv DEF Set, Refused
<1>4. CASE Set(q) /\ ~Taken(q)
  <2>1. PICK us \in SUBSET Accounts : us = req[q].del \cup {req[q].d}
    BY <1>1
  <2>2. \A u \in us : u \in req[q].del \/ UserFree(q, u)
    BY <1>4, <2>1 DEF Set
  <2>3. Become(q, [req[q] EXCEPT !.pc = "commit", !.del = us])
    BY <1>4, <2>1 DEF Set
  <2>4. OthersWith(req[q].d, req[q].key) \subseteq us /\ SameToken(q) = {}
    BY <1>4, <2>1 DEF Set, Taken
  <2> QED
    BY <1>1, <1>4, <2>2, <2>3, <2>4, TakesRows DEF Set
<1> QED
  BY <1>2, <1>3, <1>4

\* A request ends and devices change hands, never to the holder another
\* registration has yet to see.
LEMMA DevicesInv ==
  ASSUME RegistryInv, NEW q \in Procs, Become(q, Over),
         UNCHANGED <<Records_, Places>>,
         device' \in [Accounts -> Devices \cup {None}],
         latest' \in [Devices -> Accounts \cup {None}],
         \A u, v \in Accounts : u # v /\ device'[u] # None => device'[u] # device'[v],
         \A o \in Procs \ {q}, u \in Accounts :
            At(o, "register", "commit") /\ req[o].key # None /\ device'[u] = req[o].key
            => device[u] = req[o].key
  PROVE  RegistryInv'
<1>1. /\ req' \in [Procs -> Tasks] /\ req'[q] = Over /\ \A o \in Procs \ {q} : Followed(o)
      /\ UNCHANGED <<row, manager, open, used, access, blind, twins>>
  BY OverTask, BecomeIs DEF RegistryInv, Records_, Places
<1>2. RegistryTypeOK' /\ Referenced' /\ IndexHolds'
  BY <1>1 DEF RegistryInv, RegistryTypeOK, Referenced, IndexHolds, Stored
<1>3. /\ RowsApart' /\ \A o \in Procs : TaskOk(o)'
      /\ \A o \in Procs \ {q} : At(o, "register", "commit")' => (SameToken(o) = {})'
  BY <1>1, OverHolds, OthersApart
<1>4. ASSUME NEW o \in Procs \ {q} PROVE LookedUp(o)' /\ ListKnown(o)' /\ AppointKnown(o)'
  BY <1>1, RowsStay, PlacesStay DEF RegistryInv
<1>5. ASSUME NEW o \in Procs \ {q}, At(o, "register", "commit")', req[o].key # None,
             NEW u \in Accounts \ {req[o].d}, device'[u] = req[o].key
      PROVE  u \in req[o].del
  <2>1. /\ At(o, "register", "commit") /\ req'[o].d = req[o].d
        /\ req'[o].key = req[o].key /\ req'[o].del = req[o].del
    BY <1>1, <1>5 DEF Followed, At
  <2>2. OthersWith(req[o].d, req[o].key) \subseteq req[o].del
    BY <2>1 DEF RegistryInv, TokenMine
  <2> QED
    BY <1>5, <2>1, <2>2 DEF OthersWith
<1>6. \A o \in Procs \ {q} : TokenMine(o)'
  BY <1>1, <1>3, <1>5 DEF TokenMine, OthersWith, Followed
<1> QED
  BY <1>1, <1>2, <1>3, <1>4, <1>6, OverHolds DEF RegistryInv

LEMMA CommitDeviceIs ==
  ASSUME RegistryInv, NEW q \in Procs, CommitDevice(q)
  PROVE  /\ req[q].d \in Accounts /\ req[q].key \in Devices \cup {None}
         /\ device'[req[q].d] = req[q].key
         /\ \A u \in Accounts \ {req[q].d} :
               /\ device'[u] \in {device[u], None}
               /\ device'[u] # None => device'[u] # req[q].key
  <1>1. /\ req[q].d \in Accounts /\ req[q].key \in Devices \cup {None}
        /\ OthersWith(req[q].d, req[q].key) \subseteq req[q].del
    BY DEF CommitDevice, RegistryInv, TaskOk, TokenMine, At
  <1>2. /\ device'[req[q].d] = req[q].key
        /\ \A u \in Accounts \ {req[q].d} :
              device'[u] = IF u \in req[q].del THEN None ELSE device[u]
    BY <1>1 DEF CommitDevice
  <1> QED
    BY <1>1, <1>2 DEF OthersWith

LEMMA CommitDeviceInv ==
  ASSUME RegistryInv, NEW q \in Procs, CommitDevice(q)
  PROVE  RegistryInv'
<1>1. /\ Become(q, Over) /\ UNCHANGED <<Records_, Places>>
      /\ latest' = IF req[q].key = None THEN latest
                   ELSE [latest EXCEPT ![req[q].key] = req[q].d]
      /\ device' = [o \in Accounts |-> IF o = req[q].d THEN req[q].key
                                       ELSE IF o \in req[q].del THEN None ELSE device[o]]
  BY DEF CommitDevice, Finish
<1>2. /\ device' \in [Accounts -> Devices \cup {None}]
      /\ latest' \in [Devices -> Accounts \cup {None}]
  BY <1>1, CommitDeviceIs DEF RegistryInv, RegistryTypeOK
<1>3. ASSUME NEW u \in Accounts, NEW v \in Accounts, u # v, device'[u] # None
      PROVE  device'[u] # device'[v]
  <2>1. device[u] # None => device[u] # device[v]
    BY <1>3 DEF RegistryInv, IndexHolds
  <2> QED
    BY <1>3, <2>1, CommitDeviceIs
<1>4. ASSUME NEW o \in Procs \ {q}, NEW u \in Accounts, At(o, "register", "commit"),
             req[o].key # None, device'[u] = req[o].key
      PROVE  device[u] = req[o].key
  <2>1. req[q].key # req[o].key
    BY <1>4 DEF CommitDevice, RegistryInv, TokenMine, SameToken
  <2> QED
    BY <1>4, <2>1, CommitDeviceIs
<1>5. \A u, v \in Accounts : u # v /\ device'[u] # None => device'[u] # device'[v]
  BY <1>3
<1>6. \A o \in Procs \ {q}, u \in Accounts :
         At(o, "register", "commit") /\ req[o].key # None /\ device'[u] = req[o].key
         => device[u] = req[o].key
  BY <1>4
<1> QED
  BY <1>1, <1>2, <1>5, <1>6, DevicesInv

LEMMA CleanTokensInv ==
  ASSUME RegistryInv, NEW q \in Procs, NEW dead \in SUBSET Devices, CleanTokens(q, dead)
  PROVE  RegistryInv'
<1>1. /\ Become(q, Over) /\ UNCHANGED <<Records_, Places, latest>>
      /\ device' \in [Accounts -> Devices \cup {None}]
      /\ \A u \in Accounts : device'[u] \in {device[u], None}
  BY DEF CleanTokens, Finish, RegistryInv, RegistryTypeOK
<1>2. \A u, v \in Accounts : u # v /\ device'[u] # None => device'[u] # device'[v]
  BY <1>1 DEF RegistryInv, IndexHolds
<1>3. latest' \in [Devices -> Accounts \cup {None}]
  BY <1>1 DEF RegistryInv, RegistryTypeOK
<1>4. \A o \in Procs \ {q}, u \in Accounts :
         At(o, "register", "commit") /\ req[o].key # None /\ device'[u] = req[o].key
         => device[u] = req[o].key
  BY <1>1
<1> QED
  BY <1>1, <1>2, <1>3, <1>4, DevicesInv

LEMMA BeginNotifyInv ==
  ASSUME RegistryInv, NEW q \in Procs, NEW us \in SUBSET Accounts, BeginNotify(q, us)
  PROVE  RegistryInv'
<1>1. {device[u] : u \in us} \in SUBSET Devices
  BY DEF BeginNotify, RegistryInv, RegistryTypeOK
<1>2. PICK sent \in SUBSET Devices : sent = {device[u] : u \in us}
  BY <1>1
<1>3. PICK t \in Tasks :
         /\ t = Task("notify", "clean", None, None, sent, {})
         /\ t.op = "notify" /\ t.pc = "clean"
  BY TaskIs DEF Ops, Pcs
<1>4. Become(q, t) /\ UNCHANGED <<Records_, Places, Phones>>
  BY <1>2, <1>3 DEF BeginNotify
<1>5. req'[q] = t
  BY <1>4, BecomeIs DEF RegistryInv
<1>6. TaskOk(q)' /\ LookedUp(q)'
  BY <1>3, <1>5 DEF TaskOk, LookedUp
<1> QED
  BY <1>3, <1>4, <1>5, <1>6, FreshApart, OnlyWaits

----------------------------------------------------------------------------

LEMMA RegistryInitInv == RegistryInit => RegistryInv /\ NoSilentTwins /\ OneHolder
<1> SUFFICES ASSUME RegistryInit PROVE RegistryInv /\ NoSilentTwins /\ OneHolder
  OBVIOUS
<1>1. PICK s \in Scenes :
         /\ row = s.row /\ manager = s.manager /\ open = s.open
         /\ access = s.access /\ device = s.device
         /\ latest = [t \in Devices |->
                         IF \E u \in Accounts : s.device[u] = t
                         THEN CHOOSE u \in Accounts : s.device[u] = t ELSE None]
  BY DEF RegistryInit
<1>2. Scene(s)
  BY RegistryAssumption
<1>3. /\ used = {} /\ blind = {} /\ twins = {} /\ req = [q \in Procs |-> Blank]
  BY DEF RegistryInit
<1>4. \A q \in Procs : req[q].op = None /\ req[q].pc = "new" /\ None \notin Ops
  <2>1. Blank.op = None /\ Blank.pc = "new"
    BY TaskIs DEF Blank
  <2> QED
    BY <1>3, <2>1, RegistryAssumption
<1>5. RegistryTypeOK
  <2>1. latest \in [Devices -> Accounts \cup {None}]
    BY <1>1
  <2>2. req \in [Procs -> Tasks]
    BY <1>3, OverTask
  <2> QED
    BY <1>1, <1>2, <1>3, <2>1, <2>2 DEF RegistryTypeOK, Scene
<1>6. RowsApart
  BY <1>4 DEF RowsApart, Apart, HeldBy, NewBy, Replacing, At, Ops
<1>7. Referenced
  BY <1>1, <1>2, <1>3 DEF Referenced, Scene
<1>8. IndexHolds
  BY <1>1, <1>2 DEF IndexHolds, Scene, Stored, Indexed
<1>9. \A q \in Procs : TaskOk(q) /\ LookedUp(q) /\ ListKnown(q) /\ AppointKnown(q) /\ TokenMine(q)
  BY <1>4 DEF TaskOk, LookedUp, ListKnown, AppointKnown, TokenMine, At, Ops
<1>10. NoSilentTwins
  BY <1>1, <1>2 DEF NoSilentTwins, Scene, Live
<1>11. OneHolder
  <2> SUFFICES ASSUME NEW u \in Accounts, device[u] # None PROVE latest[device[u]] = u
    BY DEF OneHolder
  <2>1. device[u] \in Devices /\ \A v \in Accounts : device[v] = device[u] => v = u
    BY <1>1, <1>2 DEF Scene
  <2> QED
    BY <1>1, <2>1
<1> QED
  BY <1>5, <1>6, <1>7, <1>8, <1>9, <1>10, <1>11 DEF RegistryInv

LEMMA ArriveInv ==
  ASSUME RegistryInv, NEW q \in Procs, Arrive(q)
  PROVE  RegistryInv'
<1>1. ASSUME NEW d \in Records, NEW k \in Keys, BeginCreate(q, d, k) \/ BeginUpdate(q, d, k)
      PROVE  RegistryInv'
  <2>1. d \notin Clients => d \in Accounts \/ d \in Indexed
    BY RegistryAssumption DEF Clients, Accounts, Indexed, Tables
  <2>2. CASE BeginCreate(q, d, k)
    BY <2>2, LaunchInv DEF BeginCreate
  <2>3. CASE BeginUpdate(q, d, k)
    BY <2>3, LaunchInv DEF BeginUpdate
  <2> QED
    BY <1>1, <2>2, <2>3
<1>2. ASSUME NEW d \in Records, BeginRemove(q, d) \/ BeginRestore(q, d)
      PROVE  RegistryInv'
  <2>1. row[d].key \in Keys \cup {None}
    BY DEF RegistryInv, RegistryTypeOK, RowTypes
  <2>2. CASE BeginRemove(q, d)
    BY <2>2, LaunchInv DEF BeginRemove
  <2>3. CASE BeginRestore(q, d)
    BY <2>1, <2>3, LaunchInv DEF BeginRestore
  <2> QED
    BY <1>2, <2>2, <2>3
<1> QED
  BY <1>1, <1>2, CreateWarehouseInv, BeginAppointInv, RemoveWarehouseInv, BeginReplaceInv,
     BeginRegisterInv, BeginNotifyInv DEF Arrive

LEMMA RegistryNextInv == RegistryInv /\ [RegistryNext]_registryVars => RegistryInv'
<1> SUFFICES ASSUME RegistryInv, [RegistryNext]_registryVars PROVE RegistryInv'
  OBVIOUS
<1>1. ASSUME NEW q \in Procs, Statement(q) PROVE RegistryInv'
  BY <1>1, LookInv, WriteInv, GrantInv, CommitAppointInv, DeleteListInv, InsertListInv,
     CommitListInv, ClearInv,
     CommitDeviceInv, CleanTokensInv DEF Statement
<1>2. ASSUME NEW q \in Procs, Victim(q) \/ Interrupted(q) PROVE RegistryInv'
  BY <1>2, RefusedInv DEF Victim, Interrupted
<1>3. CASE UNCHANGED registryVars
  BY <1>3 DEF registryVars, RegistryInv, RegistryTypeOK, Referenced, IndexHolds, Stored,
     RowsApart, Apart, HeldBy, NewBy, Replacing, At, TaskOk, LookedUp, Holders, Live,
     ListKnown, ListOf, AppointKnown, TokenMine, OthersWith, SameToken
<1> QED
  BY <1>1, <1>2, <1>3, ArriveInv, UseInv DEF RegistryNext

\* Which steps write rows of the records, places or devices.
LEMMA WhoWrites ==
  ASSUME [RegistryNext]_registryVars
  PROVE  /\ UNCHANGED Records_ \/ \E q \in Procs :
               WriteCreate(q) \/ WriteUpdate(q) \/ WriteRemove(q) \/ WriteRestore(q)
         /\ UNCHANGED <<device, latest>> \/ \E q \in Procs :
               CommitDevice(q) \/ \E dead \in SUBSET Devices : CleanTokens(q, dead)
         /\ \/ UNCHANGED <<manager, access>>
            \/ \E q \in Procs, w \in Warehouses :
                  /\ req[q].pc = "new"
                  /\ (\E m \in Accounts \cup {None} : CreateWarehouse(q, w, m)) \/ RemoveWarehouse(q, w)
            \/ \E q \in Procs : CommitAppoint(q) \/ CommitList(q)
<1>1. ASSUME NEW q \in Procs, Arrive(q)
      PROVE  /\ UNCHANGED <<Records_, Phones>>
             /\ \/ UNCHANGED <<manager, access>>
                \/ \E w \in Warehouses :
                      /\ req[q].pc = "new"
                      /\ (\E m \in Accounts \cup {None} : CreateWarehouse(q, w, m)) \/ RemoveWarehouse(q, w)
  <2>1. ASSUME NEW w \in Warehouses, NEW m \in Accounts \cup {None}, CreateWarehouse(q, w, m)
        PROVE  UNCHANGED <<Records_, Phones>>
    BY <2>1 DEF CreateWarehouse
  <2>2. ASSUME NEW w \in Warehouses, RemoveWarehouse(q, w) PROVE UNCHANGED <<Records_, Phones>>
    BY <2>2 DEF RemoveWarehouse
  <2>3. ASSUME \/ \E d \in Records, k \in Keys : BeginCreate(q, d, k) \/ BeginUpdate(q, d, k)
               \/ \E d \in Records : BeginRemove(q, d) \/ BeginRestore(q, d)
               \/ \E w \in Warehouses, m \in Accounts \cup {None} : BeginAppoint(q, w, m)
               \/ \E u \in Accounts, ws \in SUBSET Warehouses : BeginReplace(q, u, ws)
               \/ \E u \in Accounts, t \in Devices \cup {None} : BeginRegister(q, u, t)
               \/ \E us \in SUBSET Accounts : BeginNotify(q, us)
        PROVE  UNCHANGED <<Records_, Phones>> /\ UNCHANGED <<manager, access>>
    BY <2>3 DEF BeginCreate, BeginUpdate, BeginRemove, BeginRestore, BeginAppoint,
                BeginReplace, BeginRegister, BeginNotify, Places
  <2> QED
    BY <1>1, <2>1, <2>2, <2>3
       DEF Arrive, CreateWarehouse, RemoveWarehouse
<1>2. ASSUME NEW q \in Procs, Victim(q) \/ Interrupted(q) \/ Look(q) \/ Grant(q) \/ DeleteList(q)
                              \/ InsertList(q) \/ Clear(q) \/ Set(q)
      PROVE  UNCHANGED <<Records_, Phones>> /\ UNCHANGED <<manager, access>>
  BY <1>2 DEF Victim, Interrupted, Refused, Look, Grant, DeleteList, InsertList, Clear, Set, Places
<1>3. ASSUME NEW q \in Procs,
             WriteCreate(q) \/ WriteUpdate(q) \/ WriteRemove(q) \/ WriteRestore(q)
      PROVE  UNCHANGED Phones /\ UNCHANGED <<manager, access>>
  BY <1>3 DEF WriteCreate, WriteUpdate, WriteRemove, WriteRestore, Put, Refused, Places
<1>4. ASSUME NEW q \in Procs,
             CommitDevice(q) \/ \E dead \in SUBSET Devices : CleanTokens(q, dead)
      PROVE  UNCHANGED Records_ /\ UNCHANGED <<manager, access>>
  BY <1>4 DEF CommitDevice, CleanTokens, Places
<1>5. ASSUME NEW q \in Procs, CommitAppoint(q) \/ CommitList(q)
      PROVE  UNCHANGED <<Records_, Phones>>
  BY <1>5 DEF CommitAppoint, CommitList
<1>6. ASSUME NEW w \in Warehouses, Use(w)
      PROVE  UNCHANGED <<Records_, Phones>> /\ UNCHANGED <<manager, access>>
  BY <1>6 DEF Use
<1>7. CASE UNCHANGED registryVars
  BY <1>7 DEF registryVars, Records_
<1> QED
  BY <1>1, <1>2, <1>3, <1>4, <1>5, <1>6, <1>7 DEF RegistryNext, Statement, Phones

LEMMA TwinsStep ==
  RegistryInv /\ NoSilentTwins /\ [RegistryNext]_registryVars => NoSilentTwins'
<1> SUFFICES ASSUME RegistryInv, NoSilentTwins, [RegistryNext]_registryVars,
                    ~UNCHANGED Records_
             PROVE  NoSilentTwins'
  BY DEF NoSilentTwins, Live, Records_
<1>1. PICK q \in Procs : WriteCreate(q) \/ WriteUpdate(q) \/ WriteRemove(q) \/ WriteRestore(q)
  BY WhoWrites
<1>2. PICK d : d = req[q].d /\ d \in Records
  BY <1>1, WriteIs
<1>3. PICK r \in RowTypes :
         /\ Written(q, d, r)
         /\ req[q].op = "remove" => r.state # "live"
         /\ r.state = "live" /\ d \notin Indexed /\ d \notin blind' =>
               Holders(d, r.key) \subseteq req[q].since
  BY <1>1, <1>2, WriteIs DEF Refused
<1>4. /\ row'[d] = r /\ \A e \in Records \ {d} : row'[e] = row[e]
      /\ blind \subseteq blind' /\ twins \subseteq twins'
      /\ req[q].op # "remove" => \A e \in req[q].since \ {d} : {d, e} \in twins'
  BY <1>2, <1>3 DEF Written, RegistryInv, RegistryTypeOK
<1>5. ASSUME NEW e \in Alike(d), d \notin Indexed, Live(d)', Live(e)', row'[d].key = row'[e].key
      PROVE  {d, e} \in twins' \/ d \in blind'
  <2>1. e \in Records /\ e # d
    BY DEF Alike
  <2>2. r.state = "live" /\ req[q].op # "remove" /\ e \in Holders(d, r.key)
    BY <1>3, <1>4, <1>5, <2>1 DEF Live, Holders
  <2> QED
    BY <1>3, <1>4, <1>5, <2>1, <2>2
<1>6. ASSUME NEW x \in Records \ Indexed, NEW y \in Alike(x), Live(x)', Live(y)',
             row'[x].key = row'[y].key
      PROVE  {x, y} \in twins' \/ {x, y} \cap blind' # {}
  <2>1. y \in Records \ {x} /\ x \in Alike(y) /\ y \notin Indexed /\ {x, y} = {y, x}
    BY DEF Alike, Indexed
  <2>2. CASE x = d
    BY <1>5, <1>6, <2>1, <2>2
  <2>3. CASE y = d
    BY <1>5, <1>6, <2>1, <2>3
  <2>4. CASE x # d /\ y # d
    <3>1. {x, y} \in twins \/ {x, y} \cap blind # {}
      BY <1>4, <1>6, <2>1, <2>4 DEF NoSilentTwins, Live
    <3> QED
      BY <1>4, <3>1
  <2> QED
    BY <2>2, <2>3, <2>4
<1> QED
  BY <1>6 DEF NoSilentTwins

LEMMA HolderStep == RegistryInv /\ OneHolder /\ [RegistryNext]_registryVars => OneHolder'
<1> SUFFICES ASSUME RegistryInv, OneHolder, [RegistryNext]_registryVars,
                    ~UNCHANGED <<device, latest>>
             PROVE  OneHolder'
  BY DEF OneHolder
<1>1. PICK q \in Procs : CommitDevice(q) \/ \E dead \in SUBSET Devices : CleanTokens(q, dead)
  BY WhoWrites
<1>2. CASE CommitDevice(q)
  <2>1. latest' = IF req[q].key = None THEN latest
                  ELSE [latest EXCEPT ![req[q].key] = req[q].d]
    BY <1>2 DEF CommitDevice
  <2> SUFFICES ASSUME NEW u \in Accounts, device'[u] # None PROVE latest'[device'[u]] = u
    BY DEF OneHolder
  <2>2. CASE u = req[q].d
    BY <1>2, <2>1, <2>2, CommitDeviceIs DEF RegistryInv, RegistryTypeOK
  <2>3. CASE u # req[q].d
    <3>1. device'[u] = device[u] /\ device'[u] # req[q].key /\ latest[device[u]] = u
      BY <1>2, <2>3, CommitDeviceIs DEF OneHolder
    <3> QED
      BY <2>1, <3>1 DEF RegistryInv, RegistryTypeOK
  <2> QED
    BY <2>2, <2>3
<1>3. CASE \E dead \in SUBSET Devices : CleanTokens(q, dead)
  <2>1. latest' = latest /\ \A u \in Accounts : device'[u] \in {device[u], None}
    BY <1>3 DEF CleanTokens
  <2> QED
    BY <2>1 DEF OneHolder
<1> QED
  BY <1>1, <1>2, <1>3

----------------------------------------------------------------------------

\* What each request on the records, the places and the devices knows at every
\* statement, and the database's constraints.
THEOREM RegistrySafe == RegistrySpec => []RegistryInv
<1>1. RegistryInv /\ [RegistryNext]_registryVars => RegistryInv'
  BY RegistryNextInv
<1> QED
  BY RegistryInitInv, <1>1, PTL DEF RegistrySpec

\* Two live clients with one code, or users with one e-mail, only from writes that
\* overlapped or looked nothing up.
THEOREM TwinsKnown == RegistrySpec => []NoSilentTwins
<1>1. RegistryInv /\ NoSilentTwins /\ [RegistryNext]_registryVars => NoSilentTwins'
  BY TwinsStep
<1> QED
  BY RegistryInitInv, RegistrySafe, <1>1, PTL DEF RegistrySpec

\* A token is with the user who registered it last and with nobody else.
THEOREM DevicesHeldOnce == RegistrySpec => []OneHolder
<1>1. RegistryInv /\ OneHolder /\ [RegistryNext]_registryVars => OneHolder'
  BY HolderStep
<1> QED
  BY RegistryInitInv, RegistrySafe, <1>1, PTL DEF RegistrySpec

\* A replaced access list holds what was asked for, and of the rest only what others
\* added while it ran.
THEOREM ListsExact == RegistrySpec => ListsReplaced
<1>1. ASSUME RegistryInv, [RegistryNext]_registryVars, NEW q \in Procs,
             At(q, "replace", "commit"), req'[q].pc = "done", access' # access
      PROVE  LET list == {w \in Warehouses : <<req[q].d, w>> \in access'}
             IN  req[q].set \subseteq list /\ list \subseteq req[q].set \cup req[q].since
  <2>1. CASE CommitList(q)
    <3>1. /\ ListOf(req[q].d) \ req[q].del \subseteq req[q].since
          /\ req[q].set \subseteq Warehouses
      BY <1>1 DEF RegistryInv, ListKnown, TaskOk, At
    <3>2. access' = (access \ {<<req[q].d, w>> : w \in req[q].del})
                       \cup {<<req[q].d, w>> : w \in req[q].set}
      BY <2>1 DEF CommitList
    <3> QED
      BY <3>1, <3>2 DEF ListOf
  <2>2. ASSUME NEW o \in Procs \ {q}, NEW came, NEW gone, req' = Told(o, came, gone)
        PROVE  FALSE
    <3>1. req'[q] = [req[q] EXCEPT !.since = @ \cup News(q, came, gone)]
      BY <2>2 DEF Told
    <3>2. req'[q].pc = req[q].pc
      BY <3>1 DEF RegistryInv, RegistryTypeOK, Tasks
    <3> QED
      BY <1>1, <3>2 DEF At
  <2>3. ASSUME NEW o \in Procs \ {q}, CommitAppoint(o) \/ CommitList(o) PROVE FALSE
    BY <2>2, <2>3 DEF CommitAppoint, CommitList
  <2>4. ASSUME NEW o \in Procs, req[o].pc = "new", NEW w \in Warehouses,
               NEW m \in Accounts \cup {None}, CreateWarehouse(o, w, m)
        PROVE  FALSE
    <3>1. o # q
      BY <1>1, <2>4 DEF At
    <3> QED
      BY <2>2, <2>4, <3>1 DEF CreateWarehouse
  <2>5. ASSUME NEW o \in Procs, NEW w \in Warehouses, RemoveWarehouse(o, w) PROVE FALSE
    BY <1>1, <2>5 DEF RemoveWarehouse, Finish, Become, At, RegistryInv, RegistryTypeOK
  <2>6. ~CommitAppoint(q)
    BY <1>1 DEF CommitAppoint, At
  <2> QED
    BY <1>1, <2>1, <2>3, <2>4, <2>5, <2>6, WhoWrites
<1>2. RegistryInv /\ [RegistryNext]_registryVars
      => [\A q \in Procs :
            At(q, "replace", "commit") /\ req'[q].pc = "done" /\ access' # access
               => LET list == {w \in Warehouses : <<req[q].d, w>> \in access'} IN
                  req[q].set \subseteq list /\ list \subseteq req[q].set \cup req[q].since
         ]_registryVars
  BY <1>1
<1> QED
  BY <1>2, RegistrySafe, PTL DEF RegistrySpec, ListsReplaced

\* A manager lacks access only once a list without the warehouse replaced theirs,
\* after the appointment or between its upsert and its commit.
THEOREM ManagersKeepAccess == RegistrySpec => ManagerKeepsAccess
<1>1. ASSUME RegistryInv, [RegistryNext]_registryVars, NEW w \in Warehouses,
             manager'[w] # None, <<manager'[w], w>> \notin access'
      PROVE  \/ manager[w] = manager'[w] /\ <<manager'[w], w>> \notin access
             \/ \E q \in Procs :
                   /\ req'[q].pc = "done" /\ req[q].d = manager'[w]
                   /\ \/ At(q, "replace", "commit") /\ w \notin req[q].set
                      \/ At(q, "appoint", "commit") /\ w \in req[q].since
  <2>1. CASE UNCHANGED <<manager, access>>
    BY <1>1, <2>1
  <2>2. ASSUME NEW q \in Procs, NEW x \in Warehouses, NEW m \in Accounts \cup {None},
               CreateWarehouse(q, x, m)
        PROVE  manager[w] = manager'[w] /\ <<manager'[w], w>> \notin access
    BY <1>1, <2>2 DEF CreateWarehouse, RegistryInv, RegistryTypeOK
  <2>3. ASSUME NEW q \in Procs, NEW x \in Warehouses, RemoveWarehouse(q, x)
        PROVE  manager[w] = manager'[w] /\ <<manager'[w], w>> \notin access
    BY <1>1, <2>3 DEF RemoveWarehouse, RegistryInv, RegistryTypeOK
  <2>4. ASSUME NEW q \in Procs, CommitAppoint(q) \/ CommitList(q) PROVE req'[q].pc = "done"
    <3>1. req'[q] = Over
      BY <2>4 DEF CommitAppoint, CommitList, Told
    <3> QED
      BY <3>1, TaskIs DEF Over
  <2>5. ASSUME NEW q \in Procs, CommitList(q)
        PROVE  /\ manager[w] = manager'[w]
               /\ <<manager'[w], w>> \in access =>
                     /\ At(q, "replace", "commit") /\ req[q].d = manager'[w]
                     /\ w \notin req[q].set
    BY <1>1, <2>5 DEF CommitList
  <2>6. ASSUME NEW q \in Procs, CommitAppoint(q)
        PROVE  \/ manager[w] = manager'[w] /\ <<manager'[w], w>> \notin access
               \/ /\ At(q, "appoint", "commit") /\ req[q].d = manager'[w]
                  /\ w \in req[q].since
    <3>1. /\ At(q, "appoint", "commit") /\ AppointKnown(q)
          /\ access' = access \cup {<<req[q].d, x>> : x \in req[q].del}
          /\ manager'[w] = IF w \in req[q].set THEN req[q].d ELSE manager[w]
      BY <1>1, <2>6 DEF CommitAppoint, RegistryInv
    <3>2. CASE w \in req[q].set
      <4>1. manager'[w] = req[q].d /\ w \notin req[q].del /\ <<req[q].d, w>> \notin access
        BY <1>1, <3>1, <3>2
      <4> QED
        BY <1>1, <3>1, <3>2, <4>1 DEF AppointKnown, At
    <3>3. CASE w \notin req[q].set
      BY <1>1, <3>1, <3>3
    <3> QED
      BY <3>2, <3>3
  <2> QED
    BY <1>1, <2>1, <2>2, <2>3, <2>4, <2>5, <2>6, WhoWrites
<1>2. RegistryInv /\ [RegistryNext]_registryVars
      => [\A w \in Warehouses : ManagerIn(w)]_registryVars
  BY <1>1 DEF ManagerIn
<1> QED
  BY <1>2, RegistrySafe, PTL DEF RegistrySpec, ManagerKeepsAccess
=============================================================================
