----------------------------- MODULE Registry ------------------------------
(***************************************************************************)
(* The records everything else refers to: clients, users, categories and   *)
(* suppliers with the code each is known by, the warehouses with their     *)
(* managers and the users let into them, and the devices users registered  *)
(* for notifications.  A request runs as its code does: look-ups first,    *)
(* then the write, with other requests in between; the appointment of a    *)
(* manager and the replacements of an access list and of a device are      *)
(* transactions of several statements.                                     *)
(***************************************************************************)
EXTENDS FiniteSets, Requests

CONSTANTS
    Records,     \* clients, users, categories and suppliers
    TableOf,     \* "client", "user", "category" or "supplier"
    Keys,        \* codes, e-mails and names
    Warehouses,
    Devices,     \* push tokens: one per installation of the app
    Scenes       \* what the database may hold at first

Tables == {"client", "user", "category", "supplier"}
Accounts == {d \in Records : TableOf[d] = "user"}
Clients == {d \in Records : TableOf[d] = "client"}
\* Tables with a unique index on the key; users lost theirs to soft deletion.
Indexed == {d \in Records : TableOf[d] \in {"category", "supplier"}}

Alike(d) == {e \in Records \ {d} : TableOf[e] = TableOf[d]}

Ops == {"create", "update", "remove", "restore", "appoint", "replace", "register", "notify"}

RowTypes == [state : {"none", "live", "deleted", "gone"}, key : Keys \cup {None}]

\* A database with its constraints: foreign keys, unique indexes and, where the
\* code keeps keys apart by itself, no two live rows with one key.
Scene(s) ==
    /\ s.row \in [Records -> RowTypes]
    /\ \A d \in Records : \A e \in Alike(d) :
          LET taken == IF d \in Indexed THEN {"live", "deleted"} ELSE {"live"} IN
          s.row[d].state \in taken /\ s.row[e].state \in taken => s.row[d].key # s.row[e].key
    /\ s.open \subseteq Warehouses
    /\ s.manager \in [Warehouses -> Accounts \cup {None}]
    /\ \A w \in Warehouses : s.manager[w] # None => w \in s.open
    /\ s.access \subseteq Accounts \X s.open
    /\ s.device \in [Accounts -> Devices \cup {None}]
    /\ \A u, v \in Accounts : u # v /\ s.device[u] # None => s.device[u] # s.device[v]

ASSUME RegistryAssumption ==
    /\ TableOf \in [Records -> Tables]
    /\ None \notin Records \cup Keys \cup Devices \cup Ops
    /\ \A s \in Scenes : Scene(s)

VARIABLES
    row,       \* each record's row
    manager,   \* of each warehouse
    open,      \* the warehouses that exist
    used,      \* warehouses documents refer to: the database keeps them
    access,    \* user_warehouses
    device,    \* the token each user has, None without one
    req,       \* what each request is doing, with the rows its transaction wrote
    blind,     \* records given their key without a look-up: restored and edited users
    twins,     \* pairs of records, one written between the look-up and the write of the other
    latest     \* who last registered each device

registryVars == <<row, manager, open, used, access, device, req, blind, twins, latest>>

NoRow == [state |-> "none", key |-> None]
Task(op, l, d, k, ws, del) ==
    [op |-> op, pc |-> l, d |-> d, key |-> k, set |-> ws, del |-> del, since |-> {}]
Blank == Task(None, "new", None, None, {}, {})
Over == Task(None, "done", None, None, {}, {})

Stored(d) == row[d].state \in {"live", "deleted"}
Live(d) == row[d].state = "live"
Become(q, r) == req' = [req EXCEPT ![q] = r]
Reach(q, l) == Become(q, [req[q] EXCEPT !.pc = l])
Finish(q) == Become(q, Over)
At(q, op, l) == req[q].op = op /\ req[q].pc = l
Launch(q, op, d, k, l) ==
    /\ req[q].pc = "new"
    /\ Become(q, Task(op, l, d, k, {}, {}))

Records_ == <<row, blind, twins>>
Places == <<manager, open, used, access>>
Phones == <<device, latest>>

-----------------------------------------------------------------------------
(* Clients, users, categories and suppliers. *)

\* A row being changed by another transaction makes a write wait; only the
\* registration of a device holds one for longer than a statement.
UserFree(q, u) == \A o \in Procs \ {q} : req[o].op = "register" => u \notin req[o].del

BeingCreated(d) == \E q \in Procs : req[q].op = "create" /\ req[q].d = d

BeginCreate(q, d, k) ==
    /\ row[d].state = "none" /\ ~BeingCreated(d)
    /\ Launch(q, "create", d, k, IF d \in Indexed THEN "write" ELSE "look")
    /\ UNCHANGED <<Records_, Places, Phones>>

\* A plausible slip: only a creation looks the code up.
BeginEdit(q, d, k) ==
    /\ row[d].state # "none"
    /\ Launch(q, "update", d, k, "write")
    /\ UNCHANGED <<Records_, Places, Phones>>

\* An update that leaves the key alone is not followed.
BeginUpdate(q, d, k) ==
    /\ row[d].state # "none"
    /\ Launch(q, "update", d, k, IF d \in Clients THEN "look" ELSE "write")
    /\ UNCHANGED <<Records_, Places, Phones>>

BeginRemove(q, d) ==
    /\ row[d].state # "none"
    /\ Launch(q, "remove", d, None, IF d \in Clients THEN "look" ELSE "write")
    /\ UNCHANGED <<Records_, Places, Phones>>

BeginRestore(q, d) ==
    /\ d \in Accounts /\ row[d].state # "none"
    /\ Launch(q, "restore", d, row[d].key, "look")
    /\ UNCHANGED <<Records_, Places, Phones>>

Holders(d, k) == {e \in Alike(d) : Live(e) /\ row[e].key = k}

Refuses(q) ==
    LET d == req[q].d IN
    CASE req[q].op \in {"create", "update"} -> Holders(d, req[q].key) # {}
      [] req[q].op = "remove" -> ~Live(d)
      [] OTHER -> row[d].state # "deleted"

Look(q) ==
    /\ req[q].op \in {"create", "update", "remove", "restore"} /\ req[q].pc = "look"
    /\ IF Refuses(q) THEN Finish(q) ELSE Reach(q, "write")
    /\ UNCHANGED <<Records_, Places, Phones>>

\* findUnique and update match the id; a client's also want it live.
Found(d) == IF d \in Clients THEN Live(d) ELSE Stored(d)

IndexRefuses(d, k) == d \in Indexed /\ \E e \in Alike(d) : Stored(e) /\ row[e].key = k

\* The others whose look-up is behind them learn that d was written meanwhile.
Wrote(q, d) ==
    [o \in Procs |->
        IF o = q THEN Over
        ELSE IF req[o].pc = "write" THEN [req[o] EXCEPT !.since = @ \cup {d}] ELSE req[o]]

\* The row is written, with what a look-up had to say of its key.
Put(q, d, r, unseen) ==
    /\ UserFree(q, d)
    /\ row' = [row EXCEPT ![d] = r]
    /\ req' = Wrote(q, d)
    /\ blind' = IF unseen THEN blind \cup {d} ELSE blind
    /\ twins' = IF req[q].op = "remove" THEN twins
                ELSE twins \cup {{d, e} : e \in req[q].since \ {d}}
    /\ UNCHANGED <<Places, Phones>>

Refused(q) == Finish(q) /\ UNCHANGED <<Records_, Places, Phones>>

WriteCreate(q) ==
    LET d == req[q].d IN
    /\ At(q, "create", "write")
    /\ IF IndexRefuses(d, req[q].key) THEN Refused(q)
       ELSE Put(q, d, [state |-> "live", key |-> req[q].key], FALSE)

WriteUpdate(q) ==
    LET d == req[q].d IN
    /\ At(q, "update", "write")
    /\ IF ~Found(d) \/ IndexRefuses(d, req[q].key) THEN Refused(q)
       ELSE Put(q, d, [row[d] EXCEPT !.key = req[q].key], d \in Accounts)

\* Clients and users keep their row.
WriteRemove(q) ==
    LET d == req[q].d IN
    /\ At(q, "remove", "write")
    /\ IF ~Stored(d) THEN Refused(q)
       ELSE Put(q, d, [row[d] EXCEPT !.state = IF d \in Indexed THEN "gone" ELSE "deleted"], FALSE)

WriteRestore(q) ==
    LET d == req[q].d IN
    /\ At(q, "restore", "write")
    /\ Put(q, d, [row[d] EXCEPT !.state = "live"], TRUE)

-----------------------------------------------------------------------------
(* Warehouses: a manager is let into the warehouse with the appointment. *)

\* A transaction replacing a user's list holds the rows it deleted or inserted, one
\* that appoints a manager the row it inserted and its warehouse's.
Replacing(q) == req[q].op = "replace" /\ req[q].pc \in {"insert", "commit"}
HeldBy(q) == IF Replacing(q) THEN {<<req[q].d, w>> : w \in req[q].del} ELSE {}
NewBy(q) ==
    IF At(q, "replace", "commit") THEN {<<req[q].d, w>> : w \in req[q].set}
    ELSE IF At(q, "appoint", "commit") THEN {<<req[q].d, w>> : w \in req[q].del} ELSE {}
Unheld(q, rows) == rows \subseteq Accounts \X Warehouses  \* a plausible slip: nothing waits
RowsFree(q, rows) == \A o \in Procs \ {q} : (HeldBy(o) \cup NewBy(o)) \cap rows = {}
WarehouseFree(q, w) == \A o \in Procs \ {q} : req[o].op = "appoint" => w \notin req[o].set

\* The others replacing the list of a user learn which rows came meanwhile, and those
\* appointing the user which of the rows they may have found are gone.
News(o, came, gone) ==
    IF req[o].op = "replace" /\ req[o].pc \in {"delete", "insert", "commit"}
    THEN {w \in Warehouses : <<req[o].d, w>> \in came}
    ELSE IF At(o, "appoint", "commit")
    THEN {w \in req[o].set : <<req[o].d, w>> \in gone} ELSE {}
Told(q, came, gone) ==
    [o \in Procs |->
        IF o = q THEN Over ELSE [req[o] EXCEPT !.since = @ \cup News(o, came, gone)]]

\* The transaction ends before anyone sees the warehouse.
CreateWarehouse(q, w, m) ==
    LET rows == IF m = None THEN {} ELSE {<<m, w>>} IN
    /\ req[q].pc = "new" /\ w \notin open
    /\ m # None => Stored(m)
    /\ open' = open \cup {w}
    /\ manager' = [manager EXCEPT ![w] = m]
    /\ access' = access \cup rows
    /\ req' = Told(q, rows, {})
    /\ UNCHANGED <<Records_, Phones, used>>

\* UpdateWarehouse and SetWarehouseManager write the manager, and then let the
\* manager in.  assertManagerExists comes first, but a user's row is never deleted.
\* Naming no manager in the request leaves the one there is.
BeginAppoint(q, w, m) ==
    /\ req[q].pc = "new" /\ w \in open /\ WarehouseFree(q, w)
    /\ m # None => Stored(m)
    /\ Become(q, Task("appoint", IF m = None THEN "commit" ELSE "grant", m, None, {w}, {}))
    /\ UNCHANGED <<Records_, Places, Phones>>

\* A plausible slip: the manager is written and not let in.
GrantNobody(q) ==
    /\ At(q, "appoint", "grant")
    /\ Reach(q, "commit")
    /\ UNCHANGED <<Records_, Places, Phones>>

\* The upsert updates nothing in a row that is there, and need not lock it: a list
\* that deletes it may commit first.  Otherwise it inserts one.
Grant(q) ==
    LET rows == {<<req[q].d, w>> : w \in req[q].set} IN
    /\ At(q, "appoint", "grant")
    /\ IF rows \subseteq access THEN Reach(q, "commit")
       ELSE /\ RowsFree(q, rows)
            /\ Become(q, [req[q] EXCEPT !.pc = "commit", !.del = req[q].set])
    /\ UNCHANGED <<Records_, Places, Phones>>

CommitAppoint(q) ==
    LET rows == {<<req[q].d, w>> : w \in req[q].del} IN
    /\ At(q, "appoint", "commit")
    /\ manager' = [w \in Warehouses |-> IF w \in req[q].set THEN req[q].d ELSE manager[w]]
    /\ access' = access \cup rows
    /\ req' = Told(q, rows \ access, {})
    /\ UNCHANGED <<Records_, Phones, open, used>>

\* A real delete, refused while documents refer to the warehouse; it takes the
\* access rows with it, and waits for those a transaction holds.
RemoveWarehouse(q, w) ==
    /\ req[q].pc = "new" /\ w \in open \ used
    /\ WarehouseFree(q, w) /\ RowsFree(q, Accounts \X {w})
    /\ open' = open \ {w}
    /\ manager' = [manager EXCEPT ![w] = None]
    /\ access' = access \ (Accounts \X {w})
    /\ Finish(q)
    /\ UNCHANGED <<Records_, Phones, used>>

\* The first document of a warehouse.
Use(w) ==
    /\ w \in open \ used
    /\ used' = used \cup {w}
    /\ UNCHANGED <<Records_, Phones, manager, open, access, req>>

ListOf(u) == {w \in Warehouses : <<u, w>> \in access}

\* A plausible slip: the list is added to, not replaced.
BeginExtend(q, u, ws) ==
    /\ req[q].pc = "new" /\ Stored(u)
    /\ Become(q, Task("replace", "delete", u, None, ws, {}))
    /\ UNCHANGED <<Records_, Places, Phones>>

BeginReplace(q, u, ws) ==
    /\ req[q].pc = "new" /\ Stored(u)
    /\ Become(q, Task("replace", "delete", u, None, ws, ListOf(u)))
    /\ UNCHANGED <<Records_, Places, Phones>>

\* deleteMany chose its rows when it began; rows that went while it waited are skipped.
DeleteList(q) ==
    LET u == req[q].d
        rows == {<<u, w>> : w \in req[q].del \cap ListOf(u)}
    IN /\ At(q, "replace", "delete")
       /\ RowsFree(q, rows)
       /\ Become(q, [req[q] EXCEPT !.pc = "insert", !.del = @ \cap ListOf(u)])
       /\ UNCHANGED <<Records_, Places, Phones>>

\* createMany: a row that exists, or a warehouse that does not, undoes it all.
InsertList(q) ==
    LET u == req[q].d
        ws == req[q].set
    IN /\ At(q, "replace", "insert")
       /\ RowsFree(q, {<<u, w>> : w \in ws})
       /\ IF ws \subseteq open /\ ws \cap (ListOf(u) \ req[q].del) = {}
          THEN Reach(q, "commit") ELSE Finish(q)
       /\ UNCHANGED <<Records_, Places, Phones>>

\* A plausible slip: the transaction stays open after its last statement.
CommitListOnly(q) ==
    /\ At(q, "replace", "commit")
    /\ access' = access \cup {<<req[q].d, w>> : w \in req[q].set}
    /\ UNCHANGED <<Records_, Phones, manager, open, used, req>>

CommitList(q) ==
    LET u == req[q].d
        gone == {<<u, w>> : w \in req[q].del}
        rows == {<<u, w>> : w \in req[q].set}
    IN /\ At(q, "replace", "commit")
       /\ access' = (access \ gone) \cup rows
       /\ req' = Told(q, rows \ access, gone \ rows)
       /\ UNCHANGED <<Records_, Phones, manager, open, used>>

-----------------------------------------------------------------------------
(* Devices: a token moves to the user who registered it last. *)

BeginRegister(q, u, t) ==
    /\ req[q].pc = "new" /\ Stored(u)
    /\ Become(q, Task("register", IF t = None THEN "set" ELSE "clear", u, t, {}, {}))
    /\ UNCHANGED <<Records_, Places, Phones>>

OthersWith(u, t) == IF t = None THEN {} ELSE {o \in Accounts \ {u} : device[o] = t}

\* The first statement takes the token from every other user.
Clear(q) ==
    LET them == OthersWith(req[q].d, req[q].key) IN
    /\ At(q, "register", "clear")
    /\ \A o \in them : UserFree(q, o)
    /\ Become(q, [req[q] EXCEPT !.pc = "set", !.del = them])
    /\ UNCHANGED <<Records_, Places, Phones>>

\* The second gives it to the user, or waits for the user's row and for
\* whoever is giving the same token away.
SameToken(q) ==
    {o \in Procs \ {q} : /\ At(o, "register", "commit")
                         /\ req[o].key = req[q].key /\ req[q].key # None}

Taken(q) == ~(OthersWith(req[q].d, req[q].key) \subseteq req[q].del)

\* A plausible slip: nothing stops a token from having two holders.
SetAnyway(q) ==
    /\ At(q, "register", "set")
    /\ UserFree(q, req[q].d) /\ SameToken(q) = {}
    /\ Become(q, [req[q] EXCEPT !.pc = "commit", !.del = @ \cup {req[q].d}])
    /\ UNCHANGED <<Records_, Places, Phones>>

Set(q) ==
    /\ At(q, "register", "set")
    /\ UserFree(q, req[q].d) /\ SameToken(q) = {}
    /\ \A o \in OthersWith(req[q].d, req[q].key) : UserFree(q, o)
    /\ IF Taken(q) THEN Finish(q)
       ELSE Become(q, [req[q] EXCEPT !.pc = "commit", !.del = @ \cup {req[q].d}])
    /\ UNCHANGED <<Records_, Places, Phones>>

CommitDevice(q) ==
    LET u == req[q].d
        t == req[q].key
    IN /\ At(q, "register", "commit")
       /\ device' = [o \in Accounts |-> IF o = u THEN t ELSE IF o \in req[q].del THEN None ELSE device[o]]
       /\ latest' = IF t = None THEN latest ELSE [latest EXCEPT ![t] = u]
       /\ Finish(q)
       /\ UNCHANGED <<Records_, Places>>

\* An alert reads the tokens of users, sends, and later clears the dead ones.
BeginNotify(q, us) ==
    /\ req[q].pc = "new"
    /\ us \subseteq {u \in Accounts : Live(u) /\ device[u] # None} /\ us # {}
    /\ Become(q, Task("notify", "clean", None, None, {device[u] : u \in us}, {}))
    /\ UNCHANGED <<Records_, Places, Phones>>

CleanTokens(q, dead) ==
    LET them == {u \in Accounts : device[u] \in dead} IN
    /\ At(q, "notify", "clean") /\ dead \subseteq req[q].set
    /\ \A u \in them : UserFree(q, u)
    /\ device' = [u \in Accounts |-> IF u \in them THEN None ELSE device[u]]
    /\ Finish(q)
    /\ UNCHANGED <<Records_, Places, latest>>

WaitsFor(q, o) ==
    /\ q # o /\ req[q].op = "register" /\ req[o].op = "register"
    /\ \/ req[q].pc = "clear" /\ OthersWith(req[q].d, req[q].key) \cap req[o].del # {}
       \/ req[q].pc = "set" /\ req[q].d \in req[o].del

\* Two users swapping phones wait for each other; PostgreSQL ends one of them.
Deadlocked(q) ==
    \E S \in SUBSET Procs : q \in S /\ \A x \in S : \E y \in S : WaitsFor(x, y)

Victim(q) == Deadlocked(q) /\ Refused(q)

\* A lost connection or a crash: the open transaction is undone.
Interrupted(q) == req[q].pc \notin {"new", "done"} /\ Refused(q)

-----------------------------------------------------------------------------

RegistryInit ==
    /\ \E s \in Scenes : /\ row = s.row /\ manager = s.manager /\ open = s.open
                       /\ access = s.access /\ device = s.device
                       /\ latest = [t \in Devices |->
                                      IF \E u \in Accounts : s.device[u] = t
                                      THEN CHOOSE u \in Accounts : s.device[u] = t ELSE None]
    /\ used = {} /\ blind = {} /\ twins = {}
    /\ req = [q \in Procs |-> Blank]

Arrive(q) ==
    \/ \E d \in Records, k \in Keys : BeginCreate(q, d, k) \/ BeginUpdate(q, d, k)
    \/ \E d \in Records : BeginRemove(q, d) \/ BeginRestore(q, d)
    \/ \E w \in Warehouses, m \in Accounts \cup {None} :
          CreateWarehouse(q, w, m) \/ BeginAppoint(q, w, m)
    \/ \E w \in Warehouses : RemoveWarehouse(q, w)
    \/ \E u \in Accounts, ws \in SUBSET Warehouses : BeginReplace(q, u, ws)
    \/ \E u \in Accounts, t \in Devices \cup {None} : BeginRegister(q, u, t)
    \/ \E us \in SUBSET Accounts : BeginNotify(q, us)

Statement(q) ==
    \/ Look(q) \/ WriteCreate(q) \/ WriteUpdate(q) \/ WriteRemove(q) \/ WriteRestore(q)
    \/ Grant(q) \/ CommitAppoint(q)
    \/ DeleteList(q) \/ InsertList(q) \/ CommitList(q)
    \/ Clear(q) \/ Set(q) \/ CommitDevice(q)
    \/ \E dead \in SUBSET Devices : CleanTokens(q, dead)

RegistryNext ==
    \/ \E q \in Procs : Arrive(q) \/ Statement(q) \/ Victim(q) \/ Interrupted(q)
    \/ \E w \in Warehouses : Use(w)

RegistrySpec == RegistryInit /\ [][RegistryNext]_registryVars

\* The server runs each statement once PostgreSQL lets it, and PostgreSQL finds
\* every deadlock (deadlock_timeout).
FairRegistrySpec ==
    RegistrySpec /\ \A q \in Procs : WF_registryVars(Statement(q)) /\ WF_registryVars(Victim(q))

-----------------------------------------------------------------------------
(* Properties. *)

Pcs == {"new", "look", "write", "grant", "delete", "insert", "clear", "set", "commit", "clean", "done"}

Tasks == [op : Ops \cup {None}, pc : Pcs, d : Records \cup {None},
          key : Keys \cup Devices \cup {None}, set : SUBSET (Warehouses \cup Devices),
          del : SUBSET (Warehouses \cup Accounts), since : SUBSET (Records \cup Warehouses)]

RegistryTypeOK ==
    /\ row \in [Records -> RowTypes]
    /\ manager \in [Warehouses -> Accounts \cup {None}]
    /\ open \subseteq Warehouses /\ used \subseteq Warehouses
    /\ access \subseteq Accounts \X Warehouses
    /\ device \in [Accounts -> Devices \cup {None}]
    /\ latest \in [Devices -> Accounts \cup {None}]
    /\ blind \subseteq Records
    /\ twins \subseteq SUBSET Records
    /\ req \in [Procs -> Tasks]

\* What a request works on is what its operation takes.
TaskOk(q) ==
    LET r == req[q] IN
    /\ r.op \in {"create", "update", "remove", "restore"} =>
          r.d \in Records /\ r.key \in Keys \cup {None} /\ r.since \subseteq Records
    /\ r.op \in {"restore", "replace", "register"} => r.d \in Accounts
    /\ r.op = "appoint" => /\ r.d \in Accounts \cup {None}
                           /\ r.set \subseteq Warehouses /\ r.del \subseteq r.set
                           /\ r.pc = "grant" => r.d # None
                           /\ r.pc = "grant" \/ r.d = None => r.del = {}
    /\ r.op = "replace" => r.set \subseteq Warehouses /\ r.del \subseteq Warehouses
    /\ r.op = "register" => r.key \in Devices \cup {None} /\ r.del \subseteq Accounts

\* No two transactions hold one row, and foreign keys and unique indexes hold.
Apart(q, o) ==
    /\ (HeldBy(q) \cup NewBy(q)) \cap (HeldBy(o) \cup NewBy(o)) = {}
    /\ req[q].op = "register" /\ req[o].op = "register" => req[q].del \cap req[o].del = {}
    /\ req[q].op = "appoint" /\ req[o].op = "appoint" => req[q].set \cap req[o].set = {}
RowsApart == \A q, o \in Procs : q # o => Apart(q, o)
Referenced ==
    /\ access \subseteq Accounts \X open
    /\ \A w \in Warehouses : manager[w] # None => w \in open
    /\ used \subseteq open
IndexHolds ==
    /\ \A d \in Indexed : \A e \in Alike(d) : Stored(d) /\ Stored(e) => row[d].key # row[e].key
    /\ \A u, v \in Accounts : u # v /\ device[u] # None => device[u] # device[v]

\* Past its look-up, a creation and a client's update know of every live row with
\* their key, but for those written meanwhile.
LookedUp(q) ==
    req[q].pc = "write" /\ req[q].d \notin Indexed
    /\ req[q].op \in {"create", "update"} /\ (req[q].op = "update" => req[q].d \in Clients)
    => Holders(req[q].d, req[q].key) \subseteq req[q].since

\* A list being replaced holds what is to be deleted and what came meanwhile, and
\* the warehouses inserted are there until the commit.
ListKnown(q) ==
    /\ req[q].op = "replace" /\ req[q].pc \in {"delete", "insert", "commit"}
       => ListOf(req[q].d) \ req[q].del \subseteq req[q].since
    /\ At(q, "replace", "commit") => req[q].set \subseteq open

\* The warehouse of an appointment stays, and the manager is about to be let in, is
\* in, or was in at the upsert and has been put out since.
AppointKnown(q) ==
    req[q].op = "appoint" =>
        /\ req[q].set \subseteq open
        /\ req[q].pc = "commit" /\ req[q].d # None =>
              \A w \in req[q].set : \/ w \in req[q].del \cup req[q].since
                                    \/ <<req[q].d, w>> \in access

\* A token about to change hands is with nobody the registration has not cleared,
\* and nobody else is about to get it.
TokenMine(q) ==
    At(q, "register", "commit") =>
        OthersWith(req[q].d, req[q].key) \subseteq req[q].del /\ SameToken(q) = {}

RegistryInv ==
    /\ RegistryTypeOK /\ RowsApart /\ Referenced /\ IndexHolds
    /\ \A q \in Procs : TaskOk(q) /\ LookedUp(q) /\ ListKnown(q) /\ AppointKnown(q) /\ TokenMine(q)

\* clients.service.ts:32, users.service.ts:61: two live clients share a code, or
\* two live users an e-mail, only if one was written between the look-up and the
\* write of the other, or one was restored or edited, which look nothing up.
NoSilentTwins ==
    \A d \in Records \ Indexed : \A e \in Alike(d) :
        Live(d) /\ Live(e) /\ row[d].key = row[e].key
            => {d, e} \in twins \/ {d, e} \cap blind # {}

\* users.service.ts:504: a token is with the user who registered it last, and with
\* nobody else, whatever registrations cross and whatever cleans tokens up.
OneHolder == \A u \in Accounts : device[u] # None => latest[device[u]] = u

\* warehouse-access.service.ts:59: a replaced list holds the warehouses asked for,
\* and of the others only those other requests added while it ran: two replacements
\* of one list at once may leave what both asked for.
ListsReplaced ==
    [][\A q \in Procs :
         At(q, "replace", "commit") /\ req'[q].pc = "done" /\ access' # access
            => LET list == {w \in Warehouses : <<req[q].d, w>> \in access'} IN
               req[q].set \subseteq list /\ list \subseteq req[q].set \cup req[q].since]_registryVars

\* The manager of w is let into w, was left out before, is left out now by a list
\* that replaces the manager's, or was by one that replaced it between the upsert
\* of the appointment and its commit.
ManagerIn(w) ==
    LET m == manager'[w] IN
    m # None /\ <<m, w>> \notin access' =>
       \/ manager[w] = m /\ <<m, w>> \notin access
       \/ \E q \in Procs :
             /\ req'[q].pc = "done" /\ req[q].d = m
             /\ \/ At(q, "replace", "commit") /\ w \notin req[q].set
                \/ At(q, "appoint", "commit") /\ w \in req[q].since

\* warehouse-access.service.ts:90, "and ensure they have access": a manager lacks
\* access to the warehouse only once a list without it replaced the manager's, after
\* the appointment or while it ran.
ManagerKeepsAccess == [][\A w \in Warehouses : ManagerIn(w)]_registryVars

\* Phones swapped between two users deadlock over the users' rows, and still
\* every request ends.
RequestsEnd == \A q \in Procs : req[q].pc # "new" ~> req[q].pc = "done"
=============================================================================
