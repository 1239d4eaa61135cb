----------------------------- MODULE Numbering -----------------------------
(***************************************************************************)
(* The numbers of documents.  A sale takes the next number of the active   *)
(* CAI range (SaleNumberingService), or of its own sequence when there is  *)
(* none; every other document takes the next of its sequence, a counter in *)
(* the one row of fiscal_config.  All of it runs inside the transaction    *)
(* that saves the document.  Meanwhile the ranges are edited, two or three *)
(* statements an edit, with no transaction (CaiRangesService).             *)
(*                                                                         *)
(* The row of fiscal_config exists; a request's own increment shows when   *)
(* it commits.                                                             *)
(***************************************************************************)
EXTENDS Integers, FiniteSets, Requests

CONSTANTS
    Docs,
    KindOf,   \* the sequence of each document; "sale" may use a range
    Ranges,   \* rows of cai_ranges
    Series,   \* the codes a range's numbers begin with
    Creates,  \* ranges that may be recorded
    Edits     \* fields that may be sent to update one, None where absent

Kinds == {"sale", "purchase", "loan", "transfer", "outflow", "quote"}

Row == [at : {"none", "stored", "removed"}, start : Nat, end : Nat, next : Nat,
        active : BOOLEAN, expired : BOOLEAN]

NoRow == [at |-> "none", start |-> 0, end |-> 0, next |-> 0,
          active |-> FALSE, expired |-> FALSE]

\* A number is the name of its sequence or the codes of its range, and its place.
Numbers == (Kinds \cup {Series[r] : r \in Ranges}) \X Nat

ASSUME NumberingAssumption ==
    /\ KindOf \in [Docs -> Kinds]
    /\ \A r \in Ranges : Series[r] \notin Kinds
    /\ Creates \subseteq [start : Nat, end : Nat, active : BOOLEAN, expired : BOOLEAN]
    /\ Edits \subseteq [start : Nat \cup {None}, end : Nat \cup {None},
                        active : BOOLEAN \cup {None}, expired : BOOLEAN \cup {None}]
    /\ None \notin Docs \cup Ranges \cup Procs \cup Nat \cup BOOLEAN \cup {"stored"}
    /\ None \notin Numbers

VARIABLES
    range,    \* the committed rows of cai_ranges
    counter,  \* the next number of each sequence
    number,   \* each document's number, None until it is saved
    rangeLock, configLock,  \* who holds the row (FOR UPDATE)
    pc, doc,  \* where each request is, and the document it saves
    cand,     \* the active ranges its scan has still to lock
    got,      \* the first one it locked
    taken,    \* the number it took
    edited, change  \* the range it edits, and the fields it will write

ranges == <<rangeLock, cand, got>>
edit == <<edited, change>>
vars == <<range, counter, number, configLock, pc, doc, taken, ranges, edit>>

Init ==
    /\ range = [r \in Ranges |-> NoRow]
    /\ counter = [k \in Kinds |-> 1]
    /\ number = [d \in Docs |-> None]
    /\ rangeLock = [r \in Ranges |-> None]
    /\ configLock = None
    /\ pc = [p \in Procs |-> "idle"]
    /\ doc = [p \in Procs |-> None]
    /\ cand = [p \in Procs |-> {}]
    /\ got = [p \in Procs |-> None]
    /\ taken = [p \in Procs |-> None]
    /\ edited = [p \in Procs |-> None]
    /\ change = [p \in Procs |-> NoRow]

Goto(p, label) == pc' = [pc EXCEPT ![p] = label]

End(p) ==
    /\ Goto(p, "idle")
    /\ doc' = [doc EXCEPT ![p] = None]
    /\ cand' = [cand EXCEPT ![p] = {}]
    /\ got' = [got EXCEPT ![p] = None]
    /\ taken' = [taken EXCEPT ![p] = None]
    /\ edited' = [edited EXCEPT ![p] = None]
    /\ change' = [change EXCEPT ![p] = NoRow]
    /\ rangeLock' = [r \in Ranges |-> IF rangeLock[r] = p THEN None ELSE rangeLock[r]]
    /\ configLock' = IF configLock = p THEN None ELSE configLock

Rollback(p) == End(p) /\ UNCHANGED <<range, counter, number>>

-----------------------------------------------------------------------------
(* A document is numbered and saved.                                       *)

Start(p, d) ==
    /\ pc[p] = "idle" /\ number[d] = None /\ \A q \in Procs : doc[q] # d
    /\ doc' = [doc EXCEPT ![p] = d]
    /\ Goto(p, IF KindOf[d] = "sale" THEN "scan" ELSE "config")
    /\ UNCHANGED <<range, counter, number, configLock, taken, ranges, edit>>

Active == {r \in Ranges : range[r].active}

\* SELECT ... WHERE "isActive" FOR UPDATE: the rows active when it starts ...
Scan(p) ==
    /\ pc[p] = "scan"
    /\ cand' = [cand EXCEPT ![p] = Active]
    /\ Goto(p, "rows")
    /\ UNCHANGED <<range, counter, number, rangeLock, configLock, doc, got, taken, edit>>

\* A scan that takes the rows as they were when it started.
StillActive(r) == TRUE

\* ... are locked one by one, waiting for whoever holds them; one that is no
\* longer active by then is passed over.
Qualifies(r) == range[r].active

LockRange(p, r) ==
    /\ pc[p] = "rows" /\ r \in cand[p] /\ rangeLock[r] = None
    /\ Qualifies(r)
    /\ rangeLock' = [rangeLock EXCEPT ![r] = p]
    /\ cand' = [cand EXCEPT ![p] = @ \ {r}]
    /\ got' = [got EXCEPT ![p] = IF @ = None THEN r ELSE @]
    /\ UNCHANGED <<range, counter, number, configLock, pc, doc, taken, edit>>

SkipRange(p, r) ==
    /\ pc[p] = "rows" /\ r \in cand[p] /\ rangeLock[r] = None
    /\ ~Qualifies(r)
    /\ cand' = [cand EXCEPT ![p] = @ \ {r}]
    /\ UNCHANGED <<range, counter, number, rangeLock, configLock, pc, doc, got, taken, edit>>

Usable(r) == ~range[r].expired /\ range[r].next <= range[r].end

TakeFromRange(p) ==
    /\ pc[p] = "rows" /\ cand[p] = {} /\ got[p] # None /\ Usable(got[p])
    /\ taken' = [taken EXCEPT ![p] = <<Series[got[p]], range[got[p]].next>>]
    /\ Goto(p, "save")
    /\ UNCHANGED <<range, counter, number, configLock, doc, ranges, edit>>

\* CAI_RANGE_EXPIRED, CAI_RANGE_EXHAUSTED.
RefuseRange(p) ==
    /\ pc[p] = "rows" /\ cand[p] = {} /\ got[p] # None /\ ~Usable(got[p])
    /\ Rollback(p)

FallBack(p) ==
    /\ pc[p] = "rows" /\ cand[p] = {} /\ got[p] = None
    /\ Goto(p, "config")
    /\ UNCHANGED <<range, counter, number, configLock, doc, taken, ranges, edit>>

Sequence(p) == KindOf[doc[p]]

\* The number taken in a transaction of its own.
LockConfigOutside(p) ==
    /\ pc[p] = "config" /\ configLock = None
    /\ configLock' = p
    /\ counter' = [counter EXCEPT ![Sequence(p)] = @ + 1]
    /\ taken' = [taken EXCEPT ![p] = <<Sequence(p), counter[Sequence(p)]>>]
    /\ Goto(p, "save")
    /\ UNCHANGED <<range, number, doc, ranges, edit>>

\* The number read without waiting for the lock.
LockConfigAtOnce(p) ==
    /\ pc[p] = "config"
    /\ configLock' = p
    /\ taken' = [taken EXCEPT ![p] = <<Sequence(p), counter[Sequence(p)]>>]
    /\ Goto(p, "save")
    /\ UNCHANGED <<range, counter, number, doc, ranges, edit>>

LockConfig(p) ==
    /\ pc[p] = "config" /\ configLock = None
    /\ configLock' = p
    /\ taken' = [taken EXCEPT ![p] = <<Sequence(p), counter[Sequence(p)]>>]
    /\ Goto(p, "save")
    /\ UNCHANGED <<range, counter, number, doc, ranges, edit>>

Used(n) == \E d \in Docs : number[d] = n

\* The document is inserted under its number, and the transaction commits.
Save(p) ==
    /\ pc[p] = "save" /\ ~Used(taken[p])
    /\ number' = [number EXCEPT ![doc[p]] = taken[p]]
    /\ range' = [r \in Ranges |->
                   IF r = got[p] THEN [range[r] EXCEPT !.next = @ + 1] ELSE range[r]]
    /\ counter' = [k \in Kinds |->
                     IF got[p] = None /\ k = Sequence(p) THEN counter[k] + 1 ELSE counter[k]]
    /\ End(p)

\* The unique index on number.
SaveRefused(p) == pc[p] = "save" /\ Used(taken[p]) /\ Rollback(p)

\* A failure of the rest of the transaction, or a crash.
Fail(p) == pc[p] # "idle" /\ Rollback(p)

-----------------------------------------------------------------------------
(* The ranges are edited: read and checked, the others deactivated, and    *)
(* then written.                                                           *)

BeginEdit(p, r, c) ==
    /\ edited' = [edited EXCEPT ![p] = r]
    /\ change' = [change EXCEPT ![p] = c]
    /\ Goto(p, IF c.active = TRUE THEN "others" ELSE "write")
    /\ UNCHANGED <<range, counter, number, configLock, doc, taken, ranges>>

CreateRange(p, r, c) ==
    /\ pc[p] = "idle" /\ range[r].at = "none" /\ \A q \in Procs : edited[q] # r
    /\ c.end > c.start
    /\ BeginEdit(p, r, [at |-> "stored", start |-> c.start, end |-> c.end,
                        next |-> c.start, active |-> c.active, expired |-> c.expired])

Given(x, y) == IF x = None THEN y ELSE x

Issued(r) == range[r].next > range[r].start

\* The first number moves only while none was issued, and takes next with it.
UpdateRange(p, r, c) ==
    LET start == Given(c.start, range[r].start)
        end == Given(c.end, range[r].end)
    IN
    /\ pc[p] = "idle" /\ range[r].at = "stored"
    /\ end > start
    /\ Issued(r) => start = range[r].start
    /\ end >= range[r].next - 1
    /\ BeginEdit(p, r, [at |-> None, start |-> c.start, end |-> c.end,
                        next |-> IF Issued(r) THEN None ELSE c.start,
                        active |-> c.active, expired |-> c.expired])

\* One updateMany, which waits for the rows that a sale holds.
DeactivateOthers(p) ==
    /\ pc[p] = "others"
    /\ \A r \in Active \ {edited[p]} : rangeLock[r] = None
    /\ range' = [r \in Ranges |-> IF r = edited[p] THEN range[r]
                                  ELSE [range[r] EXCEPT !.active = FALSE]]
    /\ Goto(p, "write")
    /\ UNCHANGED <<counter, number, configLock, doc, taken, ranges, edit>>

Written(c, r) ==
    [at |-> Given(c.at, r.at), start |-> Given(c.start, r.start),
     end |-> Given(c.end, r.end), next |-> Given(c.next, r.next),
     active |-> Given(c.active, r.active), expired |-> Given(c.expired, r.expired)]

\* A row removed since it was read is not there to update.
WriteRange(p) ==
    LET r == edited[p] IN
    /\ pc[p] = "write" /\ range[r].at # "removed" /\ rangeLock[r] = None
    /\ range' = [range EXCEPT ![r] = Written(change[p], range[r])]
    /\ UNCHANGED <<counter, number>>
    /\ End(p)

RemoveRange(r) ==
    /\ range[r].at = "stored" /\ rangeLock[r] = None
    /\ range' = [range EXCEPT ![r] = [@ EXCEPT !.at = "removed", !.active = FALSE]]
    /\ UNCHANGED <<counter, number, configLock, pc, doc, taken, ranges, edit>>

\* Time passes the end of the day the range expires on.
Expire(r) ==
    /\ range[r].at = "stored" /\ ~range[r].expired
    /\ range' = [range EXCEPT ![r].expired = TRUE]
    /\ UNCHANGED <<counter, number, configLock, pc, doc, taken, ranges, edit>>

Next ==
    \/ \E p \in Procs :
          \/ \E d \in Docs : Start(p, d)
          \/ \E r \in Ranges :
                \/ LockRange(p, r) \/ SkipRange(p, r)
                \/ \E c \in Creates : CreateRange(p, r, c)
                \/ \E c \in Edits : UpdateRange(p, r, c)
          \/ Scan(p) \/ TakeFromRange(p) \/ RefuseRange(p) \/ FallBack(p)
          \/ LockConfig(p) \/ Save(p) \/ SaveRefused(p) \/ Fail(p)
          \/ DeactivateOthers(p) \/ WriteRange(p)
    \/ \E r \in Ranges : RemoveRange(r) \/ Expire(r)

Spec == Init /\ [][Next]_vars
-----------------------------------------------------------------------------
(* Properties.                                                             *)

Labels == {"idle", "scan", "rows", "config", "save", "others", "write"}

Changes == [at : {"stored", None}, start : Nat \cup {None}, end : Nat \cup {None},
            next : Nat \cup {None}, active : BOOLEAN \cup {None},
            expired : BOOLEAN \cup {None}]

TypeOK ==
    /\ range \in [Ranges -> Row]
    /\ counter \in [Kinds -> Nat \ {0}]
    /\ number \in [Docs -> Numbers \cup {None}]
    /\ rangeLock \in [Ranges -> Procs \cup {None}]
    /\ configLock \in Procs \cup {None}
    /\ pc \in [Procs -> Labels]
    /\ doc \in [Procs -> Docs \cup {None}]
    /\ cand \in [Procs -> SUBSET Ranges]
    /\ got \in [Procs -> Ranges \cup {None}]
    /\ taken \in [Procs -> Numbers \cup {None}]
    /\ edited \in [Procs -> Ranges \cup {None}]
    /\ change \in [Procs -> Changes \cup {NoRow}]

\* The document a request saves is nobody else's, and has no number yet.
DocOk(p) ==
    IF pc[p] \in {"scan", "rows", "config", "save"}
    THEN /\ doc[p] \in Docs /\ number[doc[p]] = None
         /\ \A q \in Procs \ {p} : doc[q] # doc[p]
         /\ pc[p] \in {"scan", "rows"} \/ got[p] # None => KindOf[doc[p]] = "sale"
    ELSE doc[p] = None

\* A range a request has locked is active as long as it holds it.
RangeOk(p) ==
    /\ got[p] # None => pc[p] \in {"rows", "save"} /\ rangeLock[got[p]] = p
    /\ \A r \in Ranges : rangeLock[r] = p => range[r].active
    /\ pc[p] \in {"others", "write"} => edited[p] \in Ranges /\ change[p] \in Changes

\* The number taken is still the next one, under the lock it was read with.
TakenOk(p) ==
    IF pc[p] = "save"
    THEN IF got[p] = None
         THEN configLock = p /\ taken[p] = <<Sequence(p), counter[Sequence(p)]>>
         ELSE /\ taken[p] = <<Series[got[p]], range[got[p]].next>>
              /\ range[got[p]].next <= range[got[p]].end
    ELSE configLock # p

RequestInv == \A p \in Procs : DocOk(p) /\ RangeOk(p) /\ TakenOk(p)

Places(k) == {number[d][2] : d \in {e \in Docs : number[e] # None /\ number[e][1] = k}}

\* A sequence has no gaps: whatever fails between taking a number and saving
\* the document, the numbers used are exactly those below the counter ("the
\* number is only consumed if the document is saved").
Gapless == \A k \in Kinds : Places(k) = 1 .. (counter[k] - 1)

\* The inductive invariant: what each request has locked and taken holds until
\* it commits, and the sequences have no gaps.
IInv == TypeOK /\ RequestInv /\ Gapless

\* Two documents never race for one place of a sequence: the unique index on
\* number has nothing to refuse there.
SequencesNeverClash ==
    \A p \in Procs : pc[p] = "save" /\ got[p] = None => ~Used(taken[p])

\* A number of a range is used only while the range is active and below its end,
\* though it may be deactivated, cut short or removed while the sale is made.
IssuedInForce ==
    [][\A r \in Ranges :
          range'[r].next = range[r].next + 1 /\ number' # number
          => range[r].active /\ range[r].next <= range[r].end]_vars
=============================================================================
