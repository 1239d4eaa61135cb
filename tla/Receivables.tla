---------------------------- MODULE Receivables ----------------------------
(***************************************************************************)
(* What customers owe and what is owed to suppliers: sales on credit under *)
(* a client's limit (SalesService.enforceCreditLimit), the payments of     *)
(* sales and purchase invoices (PaymentsService) and the cancellation of   *)
(* both kinds of document, as concurrent READ COMMITTED transactions.  No  *)
(* balance is stored: it is the amount less the active payments.           *)
(*                                                                         *)
(* A client here is the one the credit check applies to, None for a cash   *)
(* sale or a walk-in customer.  Amounts are whole cents in the currency of *)
(* the limit (a credit sale in another one is refused while it is set).    *)
(***************************************************************************)
EXTENDS Integers, FiniteSets, FiniteSetsExt, Functions, Requests

CONSTANTS
    Sales, Purchases,
    Clients,
    Amounts,   \* what a document or a payment may amount to
    Limits,    \* the limits a client may be given; None stands for no limit
    Payments

Docs == Sales \cup Purchases

ASSUME ReceivablesAssumption ==
    /\ Sales \cap Purchases = {}
    /\ Amounts \subseteq Nat \ {0}
    /\ Limits \subseteq Nat \cup {None}
    /\ None \notin Docs \cup Clients \cup Procs \cup Payments
    /\ IsFiniteSet(Sales) /\ IsFiniteSet(Payments)

VARIABLES
    status, amount, client,  \* the documents
    pay,        \* each payment's document, amount and status
    limit,      \* each client's creditLimit
    docLock, clientLock,  \* who holds the row (SELECT ... FOR UPDATE)
    pc, job,    \* where each request is, and what it works on
    open, room  \* the credit sales it read, and what they leave under the limit

rows == <<status, amount, client, pay, limit>>
request == <<pc, job, open, room>>
vars == <<rows, docLock, clientLock, request>>

NoPay == [doc |-> None, amount |-> 0, status |-> "none"]
NoJob == [doc |-> None, amount |-> 0, client |-> None, pay |-> None]
SaleJob(d, n, c) == [doc |-> d, amount |-> n, client |-> c, pay |-> None]
PayJob(d, n, y) == [doc |-> d, amount |-> n, client |-> None, pay |-> y]

TypeOK ==
    /\ status \in [Docs -> {"none", "DRAFT", "ACTIVE", "CANCELLED"}]
    /\ amount \in [Docs -> Amounts \cup {0}]
    /\ client \in [Docs -> Clients \cup {None}]
    /\ pay \in [Payments -> [doc : Docs \cup {None}, amount : Amounts \cup {0},
                             status : {"none", "ACTIVE", "CANCELLED"}]]
    /\ limit \in [Clients -> Limits \cup {None}]
    /\ docLock \in [Docs -> Procs \cup {None}]
    /\ clientLock \in [Clients -> Procs \cup {None}]
    /\ pc \in [Procs -> {"idle", "client", "open", "paid", "post",
                         "pay", "cancel", "unpay"}]
    /\ job \in [Procs -> [doc : Docs \cup {None}, amount : Amounts \cup {0},
                          client : Clients \cup {None}, pay : Payments \cup {None}]]
    /\ open \in [Procs -> SUBSET Sales]
    /\ room \in [Procs -> Int]

Init ==
    /\ status = [d \in Docs |-> "none"]
    /\ amount = [d \in Docs |-> 0]
    /\ client = [d \in Docs |-> None]
    /\ pay = [y \in Payments |-> NoPay]
    /\ limit = [c \in Clients |-> None]
    /\ docLock = [d \in Docs |-> None]
    /\ clientLock = [c \in Clients |-> None]
    /\ pc = [p \in Procs |-> "idle"]
    /\ job = [p \in Procs |-> NoJob]
    /\ open = [p \in Procs |-> {}]
    /\ room = [p \in Procs |-> 0]

-----------------------------------------------------------------------------

Total(S) == SumFunctionOnSet(amount, S)

\* What the payments in P that settle a document of S amount to.
Settled(S, P) ==
    SumFunctionOnSet([y \in Payments |-> pay[y].amount], {y \in P : pay[y].doc \in S})

ActivePays == {y \in Payments : pay[y].status = "ACTIVE"}
MadePays == {y \in Payments : pay[y].status # "none"}

Balance(d) == amount[d] - Settled({d}, ActivePays)

Fresh(d) == status[d] = "none" /\ \A q \in Procs : job[q].doc # d

Begin(p, j, label) ==
    /\ pc[p] = "idle"
    /\ job' = [job EXCEPT ![p] = j]
    /\ pc' = [pc EXCEPT ![p] = label]

Goto(p, label) == pc' = [pc EXCEPT ![p] = label]

LockDoc(p, d) == docLock[d] = None /\ docLock' = [docLock EXCEPT ![d] = p]

End(p) ==
    /\ Goto(p, "idle")
    /\ job' = [job EXCEPT ![p] = NoJob]
    /\ open' = [open EXCEPT ![p] = {}]
    /\ room' = [room EXCEPT ![p] = 0]
    /\ docLock' = [d \in Docs |-> IF docLock[d] = p THEN None ELSE docLock[d]]
    /\ clientLock' = [c \in Clients |-> IF clientLock[c] = p THEN None ELSE clientLock[c]]

Rollback(p) == End(p) /\ UNCHANGED rows

Refuse(p) == pc[p] # "idle" /\ Rollback(p)

-----------------------------------------------------------------------------
(* Putting a sale in force, under the client's credit limit.               *)

Quote(d, n, c) ==
    /\ d \in Sales /\ Fresh(d)
    /\ status' = [status EXCEPT ![d] = "DRAFT"]
    /\ amount' = [amount EXCEPT ![d] = n]
    /\ client' = [client EXCEPT ![d] = c]
    /\ UNCHANGED <<pay, limit, docLock, clientLock, request>>

\* An edit locks the quotation, so it finds it as it leaves it.
Edit(d, n, c) ==
    /\ status[d] = "DRAFT" /\ docLock[d] = None
    /\ amount' = [amount EXCEPT ![d] = n]
    /\ client' = [client EXCEPT ![d] = c]
    /\ UNCHANGED <<status, pay, limit, docLock, clientLock, request>>

\* A sale without credit goes straight to its posting.
FirstStep(c) == IF c = None THEN "post" ELSE "client"

Sell(p, d, n, c) ==
    /\ d \in Sales /\ Fresh(d)
    /\ Begin(p, SaleJob(d, n, c), FirstStep(c))
    /\ UNCHANGED <<rows, docLock, clientLock, open, room>>

Confirm(p, d) ==
    /\ status[d] = "DRAFT" /\ LockDoc(p, d)
    /\ Begin(p, SaleJob(d, amount[d], client[d]), FirstStep(client[d]))
    /\ UNCHANGED <<rows, clientLock, open, room>>

Unlimited(c) == limit[c] = None

\* The client's row read without FOR UPDATE.
ReadClient(p) ==
    LET c == job[p].client IN
    /\ pc[p] = "client"
    /\ room' = [room EXCEPT ![p] = IF Unlimited(c) THEN 0 ELSE limit[c]]
    /\ Goto(p, IF Unlimited(c) THEN "post" ELSE "open")
    /\ UNCHANGED <<rows, docLock, clientLock, job, open>>

LockClient(p) ==
    LET c == job[p].client IN
    /\ pc[p] = "client" /\ clientLock[c] = None
    /\ clientLock' = [clientLock EXCEPT ![c] = p]
    /\ room' = [room EXCEPT ![p] = IF Unlimited(c) THEN 0 ELSE limit[c]]
    /\ Goto(p, IF Unlimited(c) THEN "post" ELSE "open")
    /\ UNCHANGED <<rows, docLock, job, open>>

\* The client's other open sales are read in one statement ...
ReadOpen(p) ==
    LET S == {s \in Sales \ {job[p].doc} : status[s] = "ACTIVE" /\ client[s] = job[p].client}
    IN
    /\ pc[p] = "open"
    /\ open' = [open EXCEPT ![p] = S]
    /\ room' = [room EXCEPT ![p] = @ - Total(S)]
    /\ Goto(p, "paid")
    /\ UNCHANGED <<rows, docLock, clientLock, job>>

\* ... and their payments in the next; over the limit, the sale is refused.
ReadPaid(p) ==
    /\ pc[p] = "paid"
    /\ job[p].amount <= room[p] + Settled(open[p], ActivePays)
    /\ Goto(p, "post")
    /\ UNCHANGED <<rows, docLock, clientLock, job, open, room>>

\* The rest of the transaction (stock, number, insert or update) and its commit.
Post(p) ==
    LET d == job[p].doc IN
    /\ pc[p] = "post"
    /\ status' = [status EXCEPT ![d] = "ACTIVE"]
    /\ amount' = [amount EXCEPT ![d] = job[p].amount]
    /\ client' = [client EXCEPT ![d] = job[p].client]
    /\ UNCHANGED <<pay, limit>>
    /\ End(p)

\* A purchase invoice is in force as soon as it is recorded.
Purchase(d, n) ==
    /\ d \in Purchases /\ status[d] = "none"
    /\ status' = [status EXCEPT ![d] = "ACTIVE"]
    /\ amount' = [amount EXCEPT ![d] = n]
    /\ UNCHANGED <<client, pay, limit, docLock, clientLock, request>>

\* The client's row is locked by its update too, but any limit may be set.
SetLimit(c, n) ==
    /\ clientLock[c] = None /\ limit[c] # n
    /\ limit' = [limit EXCEPT ![c] = n]
    /\ UNCHANGED <<status, amount, client, pay, docLock, clientLock, request>>

-----------------------------------------------------------------------------
(* Payments and cancellations.                                             *)

\* The balance computed without locking the document.
BeginPayUnlocked(p, d, y, n) ==
    /\ status[d] = "ACTIVE"
    /\ pay[y] = NoPay /\ \A q \in Procs : job[q].pay # y
    /\ n <= Balance(d)
    /\ Begin(p, PayJob(d, n, y), "pay")
    /\ UNCHANGED <<rows, docLock, clientLock, open, room>>

\* lockAndComputeBalance, and the refusal of more than the balance.
BeginPay(p, d, y, n) ==
    /\ status[d] = "ACTIVE" /\ LockDoc(p, d)
    /\ pay[y] = NoPay /\ \A q \in Procs : job[q].pay # y
    /\ n <= Balance(d)
    /\ Begin(p, PayJob(d, n, y), "pay")
    /\ UNCHANGED <<rows, clientLock, open, room>>

Pay(p) ==
    /\ pc[p] = "pay"
    /\ pay' = [pay EXCEPT ![job[p].pay] =
                  [doc |-> job[p].doc, amount |-> job[p].amount, status |-> "ACTIVE"]]
    /\ UNCHANGED <<status, amount, client, limit>>
    /\ End(p)

\* A payment is cancelled without a lock: read as ACTIVE, then written.
BeginCancelPayment(p, y) ==
    /\ pay[y].status = "ACTIVE"
    /\ Begin(p, [NoJob EXCEPT !.pay = y], "unpay")
    /\ UNCHANGED <<rows, docLock, clientLock, open, room>>

CancelPayment(p) ==
    /\ pc[p] = "unpay"
    /\ pay' = [pay EXCEPT ![job[p].pay].status = "CANCELLED"]
    /\ UNCHANGED <<status, amount, client, limit>>
    /\ End(p)

\* A quotation, or a document in force with no money on it.
Cancellable(d) ==
    \/ status[d] = "DRAFT"
    \/ status[d] = "ACTIVE" /\ Settled({d}, ActivePays) = 0

\* The document is locked before its payments are counted.
BeginCancel(p, d) ==
    /\ Cancellable(d)
    /\ LockDoc(p, d)
    /\ Begin(p, [NoJob EXCEPT !.doc = d], "cancel")
    /\ UNCHANGED <<rows, clientLock, open, room>>

\* The stock is restored and the cancellation commits.
Cancel(p) ==
    /\ pc[p] = "cancel"
    /\ status' = [status EXCEPT ![job[p].doc] = "CANCELLED"]
    /\ UNCHANGED <<amount, client, pay, limit>>
    /\ End(p)

Next ==
    \/ \E d \in Docs, n \in Amounts :
          \/ \E c \in Clients \cup {None} :
                \/ Quote(d, n, c) \/ Edit(d, n, c)
                \/ \E p \in Procs : Sell(p, d, n, c)
          \/ \E p \in Procs, y \in Payments : BeginPay(p, d, y, n)
          \/ Purchase(d, n)
    \/ \E c \in Clients, n \in Limits : SetLimit(c, n)
    \/ \E p \in Procs :
          \/ \E d \in Docs : Confirm(p, d) \/ BeginCancel(p, d)
          \/ \E y \in Payments : BeginCancelPayment(p, y)
          \/ LockClient(p) \/ ReadOpen(p) \/ ReadPaid(p) \/ Post(p)
          \/ Pay(p) \/ CancelPayment(p) \/ Cancel(p) \/ Refuse(p)

Spec == Init /\ [][Next]_vars

-----------------------------------------------------------------------------
(* Properties.                                                             *)

\* A sale being put in force is this request's alone.
SaleOk(p) ==
    LET d == job[p].doc IN
    /\ d \in Sales
    /\ \/ /\ status[d] = "DRAFT" /\ docLock[d] = p
          /\ amount[d] = job[p].amount /\ client[d] = job[p].client
       \/ status[d] = "none" /\ \A q \in Procs \ {p} : job[q].doc # d

\* What each request has read still holds when it writes, by the locks it has.
RequestOk(p) ==
    LET d == job[p].doc
        c == job[p].client
        y == job[p].pay
    IN
    /\ pc[p] = "idle" => job[p] = NoJob
    /\ pc[p] \in {"client", "open", "paid", "post"} => SaleOk(p)
    /\ pc[p] \in {"client", "open", "paid"} => c # None
    /\ pc[p] \in {"open", "paid"} => limit[c] # None
    /\ pc[p] \in {"open", "paid", "post"} /\ c # None => clientLock[c] = p
    /\ pc[p] = "pay" =>
          /\ d \in Docs /\ docLock[d] = p /\ status[d] = "ACTIVE" /\ job[p].amount <= Balance(d)
          /\ job[p].amount # 0 /\ y \in Payments /\ pay[y] = NoPay
          /\ \A q \in Procs \ {p} : job[q].pay # y
    /\ pc[p] = "cancel" => d \in Docs /\ docLock[d] = p /\ Cancellable(d)
    /\ pc[p] = "unpay" => d = None /\ y \in Payments /\ pay[y].status # "none"

\* The sales a client has in force.
InForce(c) == {s \in Sales : status[s] = "ACTIVE" /\ client[s] = c}

\* What a sale would leave open if no payment were reversed.
Unpaid(d) == Max({0, amount[d] - Settled({d}, MadePays)})

\* What a client's credit sales would leave open if no payment were reversed.
Uncollected(c) == SumFunctionOnSet([d \in Sales |-> Unpaid(d)], InForce(c))

\* The credit check adds up: the sales it read are those in force or called off
\* since, and a sale that passed still fits beside them.
CreditOk(p) ==
    LET c == job[p].client IN
    /\ pc[p] = "open" => room[p] = limit[c]
    /\ pc[p] = "paid" =>
          /\ InForce(c) \subseteq open[p]
          /\ \A s \in open[p] : status[s] \in {"ACTIVE", "CANCELLED"}
          /\ room[p] = limit[c] - Total(open[p])
    /\ pc[p] = "post" /\ c # None =>
          (limit[c] # None => job[p].amount + Uncollected(c) <= limit[c])

RequestInv == \A p \in Procs : RequestOk(p) /\ CreditOk(p)

PayOk(y) ==
    IF pay[y].status = "none" THEN pay[y] = NoPay
    ELSE pay[y].doc \in Docs /\ pay[y].amount # 0

QuotesAreSales == \A d \in Docs : status[d] = "DRAFT" => d \in Sales

\* Money received or paid is always on a document in force: a cancellation and
\* a payment of the same document cannot both go through (SalesService.cancel).
MoneyOnlyInForce == \A y \in ActivePays : status[pay[y].doc] = "ACTIVE"

\* Nobody pays more than is owed, with several payments of a document at once
\* and a quotation edited before it was confirmed (PaymentsService.create).
NeverOverpaid == \A d \in Docs : Balance(d) >= 0

\* SalesService.cancel, enforceCreditLimit, PaymentsService.create: what a
\* request has read still holds when it writes, and what is owed and paid adds up.
IInv ==
    /\ TypeOK /\ RequestInv /\ QuotesAreSales /\ (\A y \in Payments : PayOk(y))
    /\ MoneyOnlyInForce /\ NeverOverpaid

\* A sale never takes its client over the limit in force when it is posted,
\* even beside another sale of the client.  (A payment reversed after the check
\* reopens a debt: it counts as collected here.)
LimitHolds ==
    [][\A d \in Sales, c \in Clients :
          /\ status[d] # "ACTIVE" /\ status'[d] = "ACTIVE"
          /\ client'[d] = c /\ limit[c] # None
          => Uncollected(c)' <= limit[c]]_vars
=============================================================================
