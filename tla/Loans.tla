------------------------------- MODULE Loans -------------------------------
(***************************************************************************)
(* Loans between warehouses (LoansService).  A loan moves no stock: it is  *)
(* a status, the codes handed out and who confirmed what.  Each handler    *)
(* first looks the loan up without a lock, and then locks it, reads its    *)
(* status again and writes, which no other handler can come between.       *)
(* Creation looks at the other loans first and inserts in a transaction of *)
(* its own.                                                                *)
(***************************************************************************)
EXTENDS Naturals, FiniteSets, Requests

CONSTANTS
    Loans,
    ItemsOf   \* the inventory items of each loan's payload

Statuses == {"none", "PENDING", "SENT", "RECEIVED", "RETURN_PENDING",
             "OVERDUE", "RETURNED", "CANCELLED", "removed"}

Ops == {"send", "confirmReceipt", "manualConfirmReceipt", "initiateReturn",
        "confirmReturn", "manualConfirmReturn", "returnLoan", "cancel"}

ASSUME LoanAssumption == None \notin Loans \cup Procs \cup Ops \cup {"create"}

VARIABLES
    loanStatus,
    late,                  \* the due date has passed
    sendCode, returnCode,  \* the request that made the code, or none
    receivedBy, returnedBy,  \* the request that confirmed, or none
    loanJob                \* each request's operation, loan and look-up

trail == <<sendCode, returnCode, receivedBy, returnedBy>>
loanVars == <<loanStatus, late, trail, loanJob>>

NoLoanJob == [op |-> None, loan |-> None, seen |-> None]

OnLoan == {"PENDING", "SENT", "RECEIVED", "RETURN_PENDING", "OVERDUE"}

LoanTypeOK ==
    /\ loanStatus \in [Loans -> Statuses]
    /\ late \in [Loans -> BOOLEAN]
    /\ \A f \in {sendCode, returnCode, receivedBy, returnedBy} :
          f \in [Loans -> Procs \cup {None}]
    /\ loanJob \in [Procs -> [op : Ops \cup {"create"}, loan : Loans, seen : Statuses]
                         \cup {NoLoanJob}]

LoansInit ==
    /\ loanStatus = [l \in Loans |-> "none"]
    /\ late = [l \in Loans |-> FALSE]
    /\ sendCode = [l \in Loans |-> None]
    /\ returnCode = [l \in Loans |-> None]
    /\ receivedBy = [l \in Loans |-> None]
    /\ returnedBy = [l \in Loans |-> None]
    /\ loanJob = [p \in Procs |-> NoLoanJob]

Idle(p) == loanJob[p] = NoLoanJob

Asked(p, op, l) ==
    loanJob' = [loanJob EXCEPT ![p] = [op |-> op, loan |-> l, seen |-> loanStatus[l]]]

Answered(p) == loanJob' = [loanJob EXCEPT ![p] = NoLoanJob]

-----------------------------------------------------------------------------
(* Creation.                                                               *)

\* Looks for active loans of the items, outside the transaction.
CheckItems(p, l) ==
    /\ Idle(p) /\ loanStatus[l] = "none" /\ \A q \in Procs : loanJob[q].loan # l
    /\ \A m \in Loans : loanStatus[m] \in OnLoan => ItemsOf[m] \cap ItemsOf[l] = {}
    /\ Asked(p, "create", l)
    /\ UNCHANGED <<loanStatus, late, trail>>

CreateLoan(p) ==
    /\ loanJob[p].op = "create"
    /\ loanStatus' = [loanStatus EXCEPT ![loanJob[p].loan] = "PENDING"]
    /\ Answered(p)
    /\ UNCHANGED <<late, trail>>

-----------------------------------------------------------------------------
(* The handlers of a stored loan.                                          *)

\* The look-up.  A scanned code finds its loan only once it has been made.
LookUp(p, op, l) ==
    /\ Idle(p) /\ loanStatus[l] \notin {"none", "removed"}
    /\ op = "confirmReceipt" => sendCode[l] # None
    /\ op = "confirmReturn" => returnCode[l] # None
    /\ Asked(p, op, l)
    /\ UNCHANGED <<loanStatus, late, trail>>

\* A handler that trusts the status of its look-up.
SeenBefore(p) == loanJob[p].seen

\* The status read again under the lock.
Current(p) == loanStatus[loanJob[p].loan]

Received(p) == receivedBy[loanJob[p].loan] # None

\* The statuses each handler goes on from.
Expects(op) ==
    CASE op = "send" -> {"PENDING"}
      [] op = "confirmReceipt" -> {"SENT"}
      [] op = "manualConfirmReceipt" -> {"SENT", "OVERDUE"}
      [] op = "initiateReturn" -> {"RECEIVED", "OVERDUE"}
      [] op = "confirmReturn" -> {"RETURN_PENDING"}
      [] op = "manualConfirmReturn" -> {"RETURN_PENDING", "OVERDUE"}
      [] op = "returnLoan" -> {"RECEIVED", "OVERDUE", "RETURN_PENDING"}
      [] op = "cancel" -> OnLoan

\* No guards on a loan that fell overdue.
OverdueAnyway(p) == TRUE

\* An overdue loan is received by hand once, and returned by hand after that.
OverdueOk(p) ==
    Current(p) = "OVERDUE" =>
        /\ loanJob[p].op = "manualConfirmReceipt" => ~Received(p)
        /\ loanJob[p].op = "manualConfirmReturn" => Received(p)

\* A row deleted since the look-up has no status, or nothing to update.
Goes(p) ==
    /\ loanStatus[loanJob[p].loan] # "removed"
    /\ Current(p) \in Expects(loanJob[p].op) /\ OverdueOk(p)

Write(p, ops, new) ==
    /\ loanJob[p].op \in ops /\ Goes(p)
    /\ loanStatus' = [loanStatus EXCEPT ![loanJob[p].loan] = new]
    /\ Answered(p)
    /\ UNCHANGED late

Sign(f, p) == [f EXCEPT ![loanJob[p].loan] = p]

SendLoan(p) ==
    /\ Write(p, {"send"}, "SENT")
    /\ sendCode' = Sign(sendCode, p)
    /\ UNCHANGED <<returnCode, receivedBy, returnedBy>>

ConfirmReceipt(p) ==
    /\ Write(p, {"confirmReceipt", "manualConfirmReceipt"}, "RECEIVED")
    /\ receivedBy' = Sign(receivedBy, p)
    /\ UNCHANGED <<sendCode, returnCode, returnedBy>>

InitiateReturn(p) ==
    /\ Write(p, {"initiateReturn"}, "RETURN_PENDING")
    /\ returnCode' = Sign(returnCode, p)
    /\ UNCHANGED <<sendCode, receivedBy, returnedBy>>

ConfirmReturn(p) ==
    /\ Write(p, {"confirmReturn", "manualConfirmReturn"}, "RETURNED")
    /\ returnedBy' = Sign(returnedBy, p)
    /\ UNCHANGED <<sendCode, returnCode, receivedBy>>

\* The legacy return records nobody's confirmation.
ReturnLoan(p) == Write(p, {"returnLoan"}, "RETURNED") /\ UNCHANGED trail

CancelLoan(p) == Write(p, {"cancel"}, "CANCELLED") /\ UNCHANGED trail

RefuseLoan(p) ==
    /\ loanJob[p].op \in Ops /\ ~Goes(p)
    /\ Answered(p)
    /\ UNCHANGED <<loanStatus, late, trail>>

-----------------------------------------------------------------------------
(* Single statements on loans.                                             *)

\* The hard delete, allowed in every status.
Remove(l) ==
    /\ loanStatus[l] \notin {"none", "removed"}
    /\ loanStatus' = [loanStatus EXCEPT ![l] = "removed"]
    /\ UNCHANGED <<late, trail, loanJob>>

Overdue == {l \in Loans : late[l] /\ loanStatus[l] \in {"SENT", "RECEIVED"}}

CheckOverdueLoans ==
    /\ Overdue # {}
    /\ loanStatus' = [l \in Loans |-> IF l \in Overdue THEN "OVERDUE" ELSE loanStatus[l]]
    /\ UNCHANGED <<late, trail, loanJob>>

\* The due date, in the future when the loan is made, passes.
PassDueDate(l) ==
    /\ ~late[l] /\ loanStatus[l] # "none"
    /\ late' = [late EXCEPT ![l] = TRUE]
    /\ UNCHANGED <<loanStatus, trail, loanJob>>

LoansNext ==
    \/ \E p \in Procs :
          \/ \E l \in Loans : CheckItems(p, l)
          \/ \E op \in Ops, l \in Loans : LookUp(p, op, l)
          \/ CreateLoan(p) \/ SendLoan(p) \/ ConfirmReceipt(p) \/ InitiateReturn(p)
          \/ ConfirmReturn(p) \/ ReturnLoan(p) \/ CancelLoan(p) \/ RefuseLoan(p)
    \/ \E l \in Loans : Remove(l) \/ PassDueDate(l)
    \/ CheckOverdueLoans

LoansSpec == LoansInit /\ [][LoansNext]_loanVars

-----------------------------------------------------------------------------
(* Properties.                                                             *)

\* "Only a loan that went out can come back" (returnLoan): whatever way it was
\* returned, it had been sent, with a code.
OutBeforeBack == \A l \in Loans : loanStatus[l] = "RETURNED" => sendCode[l] # None

\* A loan's status and its paper trail tell the same story, and a request has
\* looked up a loan that exists.
TrailOk(l) ==
    /\ loanStatus[l] \in {"none", "PENDING"} => sendCode[l] = None
    /\ loanStatus[l] \in {"SENT", "RECEIVED", "OVERDUE"} => sendCode[l] # None /\ returnCode[l] = None
    /\ loanStatus[l] = "SENT" => receivedBy[l] = None
    /\ loanStatus[l] = "RECEIVED" => receivedBy[l] # None
    /\ loanStatus[l] = "RETURN_PENDING" => returnCode[l] # None
    /\ returnedBy[l] # None => loanStatus[l] \in {"RETURNED", "removed"}
    /\ sendCode[l] = None => receivedBy[l] = None /\ returnCode[l] = None

TrailInv ==
    /\ \A l \in Loans : TrailOk(l)
    /\ \A p \in Procs : loanJob[p].op \in Ops => loanStatus[loanJob[p].loan] # "none"
    /\ \A p \in Procs :
          loanJob[p].op = "create" =>
              /\ loanStatus[loanJob[p].loan] = "none"
              /\ \A q \in Procs \ {p} : loanJob[q].loan # loanJob[p].loan

\* The inductive invariant, with what the properties below rest on.
LoansInv == LoanTypeOK /\ TrailInv /\ OutBeforeBack

Kept(f, g) == \A l \in Loans : f[l] # None => g[l] = f[l]

\* A code handed out stays the valid one, and a confirmation keeps the name of
\* who gave it, however many clicks and scans of the same loan arrive together.
WrittenOnce ==
    [][/\ Kept(sendCode, sendCode') /\ Kept(returnCode, returnCode')
       /\ Kept(receivedBy, receivedBy') /\ Kept(returnedBy, returnedBy')]_loanVars

\* A loan that came back or was called off stays so: no send, scan, overdue
\* check or second return that looked it up before brings it out again.
ClosedStaysClosed ==
    [][\A l \in Loans :
          loanStatus[l] \in {"RETURNED", "CANCELLED", "removed"} =>
              loanStatus'[l] \in {loanStatus[l], "removed"}]_loanVars
=============================================================================
