--------------------------- MODULE PaymentPromise ---------------------------
(***************************************************************************)
(* What a caller of pay() may rely on, whatever fails: every submission    *)
(* made for it is executed at most once by the ledger, a call that reports *)
(* success asked for an operation that was executed, and a call that       *)
(* reports failure leaves open whether it was, or still will be.  With a   *)
(* single submission per call this is an at-most-once payment.             *)
(***************************************************************************)
EXTENDS Naturals

CONSTANTS
    Pays,         \* calls of pay()
    OpOf,         \* the operation each call asks for
    Submissions   \* pairs of a call and a number

VARIABLES
    outcome,    \* what each call has told its caller
    submitted,  \* the submissions made
    executions  \* how often the ledger has executed each submission

promiseVars == <<outcome, submitted, executions>>

PromiseInit ==
    /\ outcome = [p \in Pays |-> "none"]
    /\ submitted = {}
    /\ executions = [s \in Submissions |-> 0]

Ask(p) ==
    /\ outcome[p] = "none"
    /\ \E o \in {"pending", "failed"} : outcome' = [outcome EXCEPT ![p] = o]
    /\ UNCHANGED <<submitted, executions>>

(* Only a call that has not answered yet submits.                           *)
Submit(s) ==
    /\ outcome[s[1]] = "pending"
    /\ s \notin submitted
    /\ submitted' = submitted \cup {s}
    /\ UNCHANGED <<outcome, executions>>

ExecuteOnce(s) ==
    /\ s \in submitted
    /\ executions[s] = 0
    /\ executions' = [executions EXCEPT ![s] = 1]
    /\ UNCHANGED <<outcome, submitted>>

ReportPaid(p) ==
    /\ outcome[p] = "pending"
    /\ \E s \in submitted : executions[s] = 1 /\ OpOf[s[1]] = OpOf[p]
    /\ outcome' = [outcome EXCEPT ![p] = "paid"]
    /\ UNCHANGED <<submitted, executions>>

ReportFailed(p) ==
    /\ outcome[p] = "pending"
    /\ outcome' = [outcome EXCEPT ![p] = "failed"]
    /\ UNCHANGED <<submitted, executions>>

PromiseNext ==
    \/ \E p \in Pays : Ask(p) \/ ReportPaid(p) \/ ReportFailed(p)
    \/ \E s \in Submissions : Submit(s) \/ ExecuteOnce(s)

PromiseSpec == PromiseInit /\ [][PromiseNext]_promiseVars
=============================================================================
