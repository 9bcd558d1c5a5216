---------------------------- MODULE TxSubmission ----------------------------
(***************************************************************************)
(* How client.pay() gets a transaction onto the ledger: the retry loop     *)
(* around the submission (src/retry.ts, src/retryPolicy.ts), the queue     *)
(* that runs one submission at a time (src/priorityQueue.ts; every caller  *)
(* uses the priority "normal", so it is first come, first served), the     *)
(* idempotency store (src/idempotency.ts), the failover to a standby       *)
(* endpoint, and the submission itself, _doSubmitTx in src/client.ts:      *)
(* read the account, simulate and sign, send, poll, and, if the            *)
(* transaction is not found, send a fee bump of it and poll again.         *)
(*                                                                         *)
(* The ledger is external: it accepts a transaction of the account only    *)
(* with the next sequence number, whichever of the pending ones comes      *)
(* first.                                                                  *)
(***************************************************************************)
EXTENDS Integers, Sequences, FiniteSets

CONSTANTS
    Pays,         \* the calls of pay(), all with the same payer account
    NoPay,        \* nobody: the queue is idle
    Ops,          \* contract operations, up to equality of their XDR
    OpOf,         \* the operation each call asks for
    MaxAttempts,  \* maxRetries / retryOptions.maxAttempts
    Idempotent,   \* an IdempotencyManager is configured
    KeysExpire,   \* its entries may reach their TTL or be evicted
    Standby,      \* a WarmStandby is configured
    RpcLags,      \* the RPC node may answer from an older ledger
    MaxForeign    \* bound: transactions of the account sent by others

ASSUME PaysFinite == IsFiniteSet(Pays) /\ NoPay \notin Pays
ASSUME OpsOfPays == OpOf \in [Pays -> Ops]
ASSUME AttemptsPositive == MaxAttempts \in Nat \ {0} /\ MaxForeign \in Nat
ASSUME Switches == {Idempotent, KeysExpire, Standby, RpcLags} \subseteq BOOLEAN

VARIABLES
    pay,        \* where each call of pay() stands
    queue,      \* calls waiting in the queue, head first
    current,    \* the call whose job the queue awaits, or NoPay
    closed,     \* shutdown() has been called
    sub,        \* the executions of _doSubmitTx
    store,      \* idempotency store: which transaction each key remembers
    mempool,    \* transactions the network may still apply
    landed,     \* transactions in the ledger
    ledgerSeq,  \* sequence number of the account
    foreign     \* how many transactions others have sent (bounds the model)

clientVars == <<pay, queue, current, closed, sub, store>>
ledgerVars == <<mempool, landed, ledgerSeq, foreign>>
vars == <<pay, queue, current, closed, sub, store, mempool, landed, ledgerSeq, foreign>>

(* The k-th execution of _doSubmitTx on behalf of call p is <<p, k>>: each  *)
(* attempt makes one, and one more when it fails over.                      *)
Subs == Pays \X (1 .. 2 * MaxAttempts)
Op(s) == OpOf[s[1]]

(* A transaction, also standing for its hash: the execution that built it,  *)
(* its sequence number, and whether it is the fee bump.                     *)
Txs == [sub : Subs, seq : Nat, kind : {"inner", "bump"}]
NoTx == [sub |-> <<NoPay, 0>>, seq |-> 0, kind |-> "inner"]

PayStates == {"idle", "queued", "starting", "running", "failover", "hit",
              "backoff", "resolved", "rejected"}
SubStages == {"idle", "account", "prepare", "send", "poll", "bump", "bumpPoll", "ended"}

(* "transient" errors are those both retry loops repeat: network failures   *)
(* and TransactionNotConfirmedError.  Everything else is "fatal".           *)
Errors == {"transient", "fatal"}

PayRecords ==
    [pc : PayStates,
     attempt : 0 .. MaxAttempts,      \* jobs enqueued so far
     subs : 0 .. 2 * MaxAttempts,     \* executions of _doSubmitTx so far
     failovers : 0 .. 1,              \* of them, failovers of this attempt
     result : Txs \cup {NoTx}]

SubRecords == [stage : SubStages, seq : Nat]
LandedTxs == [tx : Txs, status : {"SUCCESS", "FAILED"}]

TypeOK ==
    /\ pay \in [Pays -> PayRecords]
    /\ queue \in Seq(Pays)
    /\ current \in Pays \cup {NoPay}
    /\ closed \in BOOLEAN
    /\ sub \in [Subs -> SubRecords]
    /\ store \in [Ops -> Txs \cup {NoTx}]
    /\ mempool \subseteq Txs
    /\ landed \subseteq LandedTxs
    /\ ledgerSeq \in Nat
    /\ foreign \in Nat

Init ==
    /\ pay = [p \in Pays |-> [pc |-> "idle", attempt |-> 0, subs |-> 0,
                              failovers |-> 0, result |-> NoTx]]
    /\ queue = <<>>
    /\ current = NoPay
    /\ closed = FALSE
    /\ sub = [s \in Subs |-> [stage |-> "idle", seq |-> 0]]
    /\ store = [o \in Ops |-> NoTx]
    /\ mempool = {}
    /\ landed = {}
    /\ ledgerSeq = 0
    /\ foreign = 0

-----------------------------------------------------------------------------
(* The queue.                                                               *)

(* enqueue(): refused after shutdown; started at once if the queue is idle. *)
(* A refusal is "Queue is shut down", which no retry loop repeats.          *)
Enqueue_AlwaysStarts(p) ==
    /\ pay' = [pay EXCEPT ![p].pc = "starting", ![p].attempt = @ + 1, ![p].failovers = 0]
    /\ current' = p
    /\ UNCHANGED queue

Enqueue(p) ==
    LET entered(pc) == [pay EXCEPT ![p] = [pc |-> pc, attempt |-> @.attempt + 1,
                          subs |-> @.subs, failovers |-> 0, result |-> @.result]]
    IN  IF closed
        THEN /\ pay' = [pay EXCEPT ![p].pc = "rejected"]
             /\ UNCHANGED <<queue, current>>
        ELSE IF current = NoPay
        THEN /\ pay' = entered("starting")
             /\ current' = p
             /\ UNCHANGED queue
        ELSE /\ pay' = entered("queued")
             /\ queue' = Append(queue, p)
             /\ UNCHANGED current

(* The job of p is settled: `outcome` is what becomes of p, and the drain   *)
(* loop takes the next job in the same turn, or stops.                      *)
SettleJob(p, outcome) ==
    IF queue = <<>>
    THEN /\ pay' = [pay EXCEPT ![p] = outcome]
         /\ current' = NoPay
         /\ UNCHANGED queue
    ELSE /\ pay' = [pay EXCEPT ![p] = outcome, ![Head(queue)].pc = "starting"]
         /\ current' = Head(queue)
         /\ queue' = Tail(queue)

JobResolves(p, tx) == SettleJob(p, [pay[p] EXCEPT !.pc = "resolved", !.result = tx])

(* withRetry / executeWithRetry around the job.                             *)
JobRejects_Swallowed(p, error) == UNCHANGED <<pay, queue, current>>

JobRejects(p, error) ==
    SettleJob(p, [pay[p] EXCEPT !.pc = IF error = "transient" /\ pay[p].attempt < MaxAttempts
                                       THEN "backoff" ELSE "rejected"])

Pay(p) ==
    /\ pay[p].pc = "idle"
    /\ Enqueue(p)
    /\ UNCHANGED <<closed, sub, store, mempool, landed, ledgerSeq, foreign>>

(* The backoff delay is over.                                               *)
Retry(p) ==
    /\ pay[p].pc = "backoff"
    /\ Enqueue(p)
    /\ UNCHANGED <<closed, sub, store, mempool, landed, ledgerSeq, foreign>>

Shutdown ==
    /\ ~closed
    /\ closed' = TRUE
    /\ UNCHANGED <<pay, queue, current, sub, store, mempool, landed, ledgerSeq, foreign>>

-----------------------------------------------------------------------------
(* The job: look the key up, otherwise submit.                              *)

Known_Unchecked(p) == FALSE
Known(p) == Idempotent /\ store[OpOf[p]] # NoTx
NextSub(p) == <<p, pay[p].subs + 1>>

(* submit(): a new execution of _doSubmitTx begins.                         *)
BeginSub(p) ==
    /\ pay' = [pay EXCEPT ![p] = [pc |-> "running", attempt |-> @.attempt,
                  subs |-> @.subs + 1, failovers |-> @.failovers, result |-> @.result]]
    /\ sub' = [sub EXCEPT ![NextSub(p)].stage = "account"]
    /\ UNCHANGED <<queue, current, closed, store, mempool, landed, ledgerSeq, foreign>>

Hit(p) ==
    /\ pay[p].pc = "starting"
    /\ Known(p)
    /\ pay' = [pay EXCEPT ![p].pc = "hit", ![p].result = store[OpOf[p]]]
    /\ UNCHANGED <<queue, current, closed, sub, store, mempool, landed, ledgerSeq, foreign>>

ReturnHit(p) ==
    /\ pay[p].pc = "hit"
    /\ JobResolves(p, pay[p].result)
    /\ UNCHANGED <<closed, sub, store, mempool, landed, ledgerSeq, foreign>>

Execute(p) ==
    /\ pay[p].pc = "starting"
    /\ ~Known(p)
    /\ BeginSub(p)

(* The catch block: with a standby the job submits once more, whatever the  *)
(* error was.                                                               *)
Failover(p) ==
    /\ pay[p].pc = "failover"
    /\ BeginSub(p)

-----------------------------------------------------------------------------
(* _doSubmitTx.                                                             *)

(* Is the queue's job still awaiting this execution?                        *)
Awaited_AnyRunning(s) == pay[s[1]].pc = "running"
Awaited(s) == pay[s[1]].pc = "running" /\ pay[s[1]].subs = s[2]

At(s, stage) == sub[s].stage = stage
GoTo(s, stage) == sub' = [sub EXCEPT ![s].stage = stage]
StaysOnLedger == UNCHANGED ledgerVars

(* The error leaves _doSubmitTx: failover if a standby is there and was not *)
(* used in this attempt, otherwise the job rejects.                         *)
ErrorReachesJob(p, error) ==
    IF Standby /\ pay[p].failovers = 0
    THEN /\ pay' = [pay EXCEPT ![p] = [pc |-> "failover", attempt |-> @.attempt,
                       subs |-> @.subs, failovers |-> 1, result |-> @.result]]
         /\ UNCHANGED <<queue, current>>
    ELSE JobRejects(p, error)

SubFails(s, error) ==
    /\ GoTo(s, "ended")
    /\ IF Awaited(s) THEN ErrorReachesJob(s[1], error) ELSE UNCHANGED <<pay, queue, current>>
    /\ UNCHANGED <<closed, store>>

(* tryClaim(): the first transaction stored for a key stays.                *)
TryClaim(o, tx) ==
    store' = IF Idempotent /\ store[o] = NoTx THEN [store EXCEPT ![o] = tx] ELSE store

SubSucceeds(s, tx) ==
    /\ GoTo(s, "ended")
    /\ IF Awaited(s)
       THEN JobResolves(s[1], tx) /\ TryClaim(Op(s), tx)
       ELSE UNCHANGED <<pay, queue, current, store>>
    /\ UNCHANGED closed

(* getAccount(): the node's ledger may be behind.                           *)
ReadAccount(s) ==
    /\ At(s, "account")
    /\ \E n \in IF RpcLags THEN 0 .. ledgerSeq ELSE {ledgerSeq} :
          sub' = [sub EXCEPT ![s] = [stage |-> "prepare", seq |-> n + 1]]
    /\ UNCHANGED <<pay, queue, current, closed, store>>
    /\ StaysOnLedger

(* simulateTransaction(), assembleTransaction() and signTransaction().      *)
Prepare(s) ==
    /\ At(s, "prepare")
    /\ GoTo(s, "send")
    /\ UNCHANGED <<pay, queue, current, closed, store>>
    /\ StaysOnLedger

InnerTx(s) == [sub |-> s, seq |-> sub[s].seq, kind |-> "inner"]
BumpTx_FreshSequence(s) == [sub |-> s, seq |-> ledgerSeq + 1, kind |-> "bump"]
BumpTx(s) == [sub |-> s, seq |-> sub[s].seq, kind |-> "bump"]
ToSend(s) == IF At(s, "send") THEN InnerTx(s) ELSE BumpTx(s)
Sending(s) == At(s, "send") \/ At(s, "bump")

(* The node takes the transaction and its answer arrives.                   *)
SendAccepted(s) ==
    /\ Sending(s)
    /\ mempool' = mempool \cup {ToSend(s)}
    /\ GoTo(s, IF At(s, "send") THEN "poll" ELSE "bumpPoll")
    /\ UNCHANGED <<pay, queue, current, closed, store, landed, ledgerSeq, foreign>>

(* Status TRY_AGAIN_LATER is not "ERROR": the code goes on to poll.         *)
SendPutOff(s) ==
    /\ Sending(s)
    /\ GoTo(s, IF At(s, "send") THEN "poll" ELSE "bumpPoll")
    /\ UNCHANGED <<pay, queue, current, closed, store>>
    /\ StaysOnLedger

(* The node takes the transaction but the answer is lost on the way.        *)
SendAnswerLost(s) ==
    /\ Sending(s)
    /\ mempool' = mempool \cup {ToSend(s)}
    /\ SubFails(s, "transient")
    /\ UNCHANGED <<landed, ledgerSeq, foreign>>

(* Status ERROR, a failed simulation or a refused signature is fatal; the   *)
(* connection failing in a call before or during the send is transient.     *)
FailsBeforeSending(s) ==
    /\ At(s, "account") \/ At(s, "prepare") \/ Sending(s)
    /\ \E error \in Errors : SubFails(s, error)
    /\ StaysOnLedger

Polled(s) == IF At(s, "poll") THEN InnerTx(s) ELSE BumpTx(s)
Polling(s) == At(s, "poll") \/ At(s, "bumpPoll")
Landed(tx) == \E r \in landed : r.tx = tx
Applied(tx) == [tx |-> tx, status |-> "SUCCESS"] \in landed

PollFinds_AnyStatus(s) ==
    /\ Polling(s)
    /\ Landed(Polled(s)) /\ SubSucceeds(s, Polled(s))
    /\ StaysOnLedger

PollFinds(s) ==
    /\ Polling(s)
    /\ \/ Applied(Polled(s)) /\ SubSucceeds(s, Polled(s))
       \/ Landed(Polled(s)) /\ ~Applied(Polled(s)) /\ SubFails(s, "transient")
    /\ StaysOnLedger

(* The last of the 21 polls still answers NOT_FOUND: fee bump the first     *)
(* time, TransactionNotConfirmedError the second.                           *)
PollGivesUp(s) ==
    /\ Polling(s)
    /\ RpcLags \/ ~Landed(Polled(s))
    /\ IF At(s, "poll")
       THEN GoTo(s, "bump") /\ UNCHANGED <<pay, queue, current, closed, store>>
       ELSE SubFails(s, "transient")
    /\ StaysOnLedger

(* getTransaction() throws.                                                 *)
PollDisconnects(s) ==
    /\ Polling(s)
    /\ SubFails(s, "transient")
    /\ StaysOnLedger

SubStep(s) ==
    \/ ReadAccount(s) \/ Prepare(s)
    \/ SendAccepted(s) \/ SendPutOff(s) \/ SendAnswerLost(s) \/ FailsBeforeSending(s)
    \/ PollFinds(s) \/ PollGivesUp(s) \/ PollDisconnects(s)

-----------------------------------------------------------------------------
(* The rest of the world.                                                   *)

(* The network applies a pending transaction with the next number; the      *)
(* contract may refuse it, which consumes the number all the same.  A       *)
(* pending transaction that never lands stands for one that was dropped or  *)
(* whose time bounds passed.                                                *)
Land(tx) ==
    /\ tx \in mempool
    /\ tx.seq = ledgerSeq + 1
    /\ ledgerSeq' = ledgerSeq + 1
    /\ \E status \in {"SUCCESS", "FAILED"} :
          landed' = landed \cup {[tx |-> tx, status |-> status]}
    /\ mempool' = {t \in mempool : t.seq > tx.seq}
    /\ UNCHANGED clientVars
    /\ UNCHANGED foreign

(* Another program, or a submission that bypasses the queue                 *)
(* (_submitWaterfallTx), uses the account's next sequence number.           *)
ForeignTx ==
    /\ foreign < MaxForeign
    /\ foreign' = foreign + 1
    /\ ledgerSeq' = ledgerSeq + 1
    /\ UNCHANGED clientVars
    /\ UNCHANGED <<mempool, landed>>

(* An entry reaches its TTL or is the oldest of a full store.               *)
ExpireKey(o) ==
    /\ KeysExpire
    /\ store[o] # NoTx
    /\ store' = [store EXCEPT ![o] = NoTx]
    /\ UNCHANGED <<pay, queue, current, closed, sub>>
    /\ StaysOnLedger

Environment ==
    \/ \E tx \in mempool : Land(tx)
    \/ ForeignTx
    \/ \E o \in Ops : ExpireKey(o)

PayStep(p) == Pay(p) \/ Retry(p) \/ Hit(p) \/ ReturnHit(p) \/ Execute(p) \/ Failover(p)

Next ==
    \/ \E p \in Pays : PayStep(p)
    \/ \E s \in Subs : SubStep(s)
    \/ Shutdown
    \/ Environment

Spec == Init /\ [][Next]_vars

(* Every await of the client ends: RPC calls answer or fail, delays pass.   *)
(* The ledger owes nothing.                                                 *)
Fairness ==
    /\ \A p \in Pays : WF_vars(Retry(p) \/ Hit(p) \/ ReturnHit(p) \/ Execute(p) \/ Failover(p))
    /\ \A s \in Subs : WF_vars(SubStep(s))

FairSpec == Spec /\ Fairness

-----------------------------------------------------------------------------
(* Properties.                                                              *)

(* A call of pay() that resolves names a transaction that carries its       *)
(* operation and that the ledger has applied: no answer that arrives late,  *)
(* for another execution or for the other of the two transactions is ever   *)
(* taken for success.                                                       *)
ResolvedIsApplied ==
    \A p \in Pays : pay[p].pc = "resolved" =>
        Applied(pay[p].result) /\ Op(pay[p].result.sub) = OpOf[p]

(* The idempotency store answers only with transactions that were applied   *)
(* for that very operation.                                                 *)
StoredIsApplied ==
    \A o \in Ops : store[o] # NoTx => Applied(store[o]) /\ Op(store[o].sub) = o

(* The queue runs one submission at a time, so duplicates are serialised:   *)
(* at most one execution of _doSubmitTx is between its start and its end.   *)
Active(s) == sub[s].stage \notin {"idle", "ended"}
OneSubmission == \A s, t \in Subs : Active(s) /\ Active(t) => s = t

(* A fee bump wraps the very transaction it bumps, with its sequence        *)
(* number: the ledger never applies both.                                   *)
BumpExcludesInner ==
    \A s \in Subs :
        ~ \E r, q \in landed : /\ r.tx.sub = s /\ r.tx.kind = "inner"
                              /\ q.tx.sub = s /\ q.tx.kind = "bump"

(* Once a key is remembered, and while it is, the operation is not sent     *)
(* again: the lookup happens inside the queued job, after every earlier     *)
(* submission has claimed its key.                                          *)
NoSendOnceClaimed ==
    [][\A tx \in mempool' \ mempool : Idempotent => store[Op(tx.sub)] = NoTx]_vars

(* Two calls that ask for the same operation and both succeed return the    *)
(* same transaction, however often the first one was retried.               *)
TwinsShareTransaction ==
    Idempotent /\ ~KeysExpire =>
        \A p, q \in Pays :
            /\ OpOf[p] = OpOf[q]
            /\ pay[p].pc = "resolved" /\ pay[q].pc = "resolved"
            => pay[p].result = pay[q].result

(* Equal payments are serialised, and share what the first of them sent.    *)
TwinsAreSerialised == OneSubmission /\ TwinsShareTransaction

(* No operation is applied twice.                                           *)
AppliedOf(o) == {r \in landed : r.status = "SUCCESS" /\ Op(r.tx.sub) = o}
AppliedAtMostOnce == \A o \in Ops : Cardinality(AppliedOf(o)) <= 1

(* What a caller sees of its call, and what the ledger has made of the      *)
(* submissions.                                                             *)
Outcome(p) ==
    CASE pay[p].pc = "idle" -> "none"
      [] pay[p].pc = "resolved" -> "paid"
      [] pay[p].pc = "rejected" -> "failed"
      [] OTHER -> "pending"
Made == {s \in Subs : s[2] <= pay[s[1]].subs}
Executions(s) == {r \in landed : r.status = "SUCCESS" /\ r.tx.sub = s}

(* Whatever is retried, failed over, expired or answered late, the calls    *)
(* keep the promise of PaymentPromise: no submission is executed twice and  *)
(* no success is reported without an execution.                             *)
Promise == INSTANCE PaymentPromise WITH
             Submissions <- Subs,
             outcome <- [p \in Pays |-> Outcome(p)],
             submitted <- Made,
             executions <- [s \in Subs |-> Cardinality(Executions(s))]
ImplementsPromise == Promise!PromiseSpec

(* The queue's books: exactly the job it awaits is under way, exactly the   *)
(* calls in its list are waiting, each once.                                *)
UnderWay(p) == pay[p].pc \in {"starting", "running", "failover", "hit"}
QueueConsistent ==
    /\ \A p \in Pays : UnderWay(p) <=> current = p
    /\ \A p \in Pays : pay[p].pc = "queued" <=> \E i \in 1 .. Len(queue) : queue[i] = p
    /\ \A i, j \in 1 .. Len(queue) : queue[i] = queue[j] => i = j
    /\ current = NoPay => queue = <<>>

(* Every call of pay() settles, whenever shutdown() comes, whatever is      *)
(* retried, and even if the ledger never applies anything.                  *)
Settled(p) == pay[p].pc \in {"resolved", "rejected"}
EveryPaySettles == \A p \in Pays : pay[p].pc # "idle" ~> Settled(p)
=============================================================================
